---------------------------- MODULE ServerProofs ----------------------------
(***************************************************************************)
(* The server's counters, its drain and its listener for every number of      *)
(* handshakes, users and concurrent Drains and every cap.                     *)
(*                                                                         *)
(* What has to be carried along: a connection is tracked exactly from track   *)
(* to untrack; a Drain that began has closed both gates; every connection      *)
(* that runs is told or still in the snapshot; and a Drain that was let        *)
(* through found the count at zero, where it stays.                          *)
(***************************************************************************)
EXTENDS Server, FiniteSetTheorems, TLAPS

TrackedWhileRunning ==
  \A h \in Handshakes :
    conns[h] # Untracked <=> handshake[h] \in {"turned away", "running", "leaving"}

GatesShut == \A d \in Drainers : drain[d] # "idle" => draining /\ stopped

SnapshotCovers ==
  \A d \in Drainers :
    /\ drain[d] # "idle" =>
         \A h \in Handshakes : handshake[h] = "running" => h \in told \cup live[d]
    /\ drain[d] \in {"waiting", "empty", "woken", "drained", "gave up"} => live[d] = {}

WokenAtZero ==
  \A d \in Drainers : drain[d] \in {"empty", "woken", "drained"} => current = 0

ListenerKnown ==
  /\ listener \in {"held", "serving"} => http
  /\ \A d \in Drainers : drain[d] \notin {"idle", "shutting"} =>
       listener # "serving" /\ (listener = "held" => shut)

(* Waiters are what release wakes. *)
WaitersWait == \A d \in drained : drain[d] = "waiting"

Ordered == /\ TrackedWhileRunning /\ GatesShut /\ SnapshotCovers
           /\ WokenAtZero /\ ListenerKnown /\ WaitersWait

IInv == TypeOK /\ SlotsFollow /\ CapsHold /\ Ordered

LEMMA InitInv == Init => IInv
<1> SUFFICES ASSUME Init PROVE IInv
  OBVIOUS
<1>1. Inside = {}
  BY DEF Init, Inside, Reserved
<1>2. \A u \in Users : BoundTo(u) = {}
  BY ServerAssumption DEF Init, BoundTo
<1>3. TypeOK
  BY DEF Init, TypeOK, Phases
<1>4. SlotsFollow /\ CapsHold
  BY <1>1, <1>2, FS_EmptySet, ServerAssumption DEF Init, SlotsFollow, CapsHold
<1> QED
  BY <1>3, <1>4 DEF IInv, Ordered, Init, TrackedWhileRunning, GatesShut, SnapshotCovers, WokenAtZero,
                    ListenerKnown, WaitersWait

-----------------------------------------------------------------------------
(* What a step does to the two counted sets. *)

LEMMA CountedFinite ==
  ASSUME TypeOK
  PROVE  /\ Inside \subseteq Handshakes /\ IsFiniteSet(Inside)
         /\ \A u \in Users : BoundTo(u) \subseteq Handshakes /\ IsFiniteSet(BoundTo(u))
<1>1. Inside \in SUBSET Handshakes /\ \A u \in Users : BoundTo(u) \in SUBSET Handshakes
  BY DEF Inside, BoundTo
<1> QED
  BY <1>1, ServerAssumption, FS_Subset

(* A handshake that moves between two phases on the same side of the gate. *)
LEMMA MoveKeepsInside ==
  ASSUME TypeOK, NEW h \in Handshakes, NEW p \in Phases, NEW q \in Phases, Moves(h, p, q),
         p \in Reserved <=> q \in Reserved
  PROVE  Inside' = Inside
BY DEF TypeOK, Moves, Inside

LEMMA MoveEnters ==
  ASSUME TypeOK, NEW h \in Handshakes, Moves(h, "idle", "upgrading")
  PROVE  /\ h \notin Inside
         /\ Inside' = Inside \cup {h}
         /\ Cardinality(Inside') = Cardinality(Inside) + 1
<1>1. h \notin Inside /\ Inside' = Inside \cup {h}
  BY DEF Phases, TypeOK, Moves, Inside, Reserved
<1> QED
  BY <1>1, CountedFinite, FS_AddElement

LEMMA MoveLeaves ==
  ASSUME TypeOK, NEW h \in Handshakes, Moves(h, "unwinding", "gone")
  PROVE  /\ h \in Inside
         /\ Inside' = Inside \ {h}
         /\ Cardinality(Inside') = Cardinality(Inside) - 1
<1>1. h \in Inside /\ Inside' = Inside \ {h}
  BY DEF Phases, TypeOK, Moves, Inside, Reserved
<1> QED
  BY <1>1, CountedFinite, FS_RemoveElement

(* A connection that changes hands. *)
LEMMA BindAdds ==
  ASSUME TypeOK, NEW h \in Handshakes, NEW u \in Users, conns[h] = NoUser,
         conns' = [conns EXCEPT ![h] = u]
  PROVE  \A v \in Users :
           /\ BoundTo(v)' = IF v = u THEN BoundTo(v) \cup {h} ELSE BoundTo(v)
           /\ Cardinality(BoundTo(v)') =
                IF v = u THEN Cardinality(BoundTo(v)) + 1 ELSE Cardinality(BoundTo(v))
<1> TAKE v \in Users
<1>1. \A g \in Handshakes : conns'[g] = IF g = h THEN u ELSE conns[g]
  BY DEF TypeOK
<1>2. h \notin BoundTo(v)
  BY ServerAssumption DEF BoundTo
<1>3. h \notin BoundTo(v) /\ BoundTo(v)' = IF v = u THEN BoundTo(v) \cup {h} ELSE BoundTo(v)
  BY <1>1, <1>2 DEF BoundTo
<1>4. IsFiniteSet(BoundTo(v))
  BY CountedFinite
<1>5. Cardinality(BoundTo(v) \cup {h}) = Cardinality(BoundTo(v)) + 1
  BY <1>3, <1>4, FS_AddElement
<1> QED
  BY <1>3, <1>5

LEMMA UntrackDrops ==
  ASSUME TypeOK, NEW h \in Handshakes, conns' = [conns EXCEPT ![h] = Untracked]
  PROVE  \A v \in Users :
           /\ BoundTo(v)' = IF conns[h] = v THEN BoundTo(v) \ {h} ELSE BoundTo(v)
           /\ Cardinality(BoundTo(v)') =
                IF conns[h] = v THEN Cardinality(BoundTo(v)) - 1 ELSE Cardinality(BoundTo(v))
<1> TAKE v \in Users
<1>1. /\ BoundTo(v)' = IF conns[h] = v THEN BoundTo(v) \ {h} ELSE BoundTo(v)
      /\ conns[h] = v => h \in BoundTo(v)
  BY ServerAssumption DEF TypeOK, BoundTo
<1> QED
  BY <1>1, CountedFinite, FS_RemoveElement

LEMMA TrackBindsNobody ==
  ASSUME TypeOK, NEW h \in Handshakes, conns[h] \notin Users,
         conns' = [conns EXCEPT ![h] = NoUser]
  PROVE  \A v \in Users : BoundTo(v)' = BoundTo(v)
BY ServerAssumption DEF TypeOK, BoundTo

-----------------------------------------------------------------------------
(* The counters and the caps, action by action. *)

Counted == SlotsFollow /\ CapsHold

LEMMA CountedStays ==
  ASSUME Counted, current' = current, users' = users, Inside' = Inside,
         \A u \in Users : BoundTo(u)' = BoundTo(u)
  PROVE  Counted'
BY DEF Counted, SlotsFollow, CapsHold

LEMMA ReserveCounts ==
  ASSUME IInv, NEW h \in Handshakes, Reserve(h)
  PROVE  TypeOK' /\ Counted'
<1> USE DEF IInv
<1>1. \A u \in Users : BoundTo(u)' = BoundTo(u)
  BY DEF Reserve, BoundTo
<1>2. CASE Moves(h, "idle", "upgrading") /\ current' = current + 1 /\ Below(current, MaxConnections)
  <2>1. Cardinality(Inside') = Cardinality(Inside) + 1
    BY <1>2, MoveEnters
  <2>2. handshake' \in [Handshakes -> Phases] /\ current' \in Nat
    <3>1. handshake' \in [Handshakes -> Phases]
      BY <1>2 DEF Moves, TypeOK, Phases, Reserved
    <3>2. current \in Nat
      BY DEF TypeOK
    <3> QED
      BY <1>2, <3>1, <3>2
  <2>3. TypeOK'
    BY <2>2 DEF Reserve, TypeOK, gate, drains
  <2>4. SlotsFollow'
    BY <1>1, <1>2, <2>1 DEF Reserve, SlotsFollow
  <2>5. MaxConnections > 0 => Cardinality(Inside') <= MaxConnections
    <3>1. MaxConnections > 0 => current < MaxConnections
      BY <1>2, ServerAssumption DEF Below
    <3>2. current \in Nat /\ Cardinality(Inside') = current + 1
      BY <2>1 DEF SlotsFollow, TypeOK
    <3> QED
      BY <3>1, <3>2, ServerAssumption
  <2>6. CapsHold'
    BY <1>1, <2>5 DEF CapsHold
  <2> QED
    BY <2>3, <2>4, <2>6 DEF Counted
<1>3. CASE Moves(h, "idle", "refused") /\ UNCHANGED current
  <2>1. Inside' = Inside
    BY <1>3, MoveKeepsInside DEF Phases, Reserved
  <2>2. TypeOK'
    BY <1>3 DEF Reserve, Moves, TypeOK, Phases, Reserved, gate, drains
  <2> QED
    BY <1>1, <1>3, <2>1, <2>2, CountedStays DEF Reserve, Counted
<1> QED
  BY <1>2, <1>3 DEF Reserve

(* The phases between reserve and release that leave the counters alone. *)
LEMMA InnerCounts ==
  ASSUME IInv, NEW h \in Handshakes,
         \/ UpgradeFails(h) \/ Upgrade(h) \/ AddFails(h) \/ TurnAway(h) \/ RunReturns(h)
         \/ Track(h)
         \/ \E u \in Users : RefuseUser(h, u)
  PROVE  TypeOK' /\ Counted'
<1> USE DEF IInv
<1>1. Inside' = Inside
  BY MoveKeepsInside DEF Phases, Reserved, UpgradeFails, Upgrade, AddFails, TurnAway, RunReturns,
     Track, RefuseUser
<1>2. \A u \in Users : BoundTo(u)' = BoundTo(u)
  <2>1. CASE Track(h)
    <3>1. conns[h] \notin Users
      BY <2>1, ServerAssumption DEF Ordered, Track, Moves, TrackedWhileRunning, TypeOK
    <3> QED
      BY <2>1, <3>1, TrackBindsNobody DEF Track
  <2>2. CASE conns' = conns
    BY <2>2 DEF BoundTo
  <2> QED
    BY <2>1, <2>2 DEF UpgradeFails, Upgrade, AddFails, TurnAway, RunReturns, RefuseUser
<1>3. TypeOK'
  <2>1. handshake' \in [Handshakes -> Phases]
    BY DEF UpgradeFails, Upgrade, AddFails, TurnAway, RunReturns, Track, RefuseUser, Moves, TypeOK,
           Phases, Reserved
  <2>2. told' = told \/ told' = told \cup {h}
    BY DEF UpgradeFails, Upgrade, AddFails, TurnAway, RunReturns, Track, RefuseUser
  <2>3. conns' = conns \/ conns' = [conns EXCEPT ![h] = NoUser]
    BY DEF UpgradeFails, Upgrade, AddFails, TurnAway, RunReturns, Track, RefuseUser
  <2>4. UNCHANGED <<current, users, gate, drains>>
    BY DEF UpgradeFails, Upgrade, AddFails, TurnAway, RunReturns, Track, RefuseUser
  <2> QED
    BY <2>1, <2>2, <2>3, <2>4 DEF TypeOK, gate, drains
<1>4. current' = current /\ users' = users
  BY DEF UpgradeFails, Upgrade, AddFails, TurnAway, RunReturns, Track, RefuseUser
<1> QED
  BY <1>1, <1>2, <1>3, <1>4, CountedStays DEF Counted

LEMMA AdmitUserCounts ==
  ASSUME IInv, NEW h \in Handshakes, NEW u \in Users, AdmitUser(h, u)
  PROVE  TypeOK' /\ Counted'
<1> USE DEF IInv
<1>1. \A v \in Users : Cardinality(BoundTo(v)') =
                        IF v = u THEN Cardinality(BoundTo(v)) + 1 ELSE Cardinality(BoundTo(v))
  BY BindAdds DEF AdmitUser
<1>2. Inside' = Inside
  BY DEF AdmitUser, Inside
<1>3. TypeOK'
  <2>1. conns' \in [Handshakes -> Users \cup {NoUser, Untracked}]
    BY DEF AdmitUser, TypeOK
  <2>2. users' \in [Users -> Nat]
    <3>1. users \in [Users -> Nat] /\ users[u] \in Nat
      BY DEF TypeOK
    <3>2. users[u] + 1 \in Nat
      BY <3>1
    <3> QED
      BY <3>1, <3>2 DEF AdmitUser
  <2> QED
    BY <2>1, <2>2 DEF AdmitUser, TypeOK, gate, drains
<1>4. \A v \in Users : users'[v] = IF v = u THEN users[v] + 1 ELSE users[v]
  BY DEF AdmitUser, TypeOK
<1>5. SlotsFollow'
  BY <1>1, <1>2, <1>4 DEF AdmitUser, SlotsFollow
<1>6. CapsHold'
  <2> SUFFICES ASSUME MaxPerUser > 0, NEW v \in Users
               PROVE  Cardinality(BoundTo(v)') <= MaxPerUser
    BY <1>2 DEF CapsHold
  <2>1. CASE v = u
    <3>1. users[u] < MaxPerUser
      BY ServerAssumption DEF AdmitUser, Below
    <3>2. Cardinality(BoundTo(v)') = users[u] + 1 /\ users[u] \in Nat
      BY <2>1, <1>1 DEF SlotsFollow, TypeOK
    <3> QED
      BY <3>1, <3>2, ServerAssumption
  <2>2. CASE v # u
    BY <2>2, <1>1 DEF CapsHold
  <2> QED
    BY <2>1, <2>2
<1> QED
  BY <1>3, <1>5, <1>6 DEF Counted

LEMMA UntrackCounts ==
  ASSUME IInv, NEW h \in Handshakes, Untrack(h)
  PROVE  TypeOK' /\ Counted'
<1> USE DEF IInv
<1>1. \A v \in Users : Cardinality(BoundTo(v)') =
                        IF conns[h] = v THEN Cardinality(BoundTo(v)) - 1 ELSE Cardinality(BoundTo(v))
  BY UntrackDrops DEF Untrack
<1>2. Inside' = Inside
  BY MoveKeepsInside DEF Untrack, Phases, Reserved
<1>3. \A v \in Users : Cardinality(BoundTo(v)') \in Nat
  <2> TAKE v \in Users
  <2>1. BoundTo(v)' \in SUBSET Handshakes
    BY DEF BoundTo
  <2> QED
    BY <2>1, ServerAssumption, FS_Subset, FS_CardinalityType
<1>4. \A v \in Users : users'[v] = IF conns[h] = v THEN users[v] - 1 ELSE users[v]
  BY DEF Untrack, TypeOK
<1>5. SlotsFollow'
  BY <1>1, <1>2, <1>4 DEF Untrack, SlotsFollow
<1>6. CapsHold'
  <2> SUFFICES ASSUME MaxPerUser > 0, NEW v \in Users
               PROVE  Cardinality(BoundTo(v)') <= MaxPerUser
    BY <1>2 DEF CapsHold
  <2>1. Cardinality(BoundTo(v)) \in Nat /\ Cardinality(BoundTo(v)) <= MaxPerUser
    BY DEF CapsHold, SlotsFollow, TypeOK
  <2> QED
    BY <2>1, <1>1, ServerAssumption
<1>7. users' \in [Users -> Nat]
  <2>1. DOMAIN users' = Users /\ users' = [v \in Users |-> users'[v]]
    BY DEF Untrack, TypeOK
  <2> QED
    BY <1>3, <1>5, <2>1 DEF SlotsFollow
<1>8. TypeOK'
  BY <1>7 DEF Untrack, Moves, TypeOK, Phases, Reserved, gate, drains
<1> QED
  BY <1>5, <1>6, <1>8 DEF Counted

LEMMA ReleaseCounts ==
  ASSUME IInv, NEW h \in Handshakes, Release(h)
  PROVE  TypeOK' /\ Counted' /\ current > 0
<1> USE DEF IInv
<1>1. h \in Inside /\ Inside' = Inside \ {h} /\ Cardinality(Inside') = Cardinality(Inside) - 1
  BY MoveLeaves DEF Release
<1>2. Cardinality(Inside') \in Nat
  <2>1. Inside' \in SUBSET Handshakes
    BY <1>1 DEF Inside
  <2> QED
    BY <2>1, ServerAssumption, FS_Subset, FS_CardinalityType
<1>3. current' = Cardinality(Inside') /\ current > 0
  <2>1. current = Cardinality(Inside) /\ current \in Nat /\ current' = current - 1
    BY DEF Release, SlotsFollow, TypeOK
  <2> QED
    BY <2>1, <1>1, <1>2
<1>4. \A u \in Users : BoundTo(u)' = BoundTo(u)
  BY DEF Release, BoundTo
<1>5. TypeOK'
  BY <1>2, <1>3 DEF Release, Moves, TypeOK, Phases, Reserved, gate
<1>6. Counted'
  <2>1. SlotsFollow'
    BY <1>3, <1>4 DEF Release, SlotsFollow
  <2>2. MaxConnections > 0 => Cardinality(Inside') <= MaxConnections
    <3>1. Cardinality(Inside) \in Nat
      BY DEF SlotsFollow, TypeOK
    <3> QED
      BY <3>1, <1>1, ServerAssumption DEF CapsHold
  <2> QED
    BY <1>4, <2>1, <2>2 DEF Counted, CapsHold
<1> QED
  BY <1>3, <1>5, <1>6

-----------------------------------------------------------------------------
(* The order of things, action by action: Serve, the handshake, the drain. *)

LEMMA GateOrder ==
  ASSUME IInv, Publish \/ Serve \/ StopAccepting
  PROVE  TypeOK' /\ Ordered'
<1> USE DEF IInv, Ordered
<1>1. TypeOK'
  BY DEF Publish, Serve, StopAccepting, TypeOK, slots, drains
<1>2. TrackedWhileRunning' /\ SnapshotCovers' /\ WokenAtZero' /\ WaitersWait'
  BY DEF Publish, Serve, StopAccepting, slots, drains,
         TrackedWhileRunning, SnapshotCovers, WokenAtZero, WaitersWait
<1>3. GatesShut' /\ ListenerKnown'
  BY DEF Publish, Serve, StopAccepting, drains, GatesShut, ListenerKnown
<1> QED
  BY <1>1, <1>2, <1>3

LEMMA HandshakeOrder ==
  ASSUME IInv, TypeOK', NEW h \in Handshakes,
         \/ Reserve(h) \/ UpgradeFails(h) \/ Upgrade(h) \/ AddFails(h) \/ Track(h)
         \/ TurnAway(h) \/ Untrack(h) \/ RunReturns(h)
         \/ \E u \in Users : AdmitUser(h, u) \/ RefuseUser(h, u)
  PROVE  Ordered'
<1> USE DEF IInv, Ordered
<1>1. TrackedWhileRunning'
  <2>1. CASE Track(h)
    BY <2>1, ServerAssumption DEF Track, Moves, TypeOK, TrackedWhileRunning
  <2>2. CASE Untrack(h)
    BY <2>2 DEF Untrack, Moves, TypeOK, TrackedWhileRunning
  <2>3. CASE \E u \in Users : AdmitUser(h, u)
    <3>1. \A g \in Handshakes : conns'[g] = Untracked <=> conns[g] = Untracked
      <4>1. PICK u \in Users : AdmitUser(h, u)
        BY <2>3
      <4>2. \A g \in Handshakes : conns'[g] = IF g = h THEN u ELSE conns[g]
        BY <4>1 DEF AdmitUser, TypeOK
      <4>3. conns[h] = NoUser /\ u # Untracked /\ NoUser # Untracked
        BY <4>1, ServerAssumption DEF AdmitUser
      <4> QED
        BY <4>2, <4>3
    <3> QED
      BY <2>3, <3>1 DEF AdmitUser, TrackedWhileRunning
  <2>4. CASE \/ Reserve(h) \/ UpgradeFails(h) \/ Upgrade(h) \/ AddFails(h) \/ TurnAway(h)
             \/ RunReturns(h) \/ \E u \in Users : RefuseUser(h, u)
    <3> DEFINE Following == {"turned away", "running", "leaving"}
    <3>1. conns' = conns
      BY <2>4 DEF Reserve, UpgradeFails, Upgrade, AddFails, TurnAway, RunReturns, RefuseUser
    <3>2. PICK p, q : /\ Moves(h, p, q)
                      /\ p \in Following <=> q \in Following
      BY <2>4 DEF Reserve, UpgradeFails, Upgrade, AddFails, TurnAway, RunReturns, RefuseUser,
                  Moves
    <3>3. \A g \in Handshakes : handshake'[g] \in Following <=> handshake[g] \in Following
      BY <3>2 DEF Moves, TypeOK
    <3> QED
      BY <3>1, <3>3 DEF TrackedWhileRunning
  <2> QED
    BY <2>1, <2>2, <2>3, <2>4
<1>2. UNCHANGED <<gate, drains>>
  BY DEF Reserve, UpgradeFails, Upgrade, AddFails, Track, TurnAway, Untrack, RunReturns, AdmitUser,
         RefuseUser
<1>3. GatesShut' /\ ListenerKnown' /\ WaitersWait'
  BY <1>2 DEF gate, drains, GatesShut, ListenerKnown, WaitersWait
<1>4. SnapshotCovers'
  <2>1. \A g \in Handshakes : handshake'[g] = "running" =>
          handshake[g] = "running" \/ g \in told' \/ ~draining
    BY DEF Reserve, UpgradeFails, Upgrade, AddFails, Track, TurnAway, Untrack, RunReturns,
           AdmitUser, RefuseUser, Moves, TypeOK
  <2>2. told \subseteq told'
    BY DEF Reserve, UpgradeFails, Upgrade, AddFails, Track, TurnAway, Untrack, RunReturns,
           AdmitUser, RefuseUser
  <2> QED
    BY <1>2, <2>1, <2>2 DEF drains, SnapshotCovers, GatesShut
<1>5. WokenAtZero'
  <2>1. current' = current \/ ~draining
    BY DEF Reserve, UpgradeFails, Upgrade, AddFails, Track, TurnAway, Untrack, RunReturns,
           AdmitUser, RefuseUser
  <2> QED
    BY <1>2, <2>1 DEF drains, WokenAtZero, GatesShut
<1> QED
  BY <1>1, <1>3, <1>4, <1>5

(* Only waiters are woken, and only when the count is zero. *)
LEMMA ReleaseOrder ==
  ASSUME IInv, NEW h \in Handshakes, Release(h)
  PROVE  Ordered'
<1> USE DEF IInv, Ordered
<1>1. current > 0 /\ TypeOK'
  BY ReleaseCounts
<1>2. PICK wakes : /\ wakes = IF current' = 0 THEN drained ELSE {}
                   /\ drained' = drained \ wakes
                   /\ drain' = [d \in Drainers |-> IF d \in wakes THEN "woken" ELSE drain[d]]
  BY DEF Release
<1>3. TrackedWhileRunning'
  BY DEF Release, Moves, TypeOK, TrackedWhileRunning
<1>4. \A d \in Drainers :
          /\ d \in wakes => drain[d] = "waiting" /\ current' = 0
          /\ d \notin wakes => drain'[d] = drain[d]
          /\ d \in wakes => drain'[d] = "woken"
  BY <1>2 DEF WaitersWait
<1>5. \A d \in Drainers :
          \/ drain'[d] = drain[d]
          \/ drain[d] = "waiting" /\ drain'[d] = "woken" /\ current' = 0
  <2> TAKE d \in Drainers
  <2>1. CASE d \in wakes
    BY <1>4, <2>1
  <2>2. CASE d \notin wakes
    BY <1>4, <2>2
  <2> QED
    BY <2>1, <2>2
<1>6. GatesShut' /\ ListenerKnown'
  <2>1. UNCHANGED gate
    BY DEF Release
  <2> QED
    BY <1>5, <2>1 DEF gate, GatesShut, ListenerKnown
<1>7. SnapshotCovers'
  <2>1. \A g \in Handshakes : handshake'[g] = "running" => handshake[g] = "running"
    BY DEF Release, Moves, TypeOK
  <2>2. UNCHANGED <<told, live>>
    BY DEF Release
  <2> QED
    BY <1>5, <2>1, <2>2 DEF SnapshotCovers
<1>8. WokenAtZero'
  <2>1. \A d \in Drainers : drain[d] \notin {"empty", "woken", "drained"}
    <3>1. current # 0
      BY <1>1
    <3> QED
      BY <3>1 DEF WokenAtZero
  <2> QED
    BY <1>5, <2>1 DEF WokenAtZero
<1>9. WaitersWait'
  BY <1>2, <1>4 DEF TypeOK, WaitersWait
<1> QED
  BY <1>3, <1>6, <1>7, <1>8, <1>9

LEMMA DrainOrder ==
  ASSUME IInv, NEW d \in Drainers, Drain(d) \/ Overrun(d)
  PROVE  TypeOK' /\ Ordered'
<1> USE DEF IInv, Ordered
<1>1. CASE Begin(d)
  <2>1. TypeOK'
    BY <1>1 DEF Begin, TypeOK, slots, Tracked
  <2>2. TrackedWhileRunning' /\ GatesShut' /\ WaitersWait' /\ WokenAtZero'
    BY <1>1 DEF Begin, TypeOK, slots, TrackedWhileRunning, GatesShut, WaitersWait, WokenAtZero
  <2>3. SnapshotCovers'
    BY <1>1 DEF Begin, TypeOK, slots, Tracked, TrackedWhileRunning, SnapshotCovers
  <2>4. ListenerKnown'
    BY <1>1 DEF Begin, TypeOK, ListenerKnown
  <2> QED
    BY <2>1, <2>2, <2>3, <2>4
<1>2. CASE Shutdown(d)
  <2>1. TypeOK'
    BY <1>2 DEF Shutdown, TypeOK, slots
  <2>2. TrackedWhileRunning' /\ GatesShut' /\ WaitersWait' /\ WokenAtZero' /\ SnapshotCovers'
    BY <1>2 DEF Shutdown, TypeOK, slots, TrackedWhileRunning, GatesShut, WaitersWait, WokenAtZero,
                SnapshotCovers
  <2>3. ListenerKnown'
    BY <1>2 DEF Shutdown, TypeOK, ListenerKnown
  <2> QED
    BY <2>1, <2>2, <2>3
<1>3. CASE ShutdownSucceeds(d) \/ ShutdownOverruns(d)
  <2>1. TypeOK'
    BY <1>3 DEF ShutdownSucceeds, ShutdownOverruns, TypeOK, slots, gate
  <2>2. UNCHANGED <<slots, gate, drained, live>>
    BY <1>3 DEF ShutdownSucceeds, ShutdownOverruns
  <2>3. /\ drain[d] = "emptying" /\ drain'[d] = "closing"
        /\ \A e \in Drainers \ {d} : drain'[e] = drain[e]
    BY <1>3 DEF ShutdownSucceeds, ShutdownOverruns, TypeOK
  <2>4. TrackedWhileRunning' /\ SnapshotCovers'
    BY <2>2, <2>3 DEF slots, gate, TrackedWhileRunning, SnapshotCovers
  <2>5. GatesShut' /\ ListenerKnown'
    BY <2>2, <2>3 DEF gate, GatesShut, ListenerKnown
  <2>6. WaitersWait' /\ WokenAtZero'
    BY <2>2, <2>3 DEF slots, WaitersWait, WokenAtZero, TypeOK
  <2> QED
    BY <2>1, <2>4, <2>5, <2>6
<1>4. ASSUME NEW h \in Handshakes, CloseLive(d, h) PROVE TypeOK' /\ Ordered'
  <2>1. TypeOK'
    BY <1>4 DEF CloseLive, TypeOK, gate
  <2>2. \A e \in Drainers : live'[e] \subseteq live[e] /\ live[e] \subseteq live'[e] \cup {h}
    BY <1>4 DEF CloseLive, TypeOK
  <2>3. told' = told \cup {h} /\ handshake' = handshake /\ drain' = drain
    BY <1>4 DEF CloseLive
  <2>4. SnapshotCovers'
    BY <2>2, <2>3 DEF SnapshotCovers
  <2>5. UNCHANGED <<conns, current, drained, gate>>
    BY <1>4 DEF CloseLive
  <2> QED
    BY <2>1, <2>3, <2>4, <2>5 DEF gate, TrackedWhileRunning, GatesShut, WaitersWait,
                WokenAtZero, ListenerKnown
<1>5. CASE Wait(d)
  <2>1. TypeOK'
    BY <1>5 DEF Wait, TypeOK, slots, gate
  <2>2. WaitersWait' /\ WokenAtZero'
    <3>1. current' = current /\ drain[d] = "closing"
      BY <1>5 DEF Wait, slots
    <3>2. \A e \in Drainers \ {d} : drain'[e] = drain[e]
      BY <1>5 DEF Wait, TypeOK
    <3>3. \/ current = 0 /\ drain'[d] = "empty" /\ drained' = drained
          \/ current # 0 /\ drain'[d] = "waiting" /\ drained' = drained \cup {d}
      BY <1>5 DEF Wait, TypeOK
    <3>4. WaitersWait'
      BY <3>1, <3>2, <3>3 DEF TypeOK, WaitersWait
    <3>5. WokenAtZero'
      BY <3>1, <3>2, <3>3 DEF WokenAtZero
    <3> QED
      BY <3>4, <3>5
  <2> QED
    BY <1>5, <2>1, <2>2 DEF Wait, TypeOK, slots, gate, TrackedWhileRunning, GatesShut,
                SnapshotCovers, ListenerKnown
<1>6. CASE Return(d) \/ GiveUp(d)
  <2>1. TypeOK'
    BY <1>6 DEF Return, GiveUp, TypeOK, slots, gate
  <2>2. WaitersWait' /\ WokenAtZero'
    BY <1>6 DEF Return, GiveUp, TypeOK, slots, WaitersWait, WokenAtZero
  <2> QED
    BY <1>6, <2>1, <2>2 DEF Return, GiveUp, TypeOK, slots, gate, TrackedWhileRunning, GatesShut,
                SnapshotCovers, ListenerKnown
<1> QED
  BY <1>1, <1>2, <1>3, <1>4, <1>5, <1>6 DEF Drain, Overrun

LEMMA NextKeeps == IInv /\ [Next]_srvVars => IInv'
<1> SUFFICES ASSUME IInv, [Next]_srvVars PROVE IInv'
  OBVIOUS
<1>1. CASE UNCHANGED srvVars
  <2>1. /\ UNCHANGED <<handshake, told, current, conns, users, drained, drain, live, overran>>
        /\ UNCHANGED <<draining, stopped, http, listener, shut>>
    BY <1>1 DEF srvVars
  <2>2. TypeOK'
    BY <2>1 DEF IInv, TypeOK
  <2>3. SlotsFollow' /\ CapsHold'
    BY <2>1 DEF IInv, SlotsFollow, CapsHold, Inside, BoundTo
  <2>4. TrackedWhileRunning' /\ GatesShut' /\ SnapshotCovers'
    BY <2>1 DEF IInv, Ordered, TrackedWhileRunning, GatesShut, SnapshotCovers
  <2>5. WokenAtZero' /\ ListenerKnown' /\ WaitersWait'
    BY <2>1 DEF IInv, Ordered, WokenAtZero, ListenerKnown, WaitersWait
  <2> QED
    BY <2>2, <2>3, <2>4, <2>5 DEF IInv, Ordered
<1>2. CASE Publish \/ Serve \/ StopAccepting
  <2>1. TypeOK' /\ Ordered'
    BY <1>2, GateOrder
  <2>2. UNCHANGED slots
    BY <1>2 DEF Publish, Serve, StopAccepting
  <2> QED
    BY <2>1, <2>2 DEF IInv, slots, SlotsFollow, CapsHold, Inside, BoundTo
<1>3. ASSUME NEW h \in Handshakes, Handshake(h) \/ Connection(h) PROVE IInv'
  <2>1. CASE Release(h)
    BY <2>1, ReleaseCounts, ReleaseOrder DEF IInv, Counted
  <2>2. CASE Reserve(h)
    BY <2>2, ReserveCounts, HandshakeOrder DEF IInv, Counted
  <2>3. CASE Untrack(h)
    BY <2>3, UntrackCounts, HandshakeOrder DEF IInv, Counted
  <2>4. CASE \E u \in Users : AdmitUser(h, u)
    BY <2>4, AdmitUserCounts, HandshakeOrder DEF IInv, Counted
  <2>5. CASE \/ UpgradeFails(h) \/ Upgrade(h) \/ AddFails(h) \/ TurnAway(h) \/ RunReturns(h)
             \/ Track(h)
             \/ \E u \in Users : RefuseUser(h, u)
    BY <2>5, InnerCounts, HandshakeOrder DEF IInv, Counted
  <2> QED
    BY <1>3, <2>1, <2>2, <2>3, <2>4, <2>5 DEF Handshake, Connection
<1>4. ASSUME NEW d \in Drainers, Drain(d) \/ Overrun(d) PROVE IInv'
  <2>1. TypeOK' /\ Ordered'
    BY <1>4, DrainOrder
  <2>2. UNCHANGED <<handshake, current, conns, users>>
    BY <1>4 DEF Drain, Overrun, Begin, Shutdown, ShutdownSucceeds, ShutdownOverruns, CloseLive,
                Wait, Return, GiveUp, slots
  <2> QED
    BY <2>1, <2>2 DEF IInv, SlotsFollow, CapsHold, Inside, BoundTo
<1> QED
  BY <1>1, <1>2, <1>3, <1>4 DEF Next

(* The invariant holds in every state of every behaviour of the server.         *)
THEOREM Invariance == Spec => []IInv
<1>1. Init => IInv
  BY InitInv
<1>2. IInv /\ [Next]_srvVars => IInv'
  BY NextKeeps
<1> QED
  BY <1>1, <1>2, PTL DEF Spec

(* The state of the server keeps its types; the counters never go below zero.    *)
THEOREM TypeCorrect == Spec => []TypeOK
<1>1. IInv => TypeOK
  BY DEF IInv
<1> QED
  BY <1>1, Invariance, PTL

(* handler.go, reserve and admitUser: no interleaving of any number of           *)
(* handshakes passes either cap, counted on the sockets themselves.             *)
THEOREM CapsAreKept == Spec => []CapsHold
<1>1. IInv => CapsHold
  BY DEF IInv
<1> QED
  BY <1>1, Invariance, PTL

(* handler.go, release and untrack: every path out of a handshake gives back     *)
(* exactly the slots it took.                                              *)
THEOREM SlotsComeBack == Spec => []SlotsFollow
<1>1. IInv => SlotsFollow
  BY DEF IInv
<1> QED
  BY <1>1, Invariance, PTL

(* handler.go, track, and server.go, Drain: no connection escapes between the    *)
(* snapshot and the loop that closes it.                                     *)
THEOREM NobodyMissed == Spec => []EverybodyTold
<1>1. IInv => EverybodyTold
  BY DEF IInv, Ordered, SnapshotCovers, EverybodyTold
<1> QED
  BY <1>1, Invariance, PTL

(* server.go, wait: a Drain without an error leaves an empty replica.           *)
THEOREM DrainedMeansEmpty == Spec => []DrainedIsEmpty
<1>1. IInv => DrainedIsEmpty
  <2> SUFFICES ASSUME IInv, NEW d \in Drainers, drain[d] = "drained" PROVE Inside = {}
    BY DEF DrainedIsEmpty
  <2>1. Cardinality(Inside) = 0
    BY DEF IInv, Ordered, WokenAtZero, SlotsFollow
  <2>2. IsFiniteSet(Inside)
    BY CountedFinite DEF IInv
  <2> QED
    BY <2>1, <2>2, FS_EmptySet
<1> QED
  BY <1>1, Invariance, PTL

(* server.go, Serve and Drain: whichever comes first, no listener is left.       *)
THEOREM ListenerIsStopped == Spec => []ListenerStops
<1>1. IInv => ListenerStops
  BY DEF IInv, Ordered, ListenerKnown, ListenerStops
<1> QED
  BY <1>1, Invariance, PTL

-----------------------------------------------------------------------------
(* Server implements Admission.                                            *)

Pairs    == {p \in Handshakes \X Users : conns[p[1]] = p[2]}
Finished == \E d \in Drainers : drain[d] = "drained"

(* What Admission sees does not change. *)
Unseen == Inside' = Inside /\ Pairs' = Pairs /\ draining' = draining /\ Finished' = Finished

LEMMA PairsAreBound ==
  /\ \A u \in Users : {h \in Handshakes : <<h, u>> \in Pairs} = BoundTo(u)
  /\ \A h \in Handshakes : {p \in Pairs : p[1] = h} = {h} \X {u \in Users : conns[h] = u}
BY DEF Pairs, BoundTo

LEMMA SameCount == \A S : A!Cardinality(S) = Cardinality(S)
BY DEF A!Cardinality, Cardinality, A!IsFiniteSet, IsFiniteSet

LEMMA ReserveImplements ==
  ASSUME IInv, NEW h \in Handshakes, Reserve(h)
  PROVE  A!Enter(h) \/ Unseen
<1> USE DEF IInv
<1>1. Pairs' = Pairs /\ draining' = draining /\ Finished' = Finished
  BY DEF Reserve, gate, drains, Pairs, Finished
<1>2. CASE Moves(h, "idle", "upgrading") /\ ~draining /\ Below(current, MaxConnections)
  <2>1. h \notin Inside /\ Inside' = Inside \cup {h}
    BY <1>2, MoveEnters
  <2>2. A!Below(A!Cardinality(Inside), MaxConnections)
    BY <1>2, SameCount DEF SlotsFollow, Below, A!Below
  <2> QED
    BY <1>1, <1>2, <2>1, <2>2 DEF A!Enter, Pairs, Finished
<1>3. CASE Moves(h, "idle", "refused")
  BY <1>1, <1>3, MoveKeepsInside DEF Phases, Reserved, Unseen
<1> QED
  BY <1>2, <1>3 DEF Reserve

LEMMA InnerUnseen ==
  ASSUME IInv, NEW h \in Handshakes,
         \/ UpgradeFails(h) \/ Upgrade(h) \/ AddFails(h) \/ TurnAway(h) \/ RunReturns(h)
         \/ Track(h)
         \/ \E u \in Users : RefuseUser(h, u)
  PROVE  Unseen
<1> USE DEF IInv
<1>1. Inside' = Inside
  BY MoveKeepsInside DEF Phases, Reserved, UpgradeFails, Upgrade, AddFails, TurnAway, RunReturns,
     Track, RefuseUser
<1>2. draining' = draining /\ Finished' = Finished
  BY DEF UpgradeFails, Upgrade, AddFails, TurnAway, RunReturns, Track, RefuseUser, gate, drains,
     Finished
<1>3. Pairs' = Pairs
  <2>1. CASE Track(h)
    <3>1. conns[h] \notin Users
      BY <2>1, ServerAssumption DEF Ordered, Track, Moves, TrackedWhileRunning, TypeOK
    <3>2. \A g \in Handshakes, u \in Users : conns'[g] = u <=> conns[g] = u
      BY <2>1, <3>1, ServerAssumption DEF Track, TypeOK
    <3> QED
      BY <3>2 DEF Pairs
  <2>2. CASE conns' = conns
    BY <2>2 DEF Pairs
  <2> QED
    BY <2>1, <2>2 DEF UpgradeFails, Upgrade, AddFails, TurnAway, RunReturns, RefuseUser
<1> QED
  BY <1>1, <1>2, <1>3 DEF Unseen

LEMMA AdmitUserImplements ==
  ASSUME IInv, NEW h \in Handshakes, NEW u \in Users, AdmitUser(h, u)
  PROVE  A!Bind(h, u)
<1> USE DEF IInv
<1>1. h \in Inside /\ Inside' = Inside
  BY DEF AdmitUser, Inside, Reserved
<1>2. A!Owned(h) = {}
  <2>1. \A p \in Pairs : p[1] # h
    BY ServerAssumption DEF AdmitUser, Pairs
  <2> QED
    BY <2>1 DEF A!Owned, Pairs
<1>3. A!Below(A!Cardinality(A!Of(u)), MaxPerUser)
  <2>1. A!Of(u) = BoundTo(u)
    BY PairsAreBound DEF A!Of, Pairs
  <2> QED
    BY <2>1, SameCount DEF AdmitUser, SlotsFollow, Below, A!Below
<1>4. Pairs' = Pairs \cup {<<h, u>>}
  <2>1. \A g \in Handshakes : conns'[g] = IF g = h THEN u ELSE conns[g]
    BY DEF AdmitUser, TypeOK
  <2>2. conns[h] \notin Users
    BY ServerAssumption DEF AdmitUser
  <2> QED
    BY <2>1, <2>2 DEF Pairs
<1>5. draining' = draining /\ Finished' = Finished
  BY DEF AdmitUser, gate, drains, Finished
<1> QED
  BY <1>1, <1>2, <1>3, <1>4, <1>5 DEF A!Bind, Pairs, Finished

LEMMA UntrackImplements ==
  ASSUME IInv, NEW h \in Handshakes, Untrack(h)
  PROVE  A!Unbind(h)
<1> USE DEF IInv
<1>1. Inside' = Inside
  BY MoveKeepsInside DEF Untrack, Phases, Reserved
<1>2. Pairs' = Pairs \ {p \in Pairs : p[1] = h}
  <2>1. \A g \in Handshakes : conns'[g] = IF g = h THEN Untracked ELSE conns[g]
    BY DEF Untrack, TypeOK
  <2> QED
    BY <2>1, ServerAssumption DEF Pairs
<1>3. draining' = draining /\ Finished' = Finished
  BY DEF Untrack, gate, drains, Finished
<1> QED
  BY <1>1, <1>2, <1>3 DEF A!Unbind, A!Owned, Pairs, Finished

LEMMA ReleaseImplements ==
  ASSUME IInv, NEW h \in Handshakes, Release(h)
  PROVE  A!Leave(h)
<1> USE DEF IInv
<1>1. h \in Inside /\ Inside' = Inside \ {h}
  BY MoveLeaves DEF Release
<1>2. A!Owned(h) = {}
  <2>1. conns[h] = Untracked
    BY DEF Release, Moves, Ordered, TrackedWhileRunning
  <2>2. \A p \in Pairs : p[1] # h
    BY <2>1, ServerAssumption DEF Pairs
  <2> QED
    BY <2>2 DEF A!Owned, Pairs
<1>3. Pairs' = Pairs /\ draining' = draining
  BY DEF Release, gate, Pairs
<1>4. Finished' = Finished
  <2>1. \A d \in Drainers : drain'[d] = "drained" <=> drain[d] = "drained"
    BY DEF Release, Ordered, WaitersWait
  <2> QED
    BY <2>1 DEF Finished
<1> QED
  BY <1>1, <1>2, <1>3, <1>4 DEF A!Leave, Pairs, Finished

LEMMA DrainImplements ==
  ASSUME IInv, NEW d \in Drainers, Drain(d) \/ Overrun(d)
  PROVE  A!Stop \/ A!Complete \/ Unseen
<1> USE DEF IInv
<1>1. Inside' = Inside /\ Pairs' = Pairs
  BY DEF Drain, Overrun, Begin, Shutdown, ShutdownSucceeds, ShutdownOverruns, CloseLive, Wait,
         Return, GiveUp, slots, Inside, Pairs
<1>2. CASE Return(d) /\ d \notin overran
  <2>1. Inside = {}
    <3>1. Cardinality(Inside) = 0 /\ IsFiniteSet(Inside)
      BY <1>2, CountedFinite DEF Return, Ordered, WokenAtZero, SlotsFollow
    <3> QED
      BY <3>1, FS_EmptySet
  <2>2. draining /\ draining' = draining
    BY <1>2 DEF Return, Ordered, GatesShut, gate
  <2>3. Finished'
    BY <1>2 DEF Return, TypeOK, Finished
  <2> QED
    BY <1>1, <2>1, <2>2, <2>3 DEF A!Complete, Pairs, Finished
<1>3. CASE ~(Return(d) /\ d \notin overran)
  <2>1. \A e \in Drainers : drain'[e] = "drained" <=> drain[e] = "drained"
    BY <1>3 DEF Drain, Overrun, Begin, Shutdown, ShutdownSucceeds, ShutdownOverruns, CloseLive,
         Wait, Return, GiveUp, TypeOK
  <2>2. Finished' = Finished
    BY <2>1 DEF Finished
  <2>3. CASE Begin(d)
    BY <1>1, <2>2, <2>3 DEF Begin, A!Stop, Pairs, Finished
  <2>4. CASE ~Begin(d)
    <3>1. draining' = draining
      BY <2>4 DEF Drain, Overrun, Shutdown, ShutdownSucceeds, ShutdownOverruns, CloseLive, Wait,
         Return, GiveUp, gate
    <3> QED
      BY <1>1, <2>2, <3>1 DEF Unseen
  <2> QED
    BY <2>3, <2>4
<1> QED
  BY <1>2, <1>3

LEMMA StepImplements ==
  ASSUME IInv, [Next]_srvVars
  PROVE  A!Next \/ Unseen
<1>1. CASE UNCHANGED srvVars
  BY <1>1 DEF srvVars, Unseen, Inside, Pairs, Finished
<1>2. CASE Publish \/ Serve
  BY <1>2 DEF Publish, Serve, slots, drains, Unseen, Inside, Pairs, Finished
<1>3. CASE StopAccepting
  BY <1>3 DEF StopAccepting, slots, drains, Inside, Pairs, Finished, A!Stop, A!Next
<1>4. ASSUME NEW h \in Handshakes, Handshake(h) \/ Connection(h) PROVE A!Next \/ Unseen
  BY <1>4, ReserveImplements, InnerUnseen, AdmitUserImplements, UntrackImplements,
     ReleaseImplements DEF Handshake, Connection, A!Next
<1>5. ASSUME NEW d \in Drainers, Drain(d) \/ Overrun(d) PROVE A!Next \/ Unseen
  BY <1>5, DrainImplements DEF A!Next
<1> QED
  BY <1>1, <1>2, <1>3, <1>4, <1>5 DEF Next

(* The counters, the map and the two flags implement the sets of Admission: a    *)
(* handshake enters below the cap and before the drain, is bound below its       *)
(* user's cap, leaves unbound, and a drain completes over nobody.               *)
THEOREM RefinesAdmission == Spec => ImplementsAdmission
<1>1. Init => A!Init
  <2> SUFFICES ASSUME Init PROVE A!Init
    OBVIOUS
  <2>1. Inside = {} /\ Pairs = {}
    BY ServerAssumption DEF Init, Inside, Reserved, Pairs
  <2>2. Finished = FALSE /\ ~draining
    BY DEF Init, Finished
  <2> QED
    BY <2>1, <2>2 DEF A!Init, Pairs, Finished
<1>2. IInv /\ [Next]_srvVars => [A!Next]_(A!admVars)
  <2>1. Unseen => UNCHANGED A!admVars
    BY DEF Unseen, A!admVars, Pairs, Finished
  <2> QED
    BY <2>1, StepImplements
<1> QED
  BY <1>1, <1>2, Invariance, PTL DEF Spec, A!Spec, ImplementsAdmission
=============================================================================
