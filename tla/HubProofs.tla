----------------------------- MODULE HubProofs -----------------------------
(***************************************************************************)
(* The hub, for every set of connections, keys, users and ids, every          *)
(* assignment of ids to connections and every cap, in three parts.            *)
(*                                                                         *)
(* The registry.  None of the invariants of Registry is inductive alone.      *)
(* IInv joins them in three groups, after the variables they speak of: the    *)
(* maps of who holds what (MapsOK), the two indexes (IndexOK), and how far     *)
(* each connection is with its end (LifeOK).  The lemmas on Insert, Detach,    *)
(* File and Deregister carry each group across the mutations the actions       *)
(* share.                                                                  *)
(*                                                                         *)
(* The reconciler.  Two facts make its invariants inductive: a goroutine that  *)
(* is backing off has raised the flag itself and nobody but it lowers it       *)
(* (BackoffIsDirty), and the control key is in every set on its way to the     *)
(* bus (ControlKept).                                                       *)
(*                                                                         *)
(* The two composed.  A caller that moves the desired set always has a         *)
(* markDirty ahead of it, of its own: OwedOnce says that a goroutine about to   *)
(* move the set is not still owing for an earlier move.  So the hub's registry  *)
(* is one of the environments the reconciler was verified in, and what the two  *)
(* invariants say together is that Redis delivers what open connections hold.  *)
(***************************************************************************)
EXTENDS Hub, TLAPS

USE DEF UserIds

-----------------------------------------------------------------------------
(* THE REGISTRY *)

(* A connection that is not registered holds nothing. *)
Unheld == \A c \in Conns : c \notin registered => subs[c] = {}

MapsOK ==
  /\ registered \subseteq Conns
  /\ subs \in [Conns -> SUBSET Keys]
  /\ channels \in [Keys -> SUBSET Conns]
  /\ desired \subseteq Keys
  /\ MirrorAgrees
  /\ DesiredIsHeld
  /\ ReservedUnheld
  /\ Unheld

Started == {"added", "named", "connected"}
Steps   == {"new", "turned away"} \cup Started

(* The user id is set by the application's answer and not before. *)
Unnamed == \A c \in Conns : step[c] \in {"new", "turned away", "added"} => user[c] = NoUser

(* Only a connection that Add accepted is registered. *)
Accepted == \A c \in registered : step[c] \in Started

IndexOK ==
  /\ registered \subseteq Conns
  /\ users \in [UserIds -> SUBSET Conns]
  /\ userOf \in [Conns -> UserIds]
  /\ clients \in [Ids -> Conns \cup {NoConn}]
  /\ user \in [Conns -> UserIds]
  /\ step \in [Conns -> Steps]
  /\ IndexesAgree
  /\ FiledUnderUser
  /\ Unnamed
  /\ Accepted

(* Nothing happens to a connection that never got past Add. *)
Untouched ==
  \A c \in Conns : step[c] \notin Started =>
    /\ life[c] = "open"
    /\ c \notin slow \cup doomed \cup control.targets
    /\ c # control.victim

Removed == \A c \in Conns : life[c] = "closed" \/ c \in doomed => c \notin registered

(* What deregistered a connection is also on its way to closing it. *)
Leaving(c) == life[c] # "open" \/ c \in doomed

Victim(c) == control.state = "close" /\ control.victim = c

Departed ==
  \A c \in Conns : step[c] \in Started /\ c \notin registered => Leaving(c) \/ Victim(c)

(* A disconnect in progress has every attached connection of its user in hand. *)
Claimed ==
  control.state = "close" =>
    \A c \in control.attached : c \in control.targets \/ Victim(c) \/ Leaving(c)

ControlType ==
  [state : {"idle", "close", "unsubscribe"}, user : UserIds, named : SUBSET Conns,
   attached : SUBSET Conns, targets : SUBSET Conns, victim : Conns \cup {NoConn},
   pattern : SUBSET Keys]

LifeOK ==
  /\ life \in [Conns -> {"open", "closing", "closed"}]
  /\ slow \subseteq Conns
  /\ doomed \subseteq Conns
  /\ control \in ControlType
  /\ owing \subseteq Callers
  /\ Untouched
  /\ Removed
  /\ Departed
  /\ Claimed

IInv == MapsOK /\ IndexOK /\ LifeOK

mapVars   == <<registered, subs, channels, desired>>
indexVars == <<registered, users, userOf, clients, user, step>>
lifeVars  == <<registered, step, life, slow, doomed, control, owing>>

-----------------------------------------------------------------------------
(* What an unchanged group keeps.                                           *)

LEMMA MapsUnchanged == ASSUME MapsOK, UNCHANGED mapVars PROVE MapsOK'
BY DEF MapsOK, mapVars, MirrorAgrees, DesiredIsHeld, ReservedUnheld, Unheld, Admits

LEMMA IndexUnchanged == ASSUME IndexOK, UNCHANGED indexVars PROVE IndexOK'
BY DEF IndexOK, indexVars, IndexesAgree, FiledUnderUser, Unnamed, Accepted

LEMMA LifeUnchanged == ASSUME LifeOK, UNCHANGED lifeVars PROVE LifeOK'
BY DEF LifeOK, lifeVars, Untouched, Removed, Departed, Claimed, Victim, Leaving

-----------------------------------------------------------------------------
(* The mutations.                                                          *)

(* A key that is not reserved may be inserted: the set keeps following. *)
LEMMA InsertKeeps ==
  ASSUME MapsOK, NEW c \in registered, NEW K \in SUBSET Keys, \A k \in K : Admits(k),
         Insert(c, K), registered' = registered
  PROVE  MapsOK'
<1> c \in Conns
  BY DEF MapsOK
<1> DEFINE first == {k \in K : channels[k] \cup {c} = {c}}
<1>1. /\ subs' = [subs EXCEPT ![c] = @ \cup K]
      /\ channels' = [k \in Keys |-> IF k \in K THEN channels[k] \cup {c} ELSE channels[k]]
      /\ desired' = desired \cup first
  BY DEF Insert
<1>2. subs' \in [Conns -> SUBSET Keys] /\ channels' \in [Keys -> SUBSET Conns] /\ desired' \subseteq Keys
  BY <1>1 DEF MapsOK
<1>3. MirrorAgrees'
  BY <1>1 DEF MapsOK, MirrorAgrees
<1>4. DesiredIsHeld'
  BY <1>1 DEF MapsOK, DesiredIsHeld
<1>5. ReservedUnheld'
  BY <1>1 DEF MapsOK, ReservedUnheld, Admits
<1>6. Unheld'
  BY <1>1 DEF MapsOK, Unheld
<1> QED
  BY <1>2, <1>3, <1>4, <1>5, <1>6 DEF MapsOK

(* Connections may drop what they hold, some of it or all, all at once. *)
LEMMA DetachKeeps ==
  ASSUME MapsOK, NEW drops \in [Conns -> SUBSET Keys], NEW caller,
         \A c \in Conns : drops[c] \subseteq subs[c],
         Detach(drops, caller),
         registered' \subseteq registered,
         \A c \in registered \ registered' : drops[c] = subs[c]
  PROVE  MapsOK'
<1>1. /\ subs' = [c \in Conns |-> subs[c] \ drops[c]]
      /\ channels' = [k \in Keys |-> {c \in channels[k] : k \notin drops[c]}]
      /\ desired' = desired \ LastHolderGone(drops)
  BY DEF Detach
<1>2. /\ registered' \subseteq Conns
      /\ subs' \in [Conns -> SUBSET Keys]
      /\ channels' \in [Keys -> SUBSET Conns]
      /\ desired' \subseteq Keys
  BY <1>1 DEF MapsOK
<1>3. MirrorAgrees'
  BY <1>1 DEF MapsOK, MirrorAgrees
<1>4. \A k \in Keys : k \in LastHolderGone(drops) <=> channels[k] # {} /\ channels'[k] = {}
  <2> SUFFICES ASSUME NEW k \in Keys
               PROVE  k \in LastHolderGone(drops) <=> channels[k] # {} /\ channels'[k] = {}
    OBVIOUS
  <2>1. channels'[k] = {c \in channels[k] : k \notin drops[c]}
    BY <1>1
  <2>2. \A c \in Conns : k \in drops[c] => c \in channels[k]
    BY DEF MapsOK, MirrorAgrees
  <2>3. channels[k] \subseteq Conns
    BY DEF MapsOK
  <2> QED
    BY <2>1, <2>2, <2>3 DEF LastHolderGone
<1>5. ControlKey \notin LastHolderGone(drops)
  BY <1>4, RegistryAssumption DEF MapsOK, ReservedUnheld, Admits
<1>6. DesiredIsHeld'
  <2>1. \A k \in Keys : k \in desired' <=> k \in desired /\ k \notin LastHolderGone(drops)
    BY <1>1
  <2>2. \A k \in Keys : k \in desired <=> channels[k] # {} \/ k = ControlKey
    BY DEF MapsOK, DesiredIsHeld
  <2>3. \A k \in Keys : channels[k] = {} => channels'[k] = {}
    BY <1>1
  <2>4. \A k \in Keys : k \in desired' <=> channels'[k] # {} \/ k = ControlKey
    BY <1>4, <1>5, <2>1, <2>2, <2>3
  <2> QED
    BY <1>2, <2>4, RegistryAssumption DEF DesiredIsHeld
<1>7. ReservedUnheld'
  BY <1>1 DEF MapsOK, ReservedUnheld, Admits
<1>8. Unheld'
  BY <1>1 DEF MapsOK, Unheld
<1> QED
  BY <1>2, <1>3, <1>6, <1>7, <1>8 DEF MapsOK

(* Filing a connection moves it between buckets and moves nothing else. *)
LEMMA FileKeeps ==
  ASSUME IndexOK, NEW c \in Conns, NEW u \in UserIds, File(c, u),
         registered' = registered \cup {c}
  PROVE  /\ users' \in [UserIds -> SUBSET Conns]
         /\ userOf' \in [Conns -> UserIds]
         /\ \A v \in UserIds : users'[v] = {d \in registered' : userOf'[d] = v}
<1>1. /\ users' = [v \in UserIds |-> IF v = u THEN users[v] \cup {c}
                                     ELSE IF v = userOf[c] THEN users[v] \ {c}
                                     ELSE users[v]]
      /\ userOf' = [userOf EXCEPT ![c] = u]
  BY DEF File
<1>2. \A v \in UserIds : users[v] = {d \in registered : userOf[d] = v}
  BY DEF IndexOK, IndexesAgree
<1> QED
  BY <1>1, <1>2 DEF IndexOK

(* Remove, as an index operation: the connection leaves both indexes. *)
LEMMA DeregisterIndex ==
  ASSUME IndexOK, NEW c \in Conns, NEW caller, Deregister(c, caller),
         UNCHANGED <<user, step>>
  PROVE  IndexOK'
<1>1. CASE c \notin registered
  BY <1>1, IndexUnchanged DEF Deregister, maps, indexVars
<1>2. CASE c \in registered
  <2>1. /\ registered' = registered \ {c}
        /\ clients' = [clients EXCEPT ![IdOf[c]] = NoConn]
        /\ users' = [users EXCEPT ![userOf[c]] = @ \ {c}]
        /\ userOf' = [userOf EXCEPT ![c] = NoUser]
    BY <1>2 DEF Deregister
  <2>2. /\ registered' \subseteq Conns
        /\ users' \in [UserIds -> SUBSET Conns]
        /\ userOf' \in [Conns -> UserIds]
        /\ clients' \in [Ids -> Conns \cup {NoConn}]
    BY <2>1 DEF IndexOK
  <2>3. \A u \in UserIds : users'[u] = {d \in registered' : userOf'[d] = u}
    BY <2>1 DEF IndexOK, IndexesAgree
  <2>4. \A d \in registered' : clients'[IdOf[d]] = d
    BY <1>2, <2>1, RegistryAssumption DEF IndexOK, IndexesAgree
  <2>5. \A i \in Ids : clients'[i] # NoConn => clients'[i] \in registered' /\ IdOf[clients'[i]] = i
    BY <2>1, RegistryAssumption DEF IndexOK, IndexesAgree
  <2>6. FiledUnderUser' /\ Unnamed' /\ Accepted'
    BY <2>1 DEF IndexOK, FiledUnderUser, Unnamed, Accepted
  <2> QED
    BY <2>2, <2>3, <2>4, <2>5, <2>6 DEF IndexOK, IndexesAgree
<1> QED
  BY <1>1, <1>2

(* Remove, as a map operation: the connection drops all it holds. *)
LEMMA DeregisterMaps ==
  ASSUME MapsOK, NEW c \in Conns, NEW caller, Deregister(c, caller)
  PROVE  MapsOK'
<1>1. CASE c \notin registered
  BY <1>1, MapsUnchanged DEF Deregister, maps, mapVars
<1>2. CASE c \in registered
  <2> DEFINE drops == Only(c, subs[c])
  <2>1. Detach(drops, caller) /\ registered' = registered \ {c}
    BY <1>2 DEF Deregister
  <2>2. drops \in [Conns -> SUBSET Keys] /\ drops[c] = subs[c]
    BY DEF Only, MapsOK
  <2>3. \A d \in Conns : drops[d] \subseteq subs[d]
    BY DEF Only
  <2> HIDE DEF drops
  <2> QED
    BY <2>1, <2>2, <2>3, DetachKeeps
<1> QED
  BY <1>1, <1>2

(* After Remove the connection is not registered, and only it has changed. *)
LEMMA DeregisterRemoves ==
  ASSUME NEW c \in Conns, NEW caller \in Callers, Deregister(c, caller),
         owing \subseteq Callers
  PROVE  registered' = registered \ {c} /\ owing' \subseteq Callers
BY DEF Deregister, Detach, maps

-----------------------------------------------------------------------------
(* The invariant holds at the start. *)
LEMMA InitInv == Init => IInv
<1> SUFFICES ASSUME Init PROVE IInv
  OBVIOUS
<1>1. MapsOK
  BY RegistryAssumption DEF Init, MapsOK, MirrorAgrees, DesiredIsHeld, ReservedUnheld, Unheld
<1>2. IndexOK
  BY RegistryAssumption
  DEF Init, IndexOK, IndexesAgree, FiledUnderUser, Unnamed, Accepted, Steps, Started
<1>3. LifeOK
  BY RegistryAssumption
  DEF Init, LifeOK, ControlType, Idle, Untouched, Removed, Departed, Claimed, Victim, Leaving, Started
<1> QED
  BY <1>1, <1>2, <1>3 DEF IInv

(* The reader's steps. *)
LEMMA AddKeeps == ASSUME IInv, NEW c \in Conns, Add(c) PROVE IInv'
<1> USE DEF IInv
<1>1. MapsOK'
  <2>1. registered \subseteq registered' /\ registered' \subseteq registered \cup {c}
    BY DEF Add
  <2>2. UNCHANGED <<subs, channels, desired>>
    BY DEF Add
  <2> QED
    BY <2>1, <2>2 DEF MapsOK, MirrorAgrees, DesiredIsHeld, ReservedUnheld, Unheld, Admits
<1>2. IndexOK'
  <2>1. CASE clients[IdOf[c]] = NoConn
    <3>1. /\ registered' = registered \cup {c}
          /\ clients' = [clients EXCEPT ![IdOf[c]] = c]
          /\ File(c, user[c])
          /\ step' = [step EXCEPT ![c] = "added"]
          /\ user' = user
          /\ step[c] = "new"
      BY <2>1 DEF Add
    <3>2. user[c] = NoUser
      BY <3>1 DEF IndexOK, Unnamed
    <3>3. /\ users' \in [UserIds -> SUBSET Conns]
          /\ userOf' \in [Conns -> UserIds]
          /\ \A v \in UserIds : users'[v] = {d \in registered' : userOf'[d] = v}
      BY <3>1, <3>2, FileKeeps
    <3>4. /\ clients' \in [Ids -> Conns \cup {NoConn}]
          /\ \A i \in Ids : clients'[i] # NoConn =>
               clients'[i] \in registered' /\ IdOf[clients'[i]] = i
          /\ \A d \in registered' : clients'[IdOf[d]] = d
      <4>1. IdOf[c] \in Ids /\ c # NoConn
        BY RegistryAssumption
      <4>2. \A d \in registered : IdOf[d] # IdOf[c]
        BY <2>1, RegistryAssumption DEF IndexOK, IndexesAgree
      <4>3. \A i \in Ids : clients'[i] = IF i = IdOf[c] THEN c ELSE clients[i]
        BY <3>1 DEF IndexOK
      <4>4. clients' \in [Ids -> Conns \cup {NoConn}]
        BY <3>1 DEF IndexOK
      <4>5. \A i \in Ids : clients'[i] # NoConn =>
              clients'[i] \in registered' /\ IdOf[clients'[i]] = i
        BY <3>1, <4>3 DEF IndexOK, IndexesAgree
      <4>6. \A d \in registered' : clients'[IdOf[d]] = d
        BY <3>1, <4>1, <4>2, <4>3, RegistryAssumption DEF IndexOK, IndexesAgree
      <4> QED
        BY <4>4, <4>5, <4>6
    <3>5. FiledUnderUser' /\ Unnamed' /\ Accepted'
      BY <3>1, <3>2 DEF File, IndexOK, FiledUnderUser, Unnamed, Accepted, Started
    <3> QED
      BY <3>1, <3>3, <3>4, <3>5 DEF IndexOK, IndexesAgree, Steps, Started
  <2>2. CASE clients[IdOf[c]] # NoConn
    <3>1. /\ step' = [step EXCEPT ![c] = "turned away"]
          /\ UNCHANGED <<registered, clients, users, userOf, user>>
          /\ step[c] = "new"
      BY <2>2 DEF Add
    <3> QED
      BY <3>1 DEF IndexOK, IndexesAgree, FiledUnderUser, Unnamed, Accepted, Steps, Started
  <2> QED
    BY <2>1, <2>2
<1>3. LifeOK'
  <2>1. /\ step[c] = "new"
        /\ UNCHANGED <<life, slow, doomed, control, owing>>
        /\ \/ registered' = registered \cup {c} /\ step' = [step EXCEPT ![c] = "added"]
           \/ registered' = registered /\ step' = [step EXCEPT ![c] = "turned away"]
    BY DEF Add
  <2>2. step \in [Conns -> Steps] /\ life[c] = "open" /\ c \notin doomed
    BY <2>1 DEF IndexOK, LifeOK, Untouched, Started
  <2>3. Untouched'
    BY <2>1, <2>2 DEF LifeOK, Untouched, Started, Steps
  <2>4. Removed'
    <3>1. registered' \subseteq registered \cup {c} /\ life' = life /\ doomed' = doomed
      BY <2>1
    <3> SUFFICES ASSUME NEW d \in Conns, life[d] = "closed" \/ d \in doomed
                 PROVE  d \notin registered'
      BY <3>1 DEF Removed
    <3>2. d # c
      BY <2>2
    <3>3. d \notin registered
      BY DEF LifeOK, Removed
    <3> QED
      BY <3>1, <3>2, <3>3
  <2>5. Departed'
    <3>1. \A d \in Conns \ {c} : step'[d] = step[d]
      BY <2>1, <2>2
    <3>2. step'[c] \in Started => c \in registered'
      BY <2>1, <2>2 DEF Started
    <3>3. UNCHANGED <<life, doomed, control>> /\ registered \subseteq registered'
      BY <2>1
    <3> QED
      BY <3>1, <3>2, <3>3 DEF LifeOK, Departed, Victim, Leaving
  <2>6. Claimed'
    BY <2>1 DEF LifeOK, Claimed, Victim, Leaving
  <2> QED
    BY <2>1, <2>3, <2>4, <2>5, <2>6 DEF LifeOK
<1> QED
  BY <1>1, <1>2, <1>3

LEMMA AuthorizedKeeps == ASSUME IInv, NEW c \in Conns, NEW u \in Users, Authorized(c, u) PROVE IInv'
<1> USE DEF IInv
<1>1. /\ step[c] = "added"
      /\ user' = [user EXCEPT ![c] = u]
      /\ step' = [step EXCEPT ![c] = "named"]
      /\ UNCHANGED <<maps, life, slow, doomed, control, owing>>
  BY DEF Authorized
<1>2. MapsOK'
  BY <1>1, MapsUnchanged DEF maps, mapVars
<1>3. IndexOK'
  <2>1. user' \in [Conns -> UserIds] /\ step' \in [Conns -> Steps]
    BY <1>1 DEF IndexOK, Steps, Started, UserIds
  <2>2. IndexesAgree'
    BY <1>1 DEF maps, IndexOK, IndexesAgree
  <2>3. FiledUnderUser' /\ Unnamed' /\ Accepted'
    BY <1>1 DEF maps, IndexOK, FiledUnderUser, Unnamed, Accepted, Steps, Started
  <2> QED
    BY <1>1, <2>1, <2>2, <2>3 DEF maps, IndexOK
<1>4. LifeOK'
  <2>1. UNCHANGED <<registered, life, slow, doomed, control, owing>>
    BY <1>1 DEF maps
  <2>2. \A d \in Conns : step'[d] \in Started <=> step[d] \in Started
    BY <1>1 DEF IndexOK, Started
  <2>3. Untouched'
    BY <2>1, <2>2 DEF LifeOK, Untouched
  <2>4. Removed'
    BY <2>1 DEF LifeOK, Removed
  <2>5. Departed'
    BY <2>1, <2>2 DEF LifeOK, Departed, Victim, Leaving
  <2>6. Claimed'
    BY <2>1 DEF LifeOK, Claimed, Victim, Leaving
  <2> QED
    BY <2>1, <2>3, <2>4, <2>5, <2>6 DEF LifeOK
<1> QED
  BY <1>2, <1>3, <1>4

(* What may be refused leaves the closer's set a set of open connections. *)
LEMMA RefusalKeeps ==
  ASSUME NEW S \in SUBSET Conns, slow \subseteq Conns, MayRefuse(S)
  PROVE  slow' \subseteq Conns /\ slow' \subseteq slow \cup S
BY DEF MayRefuse

LEMMA GrantsAdmitted ==
  ASSUME NEW c \in Conns, NEW K \in SUBSET Keys, NEW G \in Grants(c, K)
  PROVE  G \in SUBSET Keys /\ \A k \in G : Admits(k)
BY DEF Grants

LEMMA InsertOwes ==
  ASSUME NEW c \in Conns, NEW K, Insert(c, K), owing \subseteq Callers
  PROVE  owing' \subseteq Callers
BY DEF Insert, Callers, Reader

LEMMA DetachOwes ==
  ASSUME NEW drops, NEW caller \in Callers, Detach(drops, caller), owing \subseteq Callers
  PROVE  owing' \subseteq Callers
BY DEF Detach

(* A change to slow alone, among connections that have started. *)
LEMMA SlowKeeps ==
  ASSUME LifeOK, slow' \subseteq Conns,
         \A c \in slow' : c \in slow \/ step[c] \in Started,
         \A c \in Conns : step'[c] \in Started <=> step[c] \in Started,
         owing' \subseteq Callers,
         UNCHANGED <<registered, life, doomed, control>>
  PROVE  LifeOK'
<1>1. Untouched'
  BY DEF LifeOK, Untouched
<1>2. Removed' /\ Departed'
  BY DEF LifeOK, Removed, Departed, Victim, Leaving
<1>3. Claimed'
  BY DEF LifeOK, Claimed, Victim, Leaving
<1> QED
  BY <1>1, <1>2, <1>3 DEF LifeOK

LEMMA AttachKeeps ==
  ASSUME IInv, NEW c \in Conns, NEW K \in SUBSET Keys, Attach(c, K) PROVE IInv'
<1> USE DEF IInv
<1>1. /\ step[c] = "named"
      /\ step' = [step EXCEPT ![c] = "connected"]
      /\ MayRefuse({c})
      /\ UNCHANGED <<registered, clients, user, life, doomed, control>>
  BY DEF Attach
<1>2. \A d \in Conns : step'[d] \in Started <=> step[d] \in Started
  BY <1>1 DEF IndexOK, Started
<1>3. CASE c \in registered
  <2>1. PICK G \in Grants(c, K) : Insert(c, G)
    BY <1>3 DEF Attach
  <2>2. File(c, user[c])
    BY <1>3 DEF Attach
  <2>3. MapsOK'
    BY <1>1, <1>3, <2>1, GrantsAdmitted, InsertKeeps
  <2>4. /\ users' \in [UserIds -> SUBSET Conns]
        /\ userOf' \in [Conns -> UserIds]
        /\ \A v \in UserIds : users'[v] = {d \in registered' : userOf'[d] = v}
    BY <1>1, <1>3, <2>2, FileKeeps DEF IndexOK
  <2>5. FiledUnderUser' /\ Unnamed' /\ Accepted'
    BY <1>1, <2>2 DEF File, IndexOK, FiledUnderUser, Unnamed, Accepted, Started
  <2>6. IndexOK'
    BY <1>1, <2>4, <2>5 DEF IndexOK, IndexesAgree, Steps, Started
  <2>7. owing' \subseteq Callers
    BY <2>1, InsertOwes DEF LifeOK
  <2>8. slow' \subseteq Conns /\ slow' \subseteq slow \cup {c}
    BY <1>1, RefusalKeeps DEF LifeOK
  <2>9. LifeOK'
    BY <1>1, <1>2, <2>7, <2>8, SlowKeeps DEF LifeOK, Started
  <2> QED
    BY <2>3, <2>6, <2>9
<1>4. CASE c \notin registered
  <2>1. UNCHANGED <<subs, channels, desired, owing, users, userOf>>
    BY <1>4 DEF Attach
  <2>2. MapsOK'
    BY <1>1, <2>1, MapsUnchanged DEF mapVars
  <2>3. IndexOK'
    <3>1. step' \in [Conns -> Steps] /\ \A d \in Conns \ {c} : step'[d] = step[d]
      BY <1>1 DEF IndexOK, Steps, Started
    <3>2. IndexesAgree'
      BY <1>1, <2>1 DEF IndexOK, IndexesAgree
    <3>3. FiledUnderUser' /\ Accepted'
      BY <1>1, <1>4, <2>1, <3>1 DEF IndexOK, FiledUnderUser, Accepted
    <3>4. Unnamed'
      BY <1>1 DEF IndexOK, Unnamed
    <3> QED
      BY <1>1, <2>1, <3>1, <3>2, <3>3, <3>4 DEF IndexOK
  <2>4. slow' \subseteq Conns /\ slow' \subseteq slow \cup {c}
    BY <1>1, RefusalKeeps DEF LifeOK
  <2>5. LifeOK'
    BY <1>1, <1>2, <2>1, <2>4, SlowKeeps DEF LifeOK, Started
  <2> QED
    BY <2>2, <2>3, <2>5
<1> QED
  BY <1>3, <1>4

LEMMA SubscribeKeeps ==
  ASSUME IInv, NEW c \in Conns, NEW k \in Keys, Subscribe(c, k) PROVE IInv'
<1> USE DEF IInv
<1>1. /\ Admits(k) /\ c \in registered /\ step[c] = "connected"
      /\ Insert(c, {k})
      /\ MayRefuse({c})
      /\ UNCHANGED <<registered, users, userOf, clients, user, step, life, doomed, control>>
  BY DEF Subscribe, ReaderReady
<1>2. MapsOK'
  BY <1>1, InsertKeeps
<1>3. IndexOK'
  BY <1>1, IndexUnchanged DEF indexVars
<1>4. LifeOK'
  BY <1>1, InsertOwes, RefusalKeeps, SlowKeeps DEF LifeOK, Started
<1> QED
  BY <1>2, <1>3, <1>4

LEMMA UnsubscribeKeeps ==
  ASSUME IInv, NEW c \in Conns, NEW k \in Keys, Unsubscribe(c, k) PROVE IInv'
<1> USE DEF IInv
<1>1. /\ k \in subs[c] /\ step[c] = "connected"
      /\ Detach(Only(c, {k}), Reader(c))
      /\ MayRefuse({c})
      /\ UNCHANGED <<registered, users, userOf, clients, user, step, life, doomed, control>>
  BY DEF Unsubscribe, ReaderReady
<1>2. MapsOK'
  <2> DEFINE drops == Only(c, {k})
  <2>1. drops \in [Conns -> SUBSET Keys] /\ \A d \in Conns : drops[d] \subseteq subs[d]
    BY <1>1 DEF Only
  <2>2. Detach(drops, Reader(c)) /\ registered' = registered
    BY <1>1
  <2> HIDE DEF drops
  <2> QED
    BY <2>1, <2>2, DetachKeeps
<1>3. IndexOK'
  BY <1>1, IndexUnchanged DEF indexVars
<1>4. Reader(c) \in Callers
  BY DEF Reader, Callers
<1>5. LifeOK'
  BY <1>1, <1>4, DetachOwes, RefusalKeeps, SlowKeeps DEF LifeOK, Started
<1> QED
  BY <1>2, <1>3, <1>5

LEMMA DeliverKeeps ==
  ASSUME IInv, NEW k \in Keys, NEW i, Deliver(k, i) PROVE IInv'
<1> USE DEF IInv
<1> DEFINE S == {c \in channels[k] : IdOf[c] # i}
<1>1. MayRefuse(S) /\ UNCHANGED <<maps, user, step, life, doomed, control, owing>>
  BY DEF Deliver
<1>2. S \subseteq registered
  BY DEF MapsOK, MirrorAgrees, Unheld
<1>3. MapsOK' /\ IndexOK'
  BY <1>1, MapsUnchanged, IndexUnchanged DEF maps, mapVars, indexVars
<1>4. S \subseteq Conns /\ \A c \in S : step[c] \in Started
  BY <1>2 DEF MapsOK, IndexOK, Accepted
<1> HIDE DEF S
<1>5. LifeOK'
  BY <1>1, <1>4, RefusalKeeps, SlowKeeps DEF maps, LifeOK
<1> QED
  BY <1>3, <1>5

-----------------------------------------------------------------------------
(* The end of a connection. *)

LEMMA EndKeeps == ASSUME IInv, NEW c \in Conns, End(c) PROVE IInv'
<1> USE DEF IInv
<1>1. /\ step[c] \notin {"new", "turned away"}
      /\ life[c] = "open"
      /\ life' = [life EXCEPT ![c] = "closing"]
      /\ UNCHANGED <<maps, user, step, slow, doomed, control, owing>>
  BY DEF End, BeginClose
<1>2. MapsOK' /\ IndexOK'
  BY <1>1, MapsUnchanged, IndexUnchanged DEF maps, mapVars, indexVars
<1>3. step[c] \in Started
  BY <1>1 DEF IndexOK, Steps, Started
<1>4. control.attached \subseteq Conns
  BY DEF LifeOK, ControlType
<1>5. Removed' /\ Departed' /\ Untouched'
  BY <1>1, <1>3 DEF maps, LifeOK, Untouched, Removed, Departed, Victim, Leaving
<1>6. Claimed'
  BY <1>1, <1>4 DEF LifeOK, Claimed, Victim, Leaving
<1>7. LifeOK'
  BY <1>1, <1>5, <1>6 DEF LifeOK
<1> QED
  BY <1>2, <1>7

LEMMA FinishCloseKeeps == ASSUME IInv, NEW c \in Conns, FinishClose(c) PROVE IInv'
<1> USE DEF IInv
<1>1. /\ life[c] = "closing"
      /\ life' = [life EXCEPT ![c] = "closed"]
      /\ Deregister(c, Ender(c))
      /\ UNCHANGED <<user, step, slow, doomed, control>>
  BY DEF FinishClose
<1>2. MapsOK' /\ IndexOK'
  BY <1>1, DeregisterMaps, DeregisterIndex
<1>3. Ender(c) \in Callers
  BY DEF Ender, Callers
<1>4. registered' = registered \ {c} /\ owing' \subseteq Callers
  BY <1>1, <1>3, DeregisterRemoves DEF LifeOK
<1>5. LifeOK'
  BY <1>1, <1>4 DEF LifeOK, Untouched, Removed, Departed, Claimed, Victim, Leaving
<1> QED
  BY <1>2, <1>5

LEMMA CloseSlowRemoveKeeps == ASSUME IInv, NEW c \in Conns, CloseSlowRemove(c) PROVE IInv'
<1> USE DEF IInv
<1>1. /\ c \in slow
      /\ slow' = slow \ {c}
      /\ doomed' = doomed \cup {c}
      /\ Deregister(c, Closer(c))
      /\ UNCHANGED <<user, step, life, control>>
  BY DEF CloseSlowRemove
<1>2. MapsOK' /\ IndexOK'
  BY <1>1, DeregisterMaps, DeregisterIndex
<1>3. Closer(c) \in Callers
  BY DEF Closer, Callers
<1>4. registered' = registered \ {c} /\ owing' \subseteq Callers
  BY <1>1, <1>3, DeregisterRemoves DEF LifeOK
<1>5. LifeOK'
  BY <1>1, <1>4 DEF LifeOK, Untouched, Removed, Departed, Claimed, Victim, Leaving
<1> QED
  BY <1>2, <1>5

LEMMA CloseSlowCloseKeeps == ASSUME IInv, NEW c \in Conns, CloseSlowClose(c) PROVE IInv'
<1> USE DEF IInv
<1>1. /\ c \in doomed
      /\ UNCHANGED <<maps, user, step, slow, control, owing>>
      /\ \/ life[c] = "open" /\ life' = [life EXCEPT ![c] = "closing"] /\ doomed' = doomed
         \/ life[c] = "closed" /\ doomed' = doomed \ {c} /\ life' = life
  BY DEF CloseSlowClose, BeginClose, LifeOK
<1>2. MapsOK' /\ IndexOK'
  BY <1>1, MapsUnchanged, IndexUnchanged DEF maps, mapVars, indexVars
<1>3. control.attached \subseteq Conns
  BY DEF LifeOK, ControlType
<1>4. Removed' /\ Departed' /\ Untouched'
  BY <1>1 DEF maps, LifeOK, Untouched, Removed, Departed, Victim, Leaving
<1>5. Claimed'
  BY <1>1, <1>3 DEF LifeOK, Claimed, Victim, Leaving
<1>6. LifeOK'
  BY <1>1, <1>4, <1>5 DEF maps, LifeOK
<1> QED
  BY <1>2, <1>6

-----------------------------------------------------------------------------
(* The control goroutine. *)

(* What a disconnect takes in hand: at the accept, the attached connections   *)
(* of a user are its targets, or have left already.                          *)
LEMMA AcceptKeeps ==
  ASSUME IInv, NEW state \in {"close", "unsubscribe"}, NEW targets \in SUBSET registered,
         NEW u \in UserIds, NEW pattern \in SUBSET Keys,
         \A c \in registered : u # NoUser /\ userOf[c] = u => c \in targets,
         Accept(state, targets, u, pattern)
  PROVE  IInv'
<1> USE DEF IInv
<1> DEFINE named == {c \in Conns : u # NoUser /\ user[c] = u}
<1> targets \subseteq Conns
  BY DEF MapsOK
<1>1. /\ control.state = "idle"
      /\ control' = [state |-> state, user |-> u, named |-> named,
                     attached |-> {c \in named : step[c] = "connected"},
                     targets |-> targets, victim |-> NoConn, pattern |-> pattern]
      /\ UNCHANGED <<maps, user, step, life, slow, doomed, owing>>
  BY DEF Accept
<1>2. MapsOK' /\ IndexOK'
  BY <1>1, MapsUnchanged, IndexUnchanged DEF maps, mapVars, indexVars
<1>3. control' \in ControlType
  BY <1>1 DEF ControlType
<1>4. Untouched' /\ Removed'
  BY <1>1, RegistryAssumption DEF maps, LifeOK, IndexOK, Accepted, Untouched, Removed
<1>5. \A c \in Conns : step[c] \in Started /\ c \notin registered => Leaving(c)
  BY <1>1 DEF LifeOK, Departed, Victim
<1>6. Departed'
  BY <1>1, <1>5 DEF maps, Departed, Leaving
<1>7. Claimed'
  <2> SUFFICES ASSUME NEW c \in control'.attached PROVE c \in targets \/ Leaving(c)
    BY <1>1 DEF Claimed, Leaving
  <2>1. c \in Conns /\ u # NoUser /\ user[c] = u /\ step[c] = "connected"
    BY <1>1
  <2>2. CASE c \in registered
    BY <2>1, <2>2 DEF IndexOK, FiledUnderUser
  <2>3. CASE c \notin registered
    BY <2>1, <2>3, <1>5 DEF Started
  <2> QED
    BY <2>2, <2>3
<1> HIDE DEF named
<1>8. LifeOK'
  BY <1>1, <1>3, <1>4, <1>6, <1>7 DEF LifeOK
<1> QED
  BY <1>2, <1>8

LEMMA ControlUserKeeps ==
  ASSUME IInv, NEW u \in Users, NEW state \in {"close", "unsubscribe"},
         NEW pattern \in SUBSET Keys, ControlUser(u, state, pattern)
  PROVE  IInv'
<1>1. users[u] \in SUBSET registered /\ \A c \in registered : userOf[c] = u => c \in users[u]
  BY DEF IInv, IndexOK, IndexesAgree
<1> QED
  BY <1>1, AcceptKeeps DEF ControlUser

LEMMA ControlClientKeeps ==
  ASSUME IInv, NEW i \in Ids, NEW state \in {"close", "unsubscribe"},
         NEW pattern \in SUBSET Keys, ControlClient(i, state, pattern)
  PROVE  IInv'
<1>1. TargetsOfClient(i) \in SUBSET registered
  BY DEF TargetsOfClient, IInv, IndexOK, IndexesAgree
<1> QED
  BY <1>1, AcceptKeeps DEF ControlClient

LEMMA RevokeRemoveKeeps == ASSUME IInv, NEW c \in Conns, RevokeRemove(c) PROVE IInv'
<1> USE DEF IInv
<1>1. /\ control.state = "close"
      /\ control.victim = NoConn
      /\ c \in control.targets
      /\ control' = [control EXCEPT !.targets = @ \ {c}, !.victim = c]
      /\ Deregister(c, Controller)
      /\ UNCHANGED <<user, step, life, slow, doomed>>
  BY DEF RevokeRemove
<1>2. MapsOK' /\ IndexOK'
  BY <1>1, DeregisterMaps, DeregisterIndex
<1>3. Controller \in Callers
  BY DEF Callers
<1>4. registered' = registered \ {c} /\ owing' \subseteq Callers
  BY <1>1, <1>3, DeregisterRemoves DEF LifeOK
<1>5. control \in ControlType
  BY DEF LifeOK
<1>6. /\ control' \in ControlType
      /\ control'.state = "close" /\ control'.victim = c
      /\ control'.targets = control.targets \ {c}
      /\ control'.attached = control.attached
  BY <1>1, <1>5 DEF ControlType
<1>7. Untouched' /\ Removed'
  BY <1>1, <1>4, <1>6 DEF LifeOK, Untouched, Removed
<1>8. Departed'
  BY <1>1, <1>4, <1>6, RegistryAssumption DEF LifeOK, Departed, Victim, Leaving
<1>9. Claimed'
  <2>1. control.attached \subseteq Conns
    BY <1>5 DEF ControlType
  <2> QED
    BY <2>1, <1>1, <1>6, RegistryAssumption DEF LifeOK, Claimed, Victim, Leaving
<1>10. LifeOK'
  BY <1>1, <1>4, <1>6, <1>7, <1>8, <1>9 DEF LifeOK
<1> QED
  BY <1>2, <1>10

LEMMA RevokeCloseKeeps == ASSUME IInv, RevokeClose PROVE IInv'
<1> USE DEF IInv
<1> DEFINE c == control.victim
<1>1. /\ control.state = "close"
      /\ control.victim # NoConn
      /\ UNCHANGED <<maps, user, step, slow, doomed, owing>>
  BY DEF RevokeClose
<1>2. control \in ControlType /\ c \in Conns /\ control.attached \subseteq Conns
  BY <1>1 DEF LifeOK, ControlType
<1>3. MapsOK' /\ IndexOK'
  BY <1>1, MapsUnchanged, IndexUnchanged DEF maps, mapVars, indexVars
<1>4. CASE life[c] = "open"
  <2>1. life' = [life EXCEPT ![c] = "closing"] /\ control' = control
    BY <1>4 DEF RevokeClose, BeginClose
  <2>2. step[c] \in Started
    BY <1>2 DEF LifeOK, Untouched
  <2>3. \A d \in Conns : (life'[d] = "open" => life[d] = "open") /\ (d \in doomed' <=> d \in doomed)
    BY <1>1, <2>1 DEF LifeOK
  <2>4. Untouched' /\ Removed' /\ Departed'
    BY <1>1, <1>2, <2>1, <2>2 DEF maps, LifeOK, Untouched, Removed, Departed, Victim, Leaving
  <2>5. life' \in [Conns -> {"open", "closing", "closed"}]
    BY <2>1 DEF LifeOK
  <2>6. Claimed'
    BY <1>2, <2>1, <2>3 DEF LifeOK, Claimed, Victim, Leaving
  <2> QED
    BY <1>1, <1>3, <2>1, <2>4, <2>5, <2>6 DEF maps, LifeOK
<1>5. CASE life[c] = "closed"
  <2>1. control' = [control EXCEPT !.victim = NoConn] /\ life' = life
    BY <1>5 DEF RevokeClose
  <2>2. /\ control' \in ControlType
        /\ control'.state = "close" /\ control'.victim = NoConn
        /\ control'.targets = control.targets /\ control'.attached = control.attached
    BY <1>1, <1>2, <2>1 DEF ControlType
  <2>3. Untouched' /\ Removed' /\ Departed'
    BY <1>1, <1>5, <2>1, <2>2, RegistryAssumption
    DEF maps, LifeOK, Untouched, Removed, Departed, Victim, Leaving
  <2>4. Claimed'
    BY <1>1, <1>2, <1>5, <2>1, <2>2 DEF LifeOK, Claimed, Victim, Leaving
  <2> QED
    BY <1>1, <1>3, <2>1, <2>2, <2>3, <2>4 DEF maps, LifeOK
<1>6. life[c] # "closing"
  BY DEF RevokeClose
<1> QED
  BY <1>2, <1>4, <1>5, <1>6 DEF LifeOK

LEMMA RevokeDoneKeeps == ASSUME IInv, RevokeDone PROVE IInv'
<1> USE DEF IInv
<1>1. /\ control.victim = NoConn
      /\ control' = Idle
      /\ UNCHANGED <<maps, user, step, life, slow, doomed, owing>>
  BY DEF RevokeDone
<1>2. MapsOK' /\ IndexOK'
  BY <1>1, MapsUnchanged, IndexUnchanged DEF maps, mapVars, indexVars
<1>3. /\ control' \in ControlType /\ control'.state = "idle"
      /\ control'.targets = {} /\ control'.victim = NoConn
  BY <1>1 DEF Idle, ControlType
<1>4. LifeOK'
  BY <1>1, <1>3, RegistryAssumption
  DEF maps, LifeOK, Untouched, Removed, Departed, Claimed, Victim, Leaving
<1> QED
  BY <1>2, <1>4

LEMMA ControlUnsubscribeKeeps == ASSUME IInv, ControlUnsubscribe PROVE IInv'
<1> USE DEF IInv
<1> DEFINE drops == [c \in Conns |-> IF c \in control.targets
                                     THEN subs[c] \cap control.pattern ELSE {}]
           S == {c \in Conns : drops[c] # {}}
<1>1. /\ Detach(drops, Controller)
      /\ MayRefuse(S)
      /\ control' = Idle
      /\ UNCHANGED <<registered, users, userOf, clients, user, step, life, doomed>>
  BY DEF ControlUnsubscribe
<1>2. control.state # "close"
  BY DEF ControlUnsubscribe
<1>3. drops \in [Conns -> SUBSET Keys] /\ \A c \in Conns : drops[c] \subseteq subs[c]
  BY DEF MapsOK
<1>4. S \subseteq Conns /\ \A c \in S : step[c] \in Started
  BY DEF LifeOK, Untouched
<1> HIDE DEF drops, S
<1>5. MapsOK'
  BY <1>1, <1>3, DetachKeeps
<1>6. IndexOK'
  BY <1>1, IndexUnchanged DEF indexVars
<1>7. Controller \in Callers
  BY DEF Callers
<1>8. owing' \subseteq Callers
  BY <1>1, <1>7, DetachOwes DEF LifeOK
<1>9. slow' \subseteq Conns /\ slow' \subseteq slow \cup S
  BY <1>1, <1>4, RefusalKeeps DEF LifeOK
<1>10. /\ control' \in ControlType /\ control'.state = "idle"
       /\ control'.targets = {} /\ control'.victim = NoConn
  BY <1>1 DEF Idle, ControlType
<1>11. Untouched' /\ Removed' /\ Departed' /\ Claimed'
  BY <1>1, <1>2, <1>4, <1>9, <1>10, RegistryAssumption
  DEF LifeOK, Untouched, Removed, Departed, Claimed, Victim, Leaving
<1> QED
  BY <1>1, <1>5, <1>6, <1>8, <1>9, <1>10, <1>11 DEF LifeOK

LEMMA MarkedKeeps == ASSUME IInv, NEW a \in Callers, MarkedOnly(a) PROVE IInv'
<1> USE DEF IInv
<1>1. UNCHANGED <<maps, others>> /\ owing' \subseteq owing
  BY DEF MarkedOnly, Marked
<1>2. MapsOK' /\ IndexOK'
  BY <1>1, MapsUnchanged, IndexUnchanged DEF maps, others, mapVars, indexVars
<1>3. LifeOK'
  BY <1>1 DEF maps, others, LifeOK, Untouched, Removed, Departed, Claimed, Victim, Leaving
<1> QED
  BY <1>2, <1>3

-----------------------------------------------------------------------------
(* The steps put together. *)
LEMMA NextKeeps == IInv /\ [Next]_regVars => IInv'
<1> SUFFICES ASSUME IInv, [Next]_regVars PROVE IInv'
  OBVIOUS
<1>1. CASE UNCHANGED regVars
  BY <1>1, MapsUnchanged, IndexUnchanged, LifeUnchanged
  DEF IInv, regVars, mapVars, indexVars, lifeVars
<1>2. ASSUME NEW c \in Conns, ConnStep(c) PROVE IInv'
  BY <1>2, AddKeeps, AuthorizedKeeps, AttachKeeps, SubscribeKeeps, UnsubscribeKeeps,
     EndKeeps, FinishCloseKeeps, CloseSlowRemoveKeeps, CloseSlowCloseKeeps
  DEF ConnStep
<1>3. CASE ControlStep
  <2>1. \A K \in Patterns : K \in SUBSET Keys
    BY RegistryAssumption
  <2> QED
    BY <1>3, <2>1, ControlUserKeeps, ControlClientKeeps, RevokeRemoveKeeps,
       RevokeCloseKeeps, RevokeDoneKeeps, ControlUnsubscribeKeeps
    DEF ControlStep
<1>4. CASE Deliveries
  BY <1>4, DeliverKeeps DEF Deliveries
<1>5. ASSUME NEW a \in Callers, MarkedOnly(a) PROVE IInv'
  BY <1>5, MarkedKeeps
<1> QED
  BY <1>1, <1>2, <1>3, <1>4, <1>5 DEF Next, RegistryNext

(* Every reachable state of the registry, whatever the interleaving of        *)
(* readers, closers, the control goroutine and the fan-out, satisfies IInv.   *)
THEOREM Invariance == Spec => []IInv
BY InitInv, NextKeeps, PTL DEF Spec

-----------------------------------------------------------------------------
(* What the invariant says of the code.                                     *)

(* The registry's state keeps its types under every interleaving of the       *)
(* hub's operations.                                                         *)
THEOREM TypeCorrect == Spec => []TypeOK
<1>1. IInv => TypeOK
  BY DEF IInv, MapsOK, IndexOK, LifeOK, ControlType, Steps, Started, TypeOK
<1> QED
  BY <1>1, Invariance, PTL

(* M4: h.channels and h.subs are always two views of one relation: no close,  *)
(* revocation or command leaves a Sink in one and not in the other.           *)
THEOREM MapsMirrorEachOther == Spec => []MirrorAgrees
<1>1. IInv => MirrorAgrees
  BY DEF IInv, MapsOK
<1> QED
  BY <1>1, Invariance, PTL

(* FR-10: h.desired never loses a key somebody holds, never keeps one nobody  *)
(* holds, and never drops the control key.                                   *)
THEOREM DesiredFollowsHolders == Spec => []DesiredIsHeld
<1>1. IInv => DesiredIsHeld
  BY DEF IInv, MapsOK
<1> QED
  BY <1>1, Invariance, PTL

(* FR-18: h.users and h.clients hold exactly the registered connections, so   *)
(* targets finds every one of them and nothing else.                         *)
THEOREM IndexesFollowRegistry == Spec => []IndexesAgree
<1>1. IInv => IndexesAgree
  BY DEF IInv, IndexOK
<1> QED
  BY <1>1, Invariance, PTL

(* FR-18: an attached connection is filed under the user it answers to, one   *)
(* that has not attached under the empty id.                                 *)
THEOREM FiledCorrectly == Spec => []FiledUnderUser
<1>1. IInv => FiledUnderUser
  BY DEF IInv, IndexOK
<1> QED
  BY <1>1, Invariance, PTL

(* M4: a connection closed, or removed by the slow-consumer closer, is in no  *)
(* map of the registry again, though its reader may still call Attach.        *)
THEOREM ClosedStaysGone == Spec => []NoResurrection
<1>1. IInv => NoResurrection
  <2> SUFFICES ASSUME IInv, NEW c \in Conns, life[c] = "closed" \/ c \in doomed
               PROVE  /\ c \notin registered
                      /\ \A k \in Keys : c \notin channels[k]
                      /\ \A u \in UserIds : c \notin users[u]
    BY DEF NoResurrection
  <2>1. c \notin registered
    BY DEF IInv, LifeOK, Removed
  <2>2. \A k \in Keys : c \notin channels[k]
    BY <2>1 DEF IInv, MapsOK, Unheld, MirrorAgrees
  <2>3. \A u \in UserIds : c \notin users[u]
    BY <2>1 DEF IInv, IndexOK, IndexesAgree
  <2> QED
    BY <2>1, <2>2, <2>3
<1> QED
  BY <1>1, Invariance, PTL

(* FR-18: closeAll over the targets of a disconnect leaves no connection      *)
(* that had attached as the user open, unless the closer already has it:      *)
(* whatever else was deregistering it has also begun to close it.             *)
THEOREM DisconnectReachesAttached == Spec => RevocationIsComplete
<1>1. IInv /\ [Next]_regVars =>
        [RevokeDone => \A c \in control.attached : life[c] # "open" \/ c \in doomed]_regVars
  <2> SUFFICES ASSUME IInv, RevokeDone, NEW c \in control.attached
               PROVE  life[c] # "open" \/ c \in doomed
    OBVIOUS
  <2>1. c \in Conns
    BY DEF IInv, LifeOK, ControlType
  <2>2. control.state = "close" /\ control.targets = {} /\ control.victim = NoConn
    BY DEF RevokeDone
  <2> QED
    BY <2>1, <2>2, RegistryAssumption DEF IInv, LifeOK, Claimed, Victim, Leaving
<1> QED
  BY <1>1, Invariance, PTL DEF Spec, RevocationIsComplete

-----------------------------------------------------------------------------
(* The registry implements Membership.                                      *)

HoldPairs == {p \in Conns \X Keys : p[2] \in subs[p[1]]}
Gone == {c \in Conns \ registered : step[c] \in {"added", "named", "connected"}}

MembersUnchanged == UNCHANGED <<registered, Gone, HoldPairs, desired>>

(* The desired set is the interest Membership computes from who holds what. *)
LEMMA InterestFollows == MapsOK => desired = M!InterestIn(HoldPairs)
<1> SUFFICES ASSUME MapsOK PROVE desired = M!InterestIn(HoldPairs)
  OBVIOUS
<1>1. \A k \in Keys : channels[k] # {} <=> \E c \in Conns : <<c, k>> \in HoldPairs
  BY DEF MapsOK, MirrorAgrees, HoldPairs
<1> QED
  BY <1>1 DEF M!InterestIn, MapsOK, DesiredIsHeld

LEMMA InterestFollowsNext == MapsOK' => desired' = M!InterestIn(HoldPairs')
<1> SUFFICES ASSUME MapsOK' PROVE desired' = M!InterestIn(HoldPairs')
  OBVIOUS
<1>1. \A k \in Keys : channels'[k] # {} <=> \E c \in Conns : <<c, k>> \in HoldPairs'
  BY DEF MapsOK, MirrorAgrees, HoldPairs
<1> QED
  BY <1>1 DEF M!InterestIn, MapsOK, DesiredIsHeld

(* Insert is a Take. *)
LEMMA InsertTakes ==
  ASSUME IInv, MapsOK', NEW c \in registered, NEW K \in SUBSET Keys, \A k \in K : Admits(k),
         Insert(c, K), registered' = registered, Gone' = Gone
  PROVE  M!Next
<1>1. c \in Conns /\ K \in SUBSET (Keys \ Reserved)
  BY DEF IInv, MapsOK, Admits
<1>2. HoldPairs' = HoldPairs \cup M!Pairs(c, K)
  <2>1. subs \in [Conns -> SUBSET Keys] /\ subs' = [subs EXCEPT ![c] = @ \cup K]
    BY DEF IInv, MapsOK, Insert
  <2> QED
    BY <1>1, <2>1 DEF HoldPairs, M!Pairs
<1>3. M!Take(c, K)
  BY <1>2, InterestFollowsNext DEF M!Take, HoldPairs, Gone
<1> QED
  BY <1>1, <1>3 DEF M!Next

(* Detach that deregisters nobody is a GiveUp. *)
LEMMA DetachGivesUp ==
  ASSUME IInv, MapsOK', NEW drops \in [Conns -> SUBSET Keys], NEW caller,
         Detach(drops, caller), registered' = registered, Gone' = Gone
  PROVE  M!Next
<1> DEFINE P == {p \in Conns \X Keys : p[2] \in drops[p[1]]}
<1>1. HoldPairs' = HoldPairs \ P
  BY DEF Detach, HoldPairs
<1>2. M!GiveUp(P)
  BY <1>1, InterestFollowsNext DEF M!GiveUp, HoldPairs, Gone
<1>3. P \in SUBSET (Conns \X Keys)
  OBVIOUS
<1> QED
  BY <1>2, <1>3 DEF M!Next

(* Remove is a Leave, or nothing for a connection that has left already. *)
LEMMA DeregisterLeaves ==
  ASSUME IInv, MapsOK', NEW c \in Conns, NEW caller, Deregister(c, caller), step' = step
  PROVE  M!Next \/ MembersUnchanged
<1>1. CASE c \notin registered
  BY <1>1 DEF Deregister, maps, MembersUnchanged, HoldPairs, Gone
<1>2. CASE c \in registered
  <2>1. registered' = registered \ {c} /\ Detach(Only(c, subs[c]), caller)
    BY <1>2 DEF Deregister
  <2>2. Gone' = Gone \cup {c}
    BY <1>2, <2>1 DEF IInv, IndexOK, Accepted, Started, Gone
  <2>3. HoldPairs' = HoldPairs \ M!Pairs(c, Keys)
    <3>1. subs' = [d \in Conns |-> IF d = c THEN {} ELSE subs[d]]
      BY <2>1 DEF Detach, Only, IInv, MapsOK
    <3> QED
      BY <3>1 DEF HoldPairs, M!Pairs
  <2>4. M!Leave(c)
    BY <1>2, <2>1, <2>2, <2>3, InterestFollowsNext DEF M!Leave, HoldPairs, Gone
  <2> QED
    BY <2>4 DEF M!Next
<1> QED
  BY <1>1, <1>2

LEMMA AddJoins ==
  ASSUME IInv, NEW c \in Conns, Add(c) PROVE M!Next \/ MembersUnchanged
<1>1. step[c] = "new" /\ c \notin registered /\ c \notin Gone
  BY DEF Add, IInv, IndexOK, Accepted, Started, Gone
<1>2. UNCHANGED <<subs, desired>> /\ HoldPairs' = HoldPairs
  BY DEF Add, HoldPairs
<1>3. CASE clients[IdOf[c]] = NoConn
  <2>1. registered' = registered \cup {c} /\ step' = [step EXCEPT ![c] = "added"]
    BY <1>3 DEF Add
  <2>2. Gone' = Gone
    BY <1>1, <2>1 DEF Gone, IInv, IndexOK
  <2>3. M!Join(c)
    BY <1>1, <1>2, <2>1, <2>2 DEF M!Join, HoldPairs, Gone
  <2> QED
    BY <2>3 DEF M!Next
<1>4. CASE clients[IdOf[c]] # NoConn
  <2>1. registered' = registered /\ step' = [step EXCEPT ![c] = "turned away"]
    BY <1>4 DEF Add
  <2>2. Gone' = Gone
    BY <1>1, <2>1 DEF Gone, IInv, IndexOK
  <2> QED
    BY <1>2, <2>1, <2>2 DEF MembersUnchanged
<1> QED
  BY <1>3, <1>4

LEMMA AttachTakes ==
  ASSUME IInv, MapsOK', NEW c \in Conns, NEW K \in SUBSET Keys, Attach(c, K)
  PROVE  M!Next \/ MembersUnchanged
<1>1. /\ registered' = registered
      /\ step[c] = "named" /\ step' = [step EXCEPT ![c] = "connected"]
  BY DEF Attach
<1>2. Gone' = Gone
  BY <1>1 DEF Gone, IInv, IndexOK
<1>3. CASE c \in registered
  <2>1. PICK G \in Grants(c, K) : Insert(c, G)
    BY <1>3 DEF Attach
  <2> QED
    BY <1>1, <1>2, <1>3, <2>1, GrantsAdmitted, InsertTakes
<1>4. CASE c \notin registered
  BY <1>1, <1>2, <1>4 DEF Attach, MembersUnchanged, HoldPairs
<1> QED
  BY <1>3, <1>4

(* Every step of the registry is one of Membership's, or changes nothing it   *)
(* speaks of.                                                                *)
LEMMA StepImplements ==
  ASSUME IInv, MapsOK', [Next]_regVars PROVE M!Next \/ MembersUnchanged
<1>1. CASE UNCHANGED regVars
  BY <1>1 DEF regVars, MembersUnchanged, HoldPairs, Gone
<1>2. ASSUME NEW c \in Conns, ConnStep(c) PROVE M!Next \/ MembersUnchanged
  <2>1. CASE Add(c)
    BY <2>1, AddJoins
  <2>2. ASSUME NEW u \in Users, Authorized(c, u) PROVE MembersUnchanged
    BY <2>2 DEF Authorized, maps, MembersUnchanged, HoldPairs, Gone, IInv, IndexOK
  <2>3. ASSUME NEW K \in SUBSET Keys, Attach(c, K) PROVE M!Next \/ MembersUnchanged
    BY <2>3, AttachTakes
  <2>4. ASSUME NEW k \in Keys, Subscribe(c, k) PROVE M!Next
    BY <2>4, InsertTakes DEF Subscribe, Gone
  <2>5. ASSUME NEW k \in Keys, Unsubscribe(c, k) PROVE M!Next
    <3>1. Only(c, {k}) \in [Conns -> SUBSET Keys]
      BY DEF Only
    <3> QED
      BY <2>5, <3>1, DetachGivesUp DEF Unsubscribe, Gone
  <2>6. CASE End(c)
    BY <2>6 DEF End, maps, MembersUnchanged, HoldPairs, Gone
  <2>7. CASE FinishClose(c)
    BY <2>7, DeregisterLeaves DEF FinishClose
  <2>8. CASE CloseSlowRemove(c)
    BY <2>8, DeregisterLeaves DEF CloseSlowRemove
  <2>9. CASE CloseSlowClose(c)
    BY <2>9 DEF CloseSlowClose, maps, MembersUnchanged, HoldPairs, Gone
  <2> QED
    BY <1>2, <2>1, <2>2, <2>3, <2>4, <2>5, <2>6, <2>7, <2>8, <2>9 DEF ConnStep
<1>3. ASSUME NEW state, NEW targets, NEW u, NEW K, Accept(state, targets, u, K)
      PROVE  MembersUnchanged
  BY <1>3 DEF Accept, maps, MembersUnchanged, HoldPairs, Gone
<1>4. ASSUME NEW c \in Conns, RevokeRemove(c) PROVE M!Next \/ MembersUnchanged
  BY <1>4, DeregisterLeaves DEF RevokeRemove
<1>5. CASE RevokeClose \/ RevokeDone
  BY <1>5 DEF RevokeClose, RevokeDone, maps, MembersUnchanged, HoldPairs, Gone
<1>6. CASE ControlUnsubscribe
  <2> DEFINE drops == [c \in Conns |-> IF c \in control.targets
                                       THEN subs[c] \cap control.pattern ELSE {}]
  <2>1. drops \in [Conns -> SUBSET Keys]
    BY DEF IInv, MapsOK
  <2>2. Detach(drops, Controller) /\ registered' = registered /\ Gone' = Gone
    BY <1>6 DEF ControlUnsubscribe, Gone
  <2> HIDE DEF drops
  <2> QED
    BY <2>1, <2>2, DetachGivesUp
<1>7. CASE ControlStep
  BY <1>3, <1>4, <1>5, <1>6, <1>7 DEF ControlStep, ControlUser, ControlClient
<1>8. CASE Deliveries
  BY <1>8 DEF Deliveries, Deliver, maps, MembersUnchanged, HoldPairs, Gone
<1>9. ASSUME NEW a \in Callers, MarkedOnly(a) PROVE MembersUnchanged
  BY <1>9 DEF MarkedOnly, maps, others, MembersUnchanged, HoldPairs, Gone
<1> QED
  BY <1>1, <1>2, <1>7, <1>8, <1>9 DEF Next, RegistryNext

(* The hub's five maps and its desired set implement one relation and the     *)
(* interest computed from it: connections join once, leave once with all they *)
(* held, and interest is never out of step with the holders.                 *)
THEOREM RefinesMembership == Spec => ImplementsMembership
<1>1. Init => M!Init
  BY RegistryAssumption DEF Init, M!Init
<1>2. IInv /\ IInv' /\ [Next]_regVars => [M!Next]_(M!memVars)
  BY StepImplements DEF IInv, MembersUnchanged, HoldPairs, Gone, M!memVars
<1> QED
  BY <1>1, <1>2, Invariance, PTL DEF Spec, ImplementsMembership, M!Spec

-----------------------------------------------------------------------------
(* THE RECONCILER, driven by the callers of a registry.                       *)

BackoffIsDirty == phase = "backoff" => dirty

ControlKept ==
  /\ ControlKey \in desired
  /\ phase = "sync" => ControlKey \in snap
  /\ R!ControlRecorded

ReconcilerInv ==
  /\ R!TypeOK
  /\ R!IntentKept
  /\ BackoffIsDirty
  /\ R!NoLostWakeup
  /\ R!UpstreamIsRecorded
  /\ ControlKept

-----------------------------------------------------------------------------
LEMMA ReconcilerInit == R!Init => ReconcilerInv
BY RegistryAssumption DEF R!Init, ReconcilerInv, R!TypeOK, R!IntentKept, R!Quiet, BackoffIsDirty, R!NoLostWakeup,
    R!UpstreamIsRecorded, ControlKept, R!ControlRecorded

(* What a bus half-way between two sets has applied is a set of keys. *)
LEMMA PartialType ==
  ASSUME NEW target \in SUBSET Keys, current \subseteq Keys PROVE R!Partial(target) \subseteq SUBSET Keys
BY DEF R!Partial

(* The callers: a change of the set is owed until the flag is up, and the     *)
(* flag is up before the token is sent.                                      *)
LEMMA CallerKeeps == ASSUME ReconcilerInv, R!Caller PROVE ReconcilerInv'
<1> USE DEF ReconcilerInv
<1>1. ASSUME NEW a \in Callers, NEW D \in SUBSET Keys, R!Move(a, D) PROVE ReconcilerInv'
  <2>1. R!TypeOK' /\ owing' # {}
    BY <1>1 DEF R!Move, R!own, R!TypeOK
  <2>2. R!IntentKept'
    BY <2>1 DEF R!IntentKept, R!Quiet
  <2>3. BackoffIsDirty' /\ R!NoLostWakeup' /\ R!UpstreamIsRecorded' /\ ControlKept'
    BY <1>1 DEF R!Move, R!own, BackoffIsDirty, R!NoLostWakeup, R!UpstreamIsRecorded,
                ControlKept, R!ControlRecorded
  <2> QED
    BY <2>1, <2>2, <2>3
<1>2. ASSUME NEW a \in Callers, R!StoreDirty(a) PROVE ReconcilerInv'
  <2>1. R!TypeOK' /\ dirty' /\ waking' # {}
    BY <1>2 DEF R!StoreDirty, R!busSide, R!TypeOK
  <2>2. R!IntentKept' /\ BackoffIsDirty' /\ R!NoLostWakeup'
    BY <2>1 DEF R!IntentKept, R!Quiet, BackoffIsDirty, R!NoLostWakeup
  <2>3. R!UpstreamIsRecorded' /\ ControlKept'
    BY <1>2 DEF R!StoreDirty, R!busSide, R!UpstreamIsRecorded, ControlKept, R!ControlRecorded
  <2> QED
    BY <2>1, <2>2, <2>3
<1>3. ASSUME NEW a \in Callers, R!SendWake(a) PROVE ReconcilerInv'
  <2>1. R!TypeOK' /\ wake'
    BY <1>3 DEF R!SendWake, R!busSide, R!TypeOK
  <2>2. R!IntentKept' /\ BackoffIsDirty' /\ R!NoLostWakeup'
    BY <1>3, <2>1 DEF R!SendWake, R!busSide, R!IntentKept, R!Quiet, BackoffIsDirty, R!NoLostWakeup
  <2>3. R!UpstreamIsRecorded' /\ ControlKept'
    BY <1>3 DEF R!SendWake, R!busSide, R!UpstreamIsRecorded, ControlKept, R!ControlRecorded
  <2> QED
    BY <2>1, <2>2, <2>3
<1> QED
  BY <1>1, <1>2, <1>3 DEF R!Caller

(* The reconcile goroutine: the flag goes down before the snapshot, and up    *)
(* again when the Sync of that snapshot fails.                               *)
LEMMA ReconcileKeeps == ASSUME ReconcilerInv, R!Reconcile PROVE ReconcilerInv'
<1> USE DEF ReconcilerInv
<1>1. CASE R!Woken
  BY <1>1 DEF R!Woken, R!busSide, R!TypeOK, R!IntentKept, R!Quiet, BackoffIsDirty, R!NoLostWakeup,
              R!UpstreamIsRecorded, ControlKept, R!ControlRecorded
<1>2. CASE R!Swap
  BY <1>2 DEF R!Swap, R!busSide, R!TypeOK, R!IntentKept, R!Quiet, BackoffIsDirty, R!NoLostWakeup,
              R!UpstreamIsRecorded, ControlKept, R!ControlRecorded
<1>3. CASE R!Snapshot
  BY <1>3 DEF R!Snapshot, R!busSide, R!TypeOK, R!IntentKept, R!Quiet, BackoffIsDirty, R!NoLostWakeup,
              R!UpstreamIsRecorded, ControlKept, R!ControlRecorded
<1>4. CASE R!SyncSucceeds
  <2>1. /\ phase = "sync" /\ phase' = "swap"
        /\ recorded' = snap /\ current' = snap
        /\ UNCHANGED <<desired, owing, waking, dirty, wake, snap, link, resync>>
        /\ \/ link = "up" /\ upstream' = snap
           \/ link = "dying" /\ upstream' = upstream
    BY <1>4 DEF R!SyncSucceeds
  <2>2. R!TypeOK'
    BY <2>1 DEF R!TypeOK
  <2>3. R!IntentKept' /\ BackoffIsDirty' /\ R!NoLostWakeup'
    BY <2>1 DEF R!IntentKept, R!Quiet, BackoffIsDirty, R!NoLostWakeup
  <2>4. R!UpstreamIsRecorded' /\ ControlKept'
    BY <2>1 DEF R!UpstreamIsRecorded, ControlKept, R!ControlRecorded
  <2> QED
    BY <2>2, <2>3, <2>4
<1>5. CASE R!SyncFails
  <2>1. /\ phase = "sync" /\ phase' = "backoff" /\ dirty'
        /\ recorded' = snap
        /\ UNCHANGED <<desired, owing, waking, wake, snap, resync>>
        /\ link' # "up"
    BY <1>5 DEF R!SyncFails
  <2>2. R!TypeOK'
    BY <1>5, <2>1, PartialType DEF R!SyncFails, R!TypeOK
  <2>3. R!IntentKept' /\ BackoffIsDirty' /\ R!NoLostWakeup'
    BY <2>1 DEF R!IntentKept, R!Quiet, BackoffIsDirty, R!NoLostWakeup
  <2>4. R!UpstreamIsRecorded' /\ ControlKept'
    BY <2>1 DEF R!UpstreamIsRecorded, ControlKept, R!ControlRecorded
  <2> QED
    BY <2>2, <2>3, <2>4
<1>6. CASE R!BackoffEnds
  BY <1>6 DEF R!BackoffEnds, R!busSide, R!TypeOK, R!IntentKept, R!Quiet, BackoffIsDirty, R!NoLostWakeup,
              R!UpstreamIsRecorded, ControlKept, R!ControlRecorded
<1> QED
  BY <1>1, <1>2, <1>3, <1>4, <1>5, <1>6 DEF R!Reconcile

(* The bus: a link in use is resynced from what Sync last recorded. *)
LEMMA SuperviseKeeps == ASSUME ReconcilerInv, R!Supervise PROVE ReconcilerInv'
<1> USE DEF ReconcilerInv
<1>1. UNCHANGED <<desired, R!hubSide, recorded>>
  BY DEF R!Supervise, R!Lose, R!Release, R!Adopt, R!Resync
<1>2. R!TypeOK'
  BY <1>1, PartialType DEF R!Supervise, R!Lose, R!Release, R!Adopt, R!Resync, R!hubSide, R!TypeOK
<1>3. R!UpstreamIsRecorded'
  BY DEF R!Supervise, R!Lose, R!Release, R!Adopt, R!Resync, R!UpstreamIsRecorded
<1>4. R!IntentKept' /\ BackoffIsDirty' /\ R!NoLostWakeup' /\ ControlKept'
  BY <1>1 DEF R!hubSide, R!IntentKept, R!Quiet, BackoffIsDirty, R!NoLostWakeup, ControlKept, R!ControlRecorded
<1> QED
  BY <1>2, <1>3, <1>4

(* Every reachable state of the reconciler and its bus satisfies ReconcilerInv. *)
THEOREM ReconcilerInvariance == R!Spec => []ReconcilerInv
<1>1. ReconcilerInv /\ [R!Next]_(R!vars) => ReconcilerInv'
  <2>1. ReconcilerInv /\ UNCHANGED R!vars => ReconcilerInv'
    BY DEF R!vars, ReconcilerInv, R!TypeOK, R!IntentKept, R!Quiet, BackoffIsDirty, R!NoLostWakeup,
           R!UpstreamIsRecorded, ControlKept, R!ControlRecorded
  <2> QED
    BY <2>1, CallerKeeps, ReconcileKeeps, SuperviseKeeps DEF R!Next
<1>2. R!Init => ReconcilerInv
  BY ReconcilerInit
<1> QED
  BY <1>1, <1>2, PTL DEF R!Spec

-----------------------------------------------------------------------------
(* What the reconciler's invariant says of the code.                          *)

(* Every flag, token and set keeps its type. *)
THEOREM ReconcilerTypeCorrect == R!Spec => []R!TypeOK
<1>1. ReconcilerInv => R!TypeOK
  BY DEF ReconcilerInv
<1>2. R!Spec => []ReconcilerInv
  BY ReconcilerInvariance
<1> QED
  BY <1>1, <1>2, PTL

(* M5, C7: reconcile never loses a change of the desired set, however callers, *)
(* failed Syncs and lost links interleave with it: with no change owed and    *)
(* the flag down, what is in flight or last recorded is the desired set.      *)
THEOREM NoIntentIsLost == R!Spec => []R!IntentKept
<1>1. ReconcilerInv => R!IntentKept
  BY DEF ReconcilerInv
<1>2. R!Spec => []ReconcilerInv
  BY ReconcilerInvariance
<1> QED
  BY <1>1, <1>2, PTL

(* C7: the non-blocking send on h.wake loses nothing: the goroutine never      *)
(* waits with the flag up and no token in the channel or on its way.          *)
THEOREM NoWakeupIsLost == R!Spec => []R!NoLostWakeup
<1>1. ReconcilerInv => R!NoLostWakeup
  BY DEF ReconcilerInv
<1>2. R!Spec => []ReconcilerInv
  BY ReconcilerInvariance
<1> QED
  BY <1>1, <1>2, PTL

(* M6: Redis delivers to a live, resynced link exactly what Sync last          *)
(* recorded, whichever of Sync and the supervisor's resync came last.         *)
THEOREM LinkServesRecorded == R!Spec => []R!UpstreamIsRecorded
<1>1. ReconcilerInv => R!UpstreamIsRecorded
  BY DEF ReconcilerInv
<1>2. R!Spec => []ReconcilerInv
  BY ReconcilerInvariance
<1> QED
  BY <1>1, <1>2, PTL

(* C8: Sync is never given a set without the control key. *)
THEOREM ControlStaysRecorded == R!Spec => []R!ControlRecorded
<1>1. ReconcilerInv => R!ControlRecorded
  BY DEF ReconcilerInv, ControlKept
<1>2. R!Spec => []ReconcilerInv
  BY ReconcilerInvariance
<1> QED
  BY <1>1, <1>2, PTL

-----------------------------------------------------------------------------
(* THE HUB *)

OwedOnce ==
  /\ \A c \in Conns : Reader(c) \in owing => step[c] = "connected"
  /\ \A c \in Conns : Ender(c) \in owing => life[c] = "closed"
  /\ Controller \in owing => control.state # "unsubscribe"

(* A goroutine has one name and one role. *)
LEMMA CallersDiffer ==
  /\ \A c, d \in Conns : /\ Reader(c) # Ender(d)
                         /\ Reader(c) # Closer(d)
                         /\ Ender(c) # Closer(d)
                         /\ Reader(c) = Reader(d) => c = d
                         /\ Ender(c) = Ender(d) => c = d
  /\ \A c \in Conns : Controller \notin {Reader(c), Ender(c), Closer(c)}
BY DEF Reader, Ender, Closer, Controller

(* How a step of the registry can move the desired set and the debts. *)
Moves(a) ==
  /\ a \in Callers
  /\ a \notin owing
  /\ owing' = owing \cup {a}
  /\ desired' # desired

Keeps == UNCHANGED <<desired, owing>>

(* Inserting keys the Sink does not hold moves the set for a first holder. *)
LEMMA InsertMoves ==
  ASSUME MapsOK, NEW c \in Conns, NEW K \in SUBSET Keys, K \cap subs[c] = {},
         \A k \in K : Admits(k), Insert(c, K), Reader(c) \notin owing
  PROVE  Keeps \/ Moves(Reader(c))
<1> DEFINE first == {k \in K : channels[k] \cup {c} = {c}}
<1>1. /\ desired' = desired \cup first
      /\ owing' = IF first = {} THEN owing ELSE owing \cup {Reader(c)}
  BY DEF Insert
<1>2. \A k \in first : channels[k] = {} /\ k # ControlKey
  BY RegistryAssumption DEF MapsOK, MirrorAgrees, Admits
<1>3. \A k \in first : k \notin desired
  BY <1>2 DEF MapsOK, DesiredIsHeld
<1> QED
  BY <1>1, <1>3 DEF Keeps, Moves, Callers, Reader

(* Dropping keys moves it for a last one. *)
LEMMA DetachMoves ==
  ASSUME MapsOK, NEW drops \in [Conns -> SUBSET Keys],
         \A c \in Conns : drops[c] \subseteq subs[c],
         NEW caller \in Callers, Detach(drops, caller), caller \notin owing
  PROVE  Keeps \/ Moves(caller)
<1> DEFINE last == LastHolderGone(drops)
<1>1. /\ desired' = desired \ last
      /\ owing' = IF last = {} THEN owing ELSE owing \cup {caller}
  BY DEF Detach
<1>2. \A k \in last : k \in Keys /\ channels[k] # {}
  BY DEF LastHolderGone, MapsOK, MirrorAgrees
<1>3. last \subseteq desired
  BY <1>2 DEF MapsOK, DesiredIsHeld
<1> HIDE DEF last
<1> QED
  BY <1>1, <1>3 DEF Keeps, Moves

LEMMA DeregisterMoves ==
  ASSUME MapsOK, NEW c \in Conns, NEW caller \in Callers, Deregister(c, caller), caller \notin owing
  PROVE  Keeps \/ Moves(caller)
<1>1. CASE c \notin registered
  BY <1>1 DEF Deregister, maps, Keeps
<1>2. CASE c \in registered
  <2> DEFINE drops == Only(c, subs[c])
  <2>1. Detach(drops, caller)
    BY <1>2 DEF Deregister
  <2>2. drops \in [Conns -> SUBSET Keys] /\ \A d \in Conns : drops[d] \subseteq subs[d]
    BY DEF Only, MapsOK
  <2> HIDE DEF drops
  <2> QED
    BY <2>1, <2>2, DetachMoves
<1> QED
  BY <1>1, <1>2

(* Deregister owes only to its caller. *)
LEMMA DeregisterOwes ==
  ASSUME NEW c \in Conns, NEW caller, Deregister(c, caller)
  PROVE  owing' \subseteq owing \cup {caller}
BY DEF Deregister, Detach, maps

-----------------------------------------------------------------------------
(* Every step of the registry moves the set once, on its caller's account.    *)
LEMMA StepMoves ==
  ASSUME IInv, IInv', OwedOnce, RegistryNext
  PROVE  /\ Keeps \/ \E a \in Callers : Moves(a)
         /\ OwedOnce'
<1> USE DEF IInv
<1>1. ASSUME NEW c \in Conns, ConnStep(c)
      PROVE  (Keeps \/ \E a \in Callers : Moves(a)) /\ OwedOnce'
  <2>1. CASE Add(c)
    BY <2>1, CallersDiffer DEF Add, Keeps, OwedOnce, IndexOK
  <2>2. ASSUME NEW u \in Users, Authorized(c, u) PROVE Keeps /\ OwedOnce'
    BY <2>2, CallersDiffer DEF Authorized, maps, Keeps, OwedOnce, IndexOK
  <2>3. ASSUME NEW K \in SUBSET Keys, Attach(c, K)
        PROVE  (Keeps \/ Moves(Reader(c))) /\ OwedOnce'
    <3>1. /\ step[c] = "named" /\ step' = [step EXCEPT ![c] = "connected"]
          /\ Reader(c) \notin owing
          /\ UNCHANGED <<life, control>>
      BY <2>3 DEF Attach, OwedOnce
    <3>2. CASE c \notin registered
      BY <2>3, <3>1, <3>2 DEF Attach, Keeps, OwedOnce, IndexOK
    <3>3. CASE c \in registered
      <4>1. PICK G \in Grants(c, K) : Insert(c, G)
        BY <2>3, <3>3 DEF Attach
      <4>2. G \in SUBSET Keys /\ (\A k \in G : Admits(k)) /\ G \cap subs[c] = {}
        BY DEF Grants
      <4>3. Keeps \/ Moves(Reader(c))
        BY <3>1, <4>1, <4>2, InsertMoves
      <4>4. OwedOnce'
        BY <3>1, <4>3, CallersDiffer DEF Keeps, Moves, OwedOnce, IndexOK
      <4> QED
        BY <4>3, <4>4
    <3> QED
      BY <3>2, <3>3
  <2>4. ASSUME NEW k \in Keys, Subscribe(c, k)
        PROVE  (Keeps \/ Moves(Reader(c))) /\ OwedOnce'
    <3>1. /\ step[c] = "connected" /\ Reader(c) \notin owing
          /\ Admits(k) /\ k \notin subs[c] /\ Insert(c, {k})
          /\ UNCHANGED <<step, life, control>>
      BY <2>4 DEF Subscribe, ReaderReady
    <3>2. Keeps \/ Moves(Reader(c))
      BY <3>1, InsertMoves
    <3> QED
      BY <3>1, <3>2, CallersDiffer DEF Keeps, Moves, OwedOnce
  <2>5. ASSUME NEW k \in Keys, Unsubscribe(c, k)
        PROVE  (Keeps \/ Moves(Reader(c))) /\ OwedOnce'
    <3> DEFINE drops == Only(c, {k})
    <3>1. /\ step[c] = "connected" /\ Reader(c) \notin owing
          /\ Detach(drops, Reader(c))
          /\ UNCHANGED <<step, life, control>>
      BY <2>5 DEF Unsubscribe, ReaderReady
    <3>2. drops \in [Conns -> SUBSET Keys] /\ \A d \in Conns : drops[d] \subseteq subs[d]
      BY <2>5 DEF Unsubscribe, Only
    <3> HIDE DEF drops
    <3>3. Keeps \/ Moves(Reader(c))
      BY <3>1, <3>2, DetachMoves DEF Callers, Reader
    <3> QED
      BY <3>1, <3>3, CallersDiffer DEF Keeps, Moves, OwedOnce
  <2>6. CASE End(c)
    BY <2>6 DEF End, BeginClose, maps, Keeps, OwedOnce, LifeOK
  <2>7. CASE FinishClose(c)
    <3>1. /\ life[c] = "closing" /\ life' = [life EXCEPT ![c] = "closed"]
          /\ Deregister(c, Ender(c))
          /\ Ender(c) \in Callers /\ Ender(c) \notin owing
          /\ UNCHANGED <<step, control>>
      BY <2>7 DEF FinishClose, OwedOnce, Ender, Callers
    <3>2. Keeps \/ Moves(Ender(c))
      BY <3>1, DeregisterMoves
    <3>3. OwedOnce'
      BY <3>1, <3>2, CallersDiffer DEF Keeps, Moves, OwedOnce, LifeOK
    <3> QED
      BY <3>1, <3>2, <3>3
  <2>8. CASE CloseSlowRemove(c)
    <3>1. /\ Deregister(c, Closer(c))
          /\ Closer(c) \in Callers /\ Closer(c) \notin owing
          /\ UNCHANGED <<step, life, control>>
      BY <2>8 DEF CloseSlowRemove, Closer, Callers
    <3>2. Keeps \/ Moves(Closer(c))
      BY <3>1, DeregisterMoves
    <3>3. OwedOnce'
      BY <3>1, <3>2, CallersDiffer DEF Keeps, Moves, OwedOnce
    <3> QED
      BY <3>1, <3>2, <3>3
  <2>9. CASE CloseSlowClose(c)
    BY <2>9 DEF CloseSlowClose, BeginClose, maps, Keeps, OwedOnce, LifeOK
  <2>10. Reader(c) \in Callers
    BY DEF Reader, Callers
  <2> QED
    BY <1>1, <2>1, <2>2, <2>3, <2>4, <2>5, <2>6, <2>7, <2>8, <2>9, <2>10 DEF ConnStep
<1>2. CASE ControlStep
  <2>0. Controller \in Callers
    BY DEF Callers
  <2>1. ASSUME NEW state, NEW targets, NEW u, NEW K, Accept(state, targets, u, K)
        PROVE  Keeps /\ OwedOnce'
    BY <2>1 DEF Accept, maps, Keeps, OwedOnce
  <2>2. ASSUME NEW c \in Conns, RevokeRemove(c)
        PROVE  (Keeps \/ Moves(Controller)) /\ OwedOnce'
    <3>1. /\ Deregister(c, Controller) /\ Controller \notin owing
          /\ UNCHANGED <<step, life>>
          /\ control.state = "close"
          /\ control' = [control EXCEPT !.targets = @ \ {c}, !.victim = c]
      BY <2>2 DEF RevokeRemove
    <3>2. control'.state = "close"
      BY <3>1 DEF LifeOK, ControlType
    <3>3. Keeps \/ Moves(Controller)
      BY <2>0, <3>1, DeregisterMoves
    <3> QED
      BY <3>1, <3>2, <3>3, CallersDiffer DEF Keeps, Moves, OwedOnce
  <2>3. CASE RevokeClose
    <3>1. control'.state = "close" /\ UNCHANGED <<maps, step, owing>>
      BY <2>3 DEF RevokeClose, LifeOK, ControlType
    <3>2. \A c \in Conns : life[c] = "closed" => life'[c] = "closed"
      BY <2>3 DEF RevokeClose, BeginClose, LifeOK, ControlType
    <3> QED
      BY <3>1, <3>2 DEF maps, Keeps, OwedOnce
  <2>4. CASE RevokeDone
    BY <2>4 DEF RevokeDone, Idle, maps, Keeps, OwedOnce
  <2>5. CASE ControlUnsubscribe
    <3> DEFINE drops == [c \in Conns |-> IF c \in control.targets
                                         THEN subs[c] \cap control.pattern ELSE {}]
    <3>1. drops \in [Conns -> SUBSET Keys] /\ \A c \in Conns : drops[c] \subseteq subs[c]
      BY DEF MapsOK
    <3>2. /\ Detach(drops, Controller) /\ Controller \notin owing
          /\ control'.state = "idle" /\ UNCHANGED <<step, life>>
      BY <2>5 DEF ControlUnsubscribe, Idle, OwedOnce
    <3> HIDE DEF drops
    <3>3. Keeps \/ Moves(Controller)
      BY <2>0, <3>1, <3>2, DetachMoves
    <3>4. OwedOnce'
      BY <3>2, <3>3, CallersDiffer DEF Keeps, Moves, OwedOnce
    <3> QED
      BY <2>0, <3>3, <3>4
  <2> QED
    BY <1>2, <2>0, <2>1, <2>2, <2>3, <2>4, <2>5 DEF ControlStep, ControlUser, ControlClient
<1>3. CASE Deliveries
  BY <1>3 DEF Deliveries, Deliver, maps, Keeps, OwedOnce
<1> QED
  BY <1>1, <1>2, <1>3 DEF RegistryNext

-----------------------------------------------------------------------------
(* The registry's half of the hub: the reconciler's steps leave it alone, and  *)
(* a markDirty is the registry's Marked.                                     *)
LEMMA BackgroundKeeps ==
  ASSUME Background \/ \E a \in Callers : R!SendWake(a) /\ UNCHANGED <<maps, others>>
  PROVE  UNCHANGED regVars
BY DEF Background, R!Reconcile, R!Supervise, R!Woken, R!Swap, R!Snapshot, R!SyncSucceeds,
       R!SyncFails, R!BackoffEnds, R!Lose, R!Release, R!Adopt, R!Resync, R!SendWake,
       R!hubSide, maps, others, regVars

LEMMA HubStepIsRegistryStep == ASSUME [HubNext]_hubVars PROVE [Next]_regVars
<1>1. CASE Critical
  BY <1>1 DEF Critical, Next
<1>2. ASSUME NEW a \in Callers, R!StoreDirty(a), Marked(a), UNCHANGED <<maps, others>>
      PROVE  Next
  BY <1>2 DEF MarkedOnly, Next
<1>3. CASE UNCHANGED hubVars
  BY <1>3 DEF hubVars
<1> QED
  BY <1>1, <1>2, <1>3, BackgroundKeeps DEF HubNext, MarkDirty

(* The hub's registry behaves as the registry that was verified on its own.   *)
THEOREM HubIsRegistry == HubSpec => Spec
<1>1. HubInit => Init
  BY DEF HubInit
<1>2. [HubNext]_hubVars => [Next]_regVars
  BY HubStepIsRegistryStep
<1> QED
  BY <1>1, <1>2, PTL DEF HubSpec, Spec

(* Debts stay in order under every step of the hub. *)
LEMMA HubOwes ==
  ASSUME IInv, IInv', OwedOnce, [HubNext]_hubVars PROVE OwedOnce'
<1>1. CASE Critical
  BY <1>1, StepMoves DEF Critical
<1>2. ASSUME NEW a \in Callers, Marked(a), UNCHANGED <<maps, others>> PROVE OwedOnce'
  BY <1>2 DEF Marked, others, OwedOnce
<1>3. CASE UNCHANGED regVars
  BY <1>3 DEF regVars, OwedOnce
<1>4. UNCHANGED hubVars => UNCHANGED regVars
  BY DEF hubVars
<1> QED
  BY <1>1, <1>2, <1>3, <1>4, BackgroundKeeps DEF HubNext, MarkDirty

LEMMA HubInvariance == HubSpec => [](IInv /\ OwedOnce)
<1>1. HubInit => OwedOnce
  BY DEF HubInit, Init, OwedOnce
<1> QED
  BY <1>1, HubOwes, HubIsRegistry, Invariance, PTL DEF HubSpec

(* Every step of the hub is a step the reconciler was verified against.       *)
LEMMA HubStepIsReconcilerStep ==
  ASSUME IInv, IInv', OwedOnce, [HubNext]_hubVars PROVE [R!Next]_(R!vars)
<1>1. CASE Critical
  <2>1. CASE Keeps
    BY <1>1, <2>1 DEF Critical, Keeps, reconcilerVars, R!vars
  <2>2. ASSUME NEW a \in Callers, Moves(a) PROVE R!Next
    <3>1. /\ owing' = owing \cup {a} /\ a \notin owing \cup waking
          /\ desired' # desired /\ desired' \in SUBSET Keys /\ ControlKey \in desired'
      BY <1>1, <2>2 DEF Critical, Moves, IInv, MapsOK, DesiredIsHeld
    <3>2. R!Move(a, desired')
      BY <1>1, <3>1 DEF Critical, reconcilerVars, R!Move, R!own
    <3> QED
      BY <3>1, <3>2 DEF R!Next, R!Caller
  <2> QED
    BY <1>1, <2>1, <2>2, StepMoves DEF Critical
<1>2. CASE MarkDirty
  BY <1>2 DEF MarkDirty, R!Next, R!Caller
<1>3. CASE Background
  BY <1>3 DEF Background, R!Next
<1>4. CASE UNCHANGED hubVars
  BY <1>4 DEF hubVars, regVars, reconcilerVars, R!vars
<1> QED
  BY <1>1, <1>2, <1>3, <1>4 DEF HubNext

(* The hub's registry is one of the environments Reconciler allows: whatever   *)
(* is proved of Reconciler holds of the hub, for every instance.              *)
THEOREM HubImplementsReconciler == HubSpec => ImplementsReconciler
<1>1. HubInit => R!Init
  BY DEF HubInit
<1> QED
  BY <1>1, HubStepIsReconcilerStep, HubInvariance, PTL
  DEF HubSpec, ImplementsReconciler, R!Spec

(* FR-12, M5: when no goroutine of the hub owes or is applying a change and the *)
(* link is up and resynced, Redis delivers to this replica the control key and  *)
(* the keys its registered connections hold, no more and no fewer.            *)
THEOREM HubFollowsHolders == HubSpec => []HeldIsUpstream
<1>1. R!Spec => []ReconcilerInv
  BY ReconcilerInvariance
<1>2. IInv /\ ReconcilerInv => HeldIsUpstream
  <2> SUFFICES ASSUME IInv, ReconcilerInv, R!Quiet, phase = "wait", link = "up", ~resync
               PROVE  upstream = {ControlKey} \cup Held
    BY DEF HeldIsUpstream
  <2>1. upstream = desired
    BY DEF ReconcilerInv, R!IntentKept, R!Quiet, R!UpstreamIsRecorded
  <2>2. \A k \in Keys : channels[k] # {} <=> \E c \in registered : k \in subs[c]
    BY DEF IInv, MapsOK, MirrorAgrees, Unheld
  <2> QED
    BY <2>1, <2>2 DEF IInv, MapsOK, DesiredIsHeld, Held
<1> QED
  BY <1>1, <1>2, HubInvariance, HubImplementsReconciler, PTL DEF ImplementsReconciler
=============================================================================
