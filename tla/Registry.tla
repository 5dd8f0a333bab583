------------------------------ MODULE Registry ------------------------------
(***************************************************************************)
(* The hub's registry (internal/hub: hub.go, fanout.go, control.go): who   *)
(* holds which bus key, who is whose connection, and which keys this       *)
(* replica wants from the bus.  All of it lives under one RWMutex, so a     *)
(* critical section is one action.  What happens between two critical       *)
(* sections of one goroutine is where the interleavings are:                *)
(*                                                                         *)
(*  - a caller that moved `desired` has unlocked and not yet called         *)
(*    markDirty (`owing`);                                                  *)
(*  - a connection refused a frame and is not closed yet (`slow`), or has   *)
(*    been deregistered by the closer and not closed yet (`doomed`);        *)
(*  - doClose has set the closed flag and not yet called Remove (`life`);   *)
(*  - the control goroutine has resolved its targets and not yet acted on   *)
(*    them (`control`);                                                     *)
(*  - the reader has learnt its user and not yet attached (`step`).         *)
(*                                                                         *)
(* A channel name and its bus key are the same value here: Hub.key is       *)
(* injective.  Whether a full outbound queue refuses a frame is a choice,   *)
(* since a queue is not this module's (see Conn).                       *)
(***************************************************************************)
EXTENDS Naturals, FiniteSets

CONSTANTS
  Conns,       \* the Sinks this replica ever accepts
  Ids,         \* client ids
  IdOf,        \* the id each Sink was given; two may collide
  Users,       \* the user ids the application names
  Keys,        \* bus keys, the control key among them
  Reserved,    \* keys whose name starts with "_"
  Unresolved,  \* keys whose namespace has no configuration block
  ControlKey,  \* {bus.prefix}_control
  Patterns,    \* the sets of keys a control message's channel glob may match
  MaxSubs,     \* limits.max_subscriptions_per_conn; 0 is "no limit"
  NoUser,      \* the empty user id, before the application has answered
  NoConn       \* the absent Sink

ASSUME RegistryAssumption ==
  /\ IdOf \in [Conns -> Ids]
  /\ NoUser \notin Users
  /\ NoConn \notin Conns
  /\ Reserved \subseteq Keys
  /\ Unresolved \subseteq Keys
  /\ ControlKey \in Reserved
  /\ Patterns \subseteq SUBSET Keys
  /\ MaxSubs \in Nat

VARIABLES
  registered,  \* the Sinks with an entry in h.subs
  subs,        \* h.subs: the keys each Sink holds
  channels,    \* h.channels: the Sinks holding each key
  users,       \* h.users: the Sinks filed under each user id
  userOf,      \* h.userOf: the bucket a registered Sink is filed under
  clients,     \* h.clients: the Sink registered under each id
  desired,     \* h.desired: the keys the reconciler drives the bus to
  user,        \* Conn.user of each Sink
  step,        \* how far the Sink's reader is with its handshake
  life,        \* how far the Sink's doClose is
  slow,        \* Sinks handed to the closer, closeSlow not begun
  doomed,      \* Sinks closeSlow has removed and not yet closed
  control,     \* the control goroutine
  owing        \* goroutines that unlocked and have yet to mark the hub dirty

maps   == <<registered, subs, channels, users, userOf, clients, desired>>
others == <<user, step, life, slow, doomed, control>>
regVars == <<registered, subs, channels, users, userOf, clients, desired,
             user, step, life, slow, doomed, control, owing>>

-----------------------------------------------------------------------------
(* The goroutines that call into the hub: the reader of each connection,    *)
(* whoever runs its doClose, whoever runs closeSlow on it, and the one       *)
(* control goroutine.                                                       *)

Reader(c) == <<c, "reader">>
Ender(c)  == <<c, "ender">>
Closer(c) == <<c, "closer">>
Controller == <<NoConn, "control">>

Callers == (Conns \X {"reader", "ender", "closer"}) \cup {Controller}

UserIds == Users \cup {NoUser}

(* `named` and `attached` are history: the connections that answered to the  *)
(* user, and those of them that had attached, when targets was resolved.     *)
Idle == [state |-> "idle", user |-> NoUser, named |-> {}, attached |-> {},
         targets |-> {}, victim |-> NoConn, pattern |-> {}]

(* admit: no lock, no mutable state. *)
Admits(k) == k \notin Reserved /\ k \notin Unresolved

(* The cap of insertLocked. *)
HasRoom(held) == MaxSubs = 0 \/ Cardinality(held) < MaxSubs

(* What a connect frame's channels become once reserved, unresolved and      *)
(* held ones are skipped and the cap has cut the rest: some largest set      *)
(* that fits, since the client chooses the order.                            *)
Grants(c, requested) ==
  LET wanted == {k \in requested : Admits(k) /\ k \notin subs[c]}
  IN  IF MaxSubs = 0
      THEN {wanted}
      ELSE {G \in SUBSET wanted :
              /\ Cardinality(subs[c] \cup G) <= MaxSubs
              /\ G = wanted \/ Cardinality(subs[c] \cup G) = MaxSubs}

-----------------------------------------------------------------------------
(* The map mutations, each of them one critical section's worth.            *)

(* Mutant: 0 -> 1 taken for "no holder", read after the insert. *)
InsertLate(c, K) ==
  /\ subs' = [subs EXCEPT ![c] = @ \cup K]
  /\ channels' = [k \in Keys |-> IF k \in K THEN channels[k] \cup {c} ELSE channels[k]]
  /\ desired' = desired \cup {k \in K : channels'[k] = {}}
  /\ UNCHANGED owing

(* insertLocked for every key of K: 0 -> 1 is decided under the lock, as     *)
(* "one holder after the insert".                                           *)
Insert(c, K) ==
  LET first == {k \in K : channels[k] \cup {c} = {c}}
  IN  /\ subs' = [subs EXCEPT ![c] = @ \cup K]
      /\ channels' = [k \in Keys |-> IF k \in K THEN channels[k] \cup {c}
                                                 ELSE channels[k]]
      /\ desired' = desired \cup first
      /\ owing' = IF first = {} THEN owing ELSE owing \cup {Reader(c)}

(* The keys whose last holder goes when each Sink c drops drops[c]. *)
LastHolderGone(drops) ==
  {k \in Keys : /\ \E c \in Conns : k \in drops[c]
                /\ \A c \in channels[k] : k \in drops[c]}

(* Mutant: the set moves and nobody marks the hub dirty. *)
DetachUnmarked(drops, caller) ==
  LET last == LastHolderGone(drops)
  IN  /\ subs' = [c \in Conns |-> subs[c] \ drops[c]]
      /\ channels' = [k \in Keys |-> {c \in channels[k] : k \notin drops[c]}]
      /\ desired' = desired \ last
      /\ UNCHANGED owing

(* detach for every <<c, k>> with k in drops[c], by the goroutine `caller`.  *)
Detach(drops, caller) ==
  LET last == LastHolderGone(drops)
  IN  /\ subs' = [c \in Conns |-> subs[c] \ drops[c]]
      /\ channels' = [k \in Keys |-> {c \in channels[k] : k \notin drops[c]}]
      /\ desired' = desired \ last
      /\ owing' = IF last = {} THEN owing ELSE owing \cup {caller}

Only(c, K) == [d \in Conns |-> IF d = c THEN K ELSE {}]

(* indexUserLocked: file c under u, out of the bucket it was in. *)
File(c, u) ==
  /\ users' = [v \in UserIds |-> IF v = u THEN users[v] \cup {c}
                                  ELSE IF v = userOf[c] THEN users[v] \ {c}
                                  ELSE users[v]]
  /\ userOf' = [userOf EXCEPT ![c] = u]

(* Mutant: the bucket is looked up by the user the connection answers to. *)
DeregisterByUser(c, caller) ==
  IF c \in registered
  THEN /\ Detach(Only(c, subs[c]), caller)
       /\ registered' = registered \ {c}
       /\ clients' = [clients EXCEPT ![IdOf[c]] = NoConn]
       /\ users' = [users EXCEPT ![user[c]] = @ \ {c}]
       /\ userOf' = [userOf EXCEPT ![c] = NoUser]
  ELSE UNCHANGED <<maps, owing>>

(* Remove, its body: nothing when c is not registered. *)
Deregister(c, caller) ==
  IF c \in registered
  THEN /\ Detach(Only(c, subs[c]), caller)
       /\ registered' = registered \ {c}
       /\ clients' = [clients EXCEPT ![IdOf[c]] = NoConn]
       /\ users' = [users EXCEPT ![userOf[c]] = @ \ {c}]
       /\ userOf' = [userOf EXCEPT ![c] = NoUser]
  ELSE UNCHANGED <<maps, owing>>

(* queueAck and the Sends of a fan-out: a closed Sink swallows the frame,    *)
(* an open one may refuse it and is then handed to the closer.               *)
MayRefuse(S) == \E R \in SUBSET {c \in S : life[c] = "open"} : slow' = slow \cup R

-----------------------------------------------------------------------------
Init ==
  /\ registered = {}
  /\ subs = [c \in Conns |-> {}]
  /\ channels = [k \in Keys |-> {}]
  /\ users = [u \in UserIds |-> {}]
  /\ userOf = [c \in Conns |-> NoUser]
  /\ clients = [i \in Ids |-> NoConn]
  /\ desired = {ControlKey}
  /\ user = [c \in Conns |-> NoUser]
  /\ step = [c \in Conns |-> "new"]
  /\ life = [c \in Conns |-> "open"]
  /\ slow = {}
  /\ doomed = {}
  /\ control = Idle
  /\ owing = {}

(* hub.Add at the upgrade, under the still empty user id.  A different Sink  *)
(* with the same id is refused, and the server drops the socket.             *)
Add(c) ==
  /\ step[c] = "new"
  /\ IF clients[IdOf[c]] = NoConn
     THEN /\ registered' = registered \cup {c}
          /\ clients' = [clients EXCEPT ![IdOf[c]] = c]
          /\ File(c, user[c])
          /\ step' = [step EXCEPT ![c] = "added"]
     ELSE /\ step' = [step EXCEPT ![c] = "turned away"]
          /\ UNCHANGED <<registered, clients, users, userOf>>
  /\ UNCHANGED <<subs, channels, desired, user, life, slow, doomed, control, owing>>

(* doConnect up to user.Store: the application answered with u.  The         *)
(* connection may have been closed while it was deciding.                    *)
Authorized(c, u) ==
  /\ step[c] = "added"
  /\ user' = [user EXCEPT ![c] = u]
  /\ step' = [step EXCEPT ![c] = "named"]
  /\ UNCHANGED <<maps, life, slow, doomed, control, owing>>

(* Mutant: Attach registers a connection that close has just removed. *)
AttachRegisters(c, requested) ==
  /\ step[c] = "named"
  /\ step' = [step EXCEPT ![c] = "connected"]
  /\ registered' = registered \cup {c}
  /\ clients' = [clients EXCEPT ![IdOf[c]] = c]
  /\ \E G \in Grants(c, requested) : Insert(c, G)
  /\ File(c, user[c])
  /\ MayRefuse({c})
  /\ UNCHANGED <<user, life, doomed, control>>

(* Attach: refile, insert, and queue the connect reply, which is queued even *)
(* for a Sink that is no longer registered and so is granted nothing.        *)
Attach(c, requested) ==
  /\ step[c] = "named"
  /\ step' = [step EXCEPT ![c] = "connected"]
  /\ IF c \in registered
     THEN /\ \E G \in Grants(c, requested) : Insert(c, G)
          /\ File(c, user[c])
     ELSE UNCHANGED <<subs, channels, desired, owing, users, userOf>>
  /\ MayRefuse({c})
  /\ UNCHANGED <<registered, clients, user, life, doomed, control>>

(* A reader issues its next command only after the last has returned. *)
ReaderReady(c) == step[c] = "connected" /\ Reader(c) \notin owing

(* Subscribe, its successful path; every refusal leaves the hub as it was.   *)
Subscribe(c, k) ==
  /\ ReaderReady(c)
  /\ Admits(k)
  /\ c \in registered
  /\ k \notin subs[c]
  /\ HasRoom(subs[c])
  /\ Insert(c, {k})
  /\ MayRefuse({c})
  /\ UNCHANGED <<registered, users, userOf, clients, user, step, life, doomed, control>>

Unsubscribe(c, k) ==
  /\ ReaderReady(c)
  /\ c \in registered
  /\ k \in subs[c]
  /\ Detach(Only(c, {k}), Reader(c))
  /\ MayRefuse({c})
  /\ UNCHANGED <<registered, users, userOf, clients, user, step, life, doomed, control>>

(* deliver: under the read lock, to every holder but the excluded one. *)
Deliver(k, exclude) ==
  /\ channels[k] # {}
  /\ MayRefuse({c \in channels[k] : IdOf[c] # exclude})
  /\ UNCHANGED <<maps, user, step, life, doomed, control, owing>>

-----------------------------------------------------------------------------
(* Ending a connection.  doClose runs once; it sets the closed flag, queues   *)
(* the disconnect frame, and only then deregisters.  A second caller waits    *)
(* in the sync.Once for the first.                                            *)

BeginClose(c) == life' = [life EXCEPT ![c] = "closing"]

(* The connection's own reasons: a read error, a timer, the drain. *)
End(c) ==
  /\ step[c] \notin {"new", "turned away"}
  /\ life[c] = "open"
  /\ BeginClose(c)
  /\ UNCHANGED <<maps, user, step, slow, doomed, control, owing>>

FinishClose(c) ==
  /\ life[c] = "closing"
  /\ life' = [life EXCEPT ![c] = "closed"]
  /\ Deregister(c, Ender(c))
  /\ UNCHANGED <<user, step, slow, doomed, control>>

(* closeSlow: Remove, then Close. *)
CloseSlowRemove(c) ==
  /\ c \in slow
  /\ Closer(c) \notin owing
  /\ slow' = slow \ {c}
  /\ doomed' = doomed \cup {c}
  /\ Deregister(c, Closer(c))
  /\ UNCHANGED <<user, step, life, control>>

CloseSlowClose(c) ==
  /\ c \in doomed
  /\ Closer(c) \notin owing
  /\ CASE life[c] = "open"    -> BeginClose(c) /\ UNCHANGED doomed
       [] life[c] = "closing" -> FALSE
       [] life[c] = "closed"  -> doomed' = doomed \ {c} /\ UNCHANGED life
  /\ UNCHANGED <<maps, user, step, slow, control, owing>>

-----------------------------------------------------------------------------
(* Control messages, applied by one goroutine.  targets resolves under the    *)
(* read lock and returns; what follows takes the write lock again.            *)

Accept(state, targets, u, pattern) ==
  /\ control.state = "idle"
  /\ Controller \notin owing
  /\ LET named == {c \in Conns : u # NoUser /\ user[c] = u}
     IN  control' = [state |-> state, user |-> u, named |-> named,
                     attached |-> {c \in named : step[c] = "connected"},
                     targets |-> targets, victim |-> NoConn, pattern |-> pattern]
  /\ UNCHANGED <<maps, user, step, life, slow, doomed, owing>>

TargetsOfClient(i) == {clients[i]} \ {NoConn}

ControlUser(u, state, pattern)   == Accept(state, users[u], u, pattern)
ControlClient(i, state, pattern) == Accept(state, TargetsOfClient(i), NoUser, pattern)

(* closeAll: for each target in turn, Remove and then Close. *)
RevokeRemove(c) ==
  /\ control.state = "close"
  /\ control.victim = NoConn
  /\ Controller \notin owing
  /\ c \in control.targets
  /\ control' = [control EXCEPT !.targets = @ \ {c}, !.victim = c]
  /\ Deregister(c, Controller)
  /\ UNCHANGED <<user, step, life, slow, doomed>>

(* Mutant: a target that is already deregistered is taken for closed. *)
RevokeSkips ==
  /\ control.state = "close"
  /\ control.victim # NoConn
  /\ control' = [control EXCEPT !.victim = NoConn]
  /\ UNCHANGED <<maps, user, step, life, slow, doomed, owing>>

RevokeClose ==
  /\ control.state = "close"
  /\ control.victim # NoConn
  /\ Controller \notin owing
  /\ LET c == control.victim
     IN CASE life[c] = "open"    -> BeginClose(c) /\ UNCHANGED control
          [] life[c] = "closing" -> FALSE
          [] life[c] = "closed"  -> /\ control' = [control EXCEPT !.victim = NoConn]
                                    /\ UNCHANGED life
  /\ UNCHANGED <<maps, user, step, slow, doomed, owing>>

RevokeDone ==
  /\ control.state = "close"
  /\ control.targets = {}
  /\ control.victim = NoConn
  /\ control' = Idle
  /\ UNCHANGED <<maps, user, step, life, slow, doomed, owing>>

(* controlUnsubscribe: one write-locked section over all the targets. *)
ControlUnsubscribe ==
  /\ control.state = "unsubscribe"
  /\ LET drops == [c \in Conns |-> IF c \in control.targets
                                   THEN subs[c] \cap control.pattern ELSE {}]
     IN  /\ Detach(drops, Controller)
         /\ MayRefuse({c \in Conns : drops[c] # {}})
  /\ control' = Idle
  /\ UNCHANGED <<registered, users, userOf, clients, user, step, life, doomed>>

-----------------------------------------------------------------------------
(* The caller's markDirty, seen from the registry: it stops owing.           *)
Marked(a) == a \in owing /\ owing' = owing \ {a}

MarkedOnly(a) == Marked(a) /\ UNCHANGED <<maps, others>>

ConnStep(c) ==
  \/ Add(c)
  \/ \E u \in Users : Authorized(c, u)
  \/ \E K \in SUBSET Keys : Attach(c, K)
  \/ \E k \in Keys : Subscribe(c, k) \/ Unsubscribe(c, k)
  \/ End(c)
  \/ FinishClose(c)
  \/ CloseSlowRemove(c)
  \/ CloseSlowClose(c)

ControlStep ==
  \/ \E u \in Users, K \in Patterns : ControlUser(u, "unsubscribe", K)
  \/ \E i \in Ids, K \in Patterns : ControlClient(i, "unsubscribe", K)
  \/ \E u \in Users : ControlUser(u, "close", {})
  \/ \E i \in Ids : ControlClient(i, "close", {})
  \/ \E c \in Conns : RevokeRemove(c)
  \/ RevokeClose
  \/ RevokeDone
  \/ ControlUnsubscribe

Deliveries == \E k \in Keys, i \in Ids \cup {NoConn} : Deliver(k, i)

RegistryNext ==
  \/ \E c \in Conns : ConnStep(c)
  \/ ControlStep
  \/ Deliveries

Next ==
  \/ RegistryNext
  \/ \E a \in Callers : MarkedOnly(a)

Spec == Init /\ [][Next]_regVars
-----------------------------------------------------------------------------
(* Correctness.                                                            *)

TypeOK ==
  /\ registered \subseteq Conns
  /\ subs \in [Conns -> SUBSET Keys]
  /\ channels \in [Keys -> SUBSET Conns]
  /\ users \in [UserIds -> SUBSET Conns]
  /\ userOf \in [Conns -> UserIds]
  /\ clients \in [Ids -> Conns \cup {NoConn}]
  /\ desired \subseteq Keys
  /\ user \in [Conns -> UserIds]
  /\ step \in [Conns -> {"new", "turned away", "added", "named", "connected"}]
  /\ life \in [Conns -> {"open", "closing", "closed"}]
  /\ slow \subseteq Conns
  /\ doomed \subseteq Conns
  /\ control \in [state : {"idle", "close", "unsubscribe"}, user : UserIds,
                  named : SUBSET Conns, attached : SUBSET Conns,
                  targets : SUBSET Conns, victim : Conns \cup {NoConn},
                  pattern : SUBSET Keys]
  /\ owing \subseteq Callers

(* M4: the channel map and the subscription mirror are two views of one      *)
(* fact, whatever closes, revocations and commands interleave.               *)
MirrorAgrees == \A c \in Conns, k \in Keys : k \in subs[c] <=> c \in channels[k]

(* FR-10: the desired set is the control key and exactly the keys somebody   *)
(* holds, so the 0->1 and 1->0 transitions never lose or leak one.           *)
DesiredIsHeld == desired = {ControlKey} \cup {k \in Keys : channels[k] # {}}

(* C8: no connection ever holds a reserved key, so the departure of a last    *)
(* holder never takes the control key out of the desired set.                *)
ReservedUnheld == \A k \in Keys : ~Admits(k) => channels[k] = {}

(* FR-18: both indexes hold exactly the registered connections, under the     *)
(* bucket each was filed in, so a target that is not registered is never      *)
(* found and one that is always is.                                          *)
IndexesAgree ==
  /\ \A u \in UserIds : users[u] = {c \in registered : userOf[c] = u}
  /\ \A i \in Ids : clients[i] # NoConn =>
       clients[i] \in registered /\ IdOf[clients[i]] = i
  /\ \A c \in registered : clients[IdOf[c]] = c

(* FR-18: once a connection has attached it is filed under the user it        *)
(* answers to, not under the empty id it was added with.                     *)
FiledUnderUser ==
  \A c \in registered : userOf[c] = IF step[c] = "connected" THEN user[c] ELSE NoUser

(* M4: a closed connection is nowhere in the registry and never returns, even *)
(* when its reader was still waiting for the application when it closed.      *)
NoResurrection ==
  \A c \in Conns : life[c] = "closed" \/ c \in doomed =>
    /\ c \notin registered
    /\ \A k \in Keys : c \notin channels[k]
    /\ \A u \in UserIds : c \notin users[u]

(* FR-18: when the control goroutine has finished a disconnect, no connection *)
(* that had attached as the user when it was accepted is still open, unless   *)
(* the slow-consumer closer already has it.                                   *)
RevocationIsComplete ==
  [][RevokeDone => \A c \in control.attached : life[c] # "open" \/ c \in doomed]_regVars

(* FR-18, as docs/01-requirements.md states it: a disconnect closes every     *)
(* connection for the named user.  A connection the application has named     *)
(* and that has not reached Attach yet is one of them.                        *)
DisconnectClosesEvery ==
  [][RevokeDone => \A c \in control.named : life[c] # "open" \/ c \in doomed]_regVars

(* The registry implements Membership: five maps and a refcount behave as one *)
(* relation and the interest computed from it.                               *)
M == INSTANCE Membership WITH
       members  <- registered,
       departed <- {c \in Conns \ registered : step[c] \in {"added", "named", "connected"}},
       holds    <- {p \in Conns \X Keys : p[2] \in subs[p[1]]},
       interest <- desired

ImplementsMembership == M!Spec
=============================================================================
