------------------------------- MODULE Server -------------------------------
(***************************************************************************)
(* The server's bookkeeping (internal/server): who may open a socket, whose   *)
(* it is, and how a drain empties the replica.  One mutex guards current,     *)
(* conns, users, draining, stopped, http and drained, so a section under it    *)
(* is one action; a handshake's goroutine and a drain interleave between them. *)
(*                                                                         *)
(* A handshake is its goroutine: it reserves a slot, upgrades, registers the   *)
(* connection with the hub, tracks it, runs it, forgets it and gives the slot   *)
(* back.  What Conn.Run does in between is another module's; here it ends on   *)
(* its own or because it was told to.                                       *)
(***************************************************************************)
EXTENDS Naturals, FiniteSets

CONSTANTS
  Handshakes,      \* the requests that reach the websocket endpoint
  Users,           \* the user ids the application names
  NoUser,          \* the empty id a tracked connection has before that
  Untracked,       \* no entry in Server.conns
  Drainers,        \* the callers of Drain: a signal and a cancelled context
  MaxConnections,  \* limits.max_connections; 0 is "no limit"
  MaxPerUser       \* limits.max_connections_per_user; 0 is "no limit"

ASSUME ServerAssumption ==
  /\ IsFiniteSet(Handshakes)
  /\ NoUser \notin Users
  /\ Untracked \notin Users \cup {NoUser}
  /\ MaxConnections \in Nat
  /\ MaxPerUser \in Nat

VARIABLES
  handshake,  \* where each handshake's goroutine is
  told,       \* connections whose Close has been called, by anyone
  current,    \* Server.current
  conns,      \* Server.conns: the user each tracked connection is bound to
  users,      \* Server.users
  draining,   \* Server.draining
  stopped,    \* Server.stopped
  http,       \* whether Server.http holds the http.Server that Serve built
  listener,   \* Serve's listener: "unbound", "held" by Serve, "serving",
              \* "stopped" by Shutdown, "closed" before it served
  shut,       \* http.Server.Shutdown was called
  drained,    \* the Drains that wait on Server.drained; {} is a nil channel
  drain,      \* where each Drain is
  live,       \* what is left of its snapshot
  overran     \* the Drains whose Shutdown reported that the budget had run out

slots    == <<handshake, told, current, conns, users>>
gate     == <<draining, stopped, http, listener, shut>>
drains   == <<drained, drain, live, overran>>
srvVars  == <<handshake, told, current, conns, users, draining, stopped, http,
              listener, shut, drained, drain, live, overran>>

Below(n, cap) == cap = 0 \/ n < cap

(* Phases of a handshake.  "upgraded" and not tracked yet; "turned away" by track, *)
(* its Close not called yet; "leaving" has returned from Run.                   *)
Reserved == {"upgrading", "upgraded", "turned away", "running", "leaving", "unwinding"}
Phases   == {"idle", "refused", "gone"} \cup Reserved

Tracked == {h \in Handshakes : conns[h] # Untracked}

Init ==
  /\ handshake = [h \in Handshakes |-> "idle"]
  /\ told = {}
  /\ current = 0
  /\ conns = [h \in Handshakes |-> Untracked]
  /\ users = [u \in Users |-> 0]
  /\ draining = FALSE /\ stopped = FALSE
  /\ http = FALSE /\ listener = "unbound" /\ shut = FALSE
  /\ drained = {}
  /\ drain = [d \in Drainers |-> "idle"]
  /\ live = [d \in Drainers |-> {}]
  /\ overran = {}

Moves(h, from, to) ==
  /\ handshake[h] = from
  /\ handshake' = [handshake EXCEPT ![h] = to]

-----------------------------------------------------------------------------
(* Serve: the http.Server is published under the lock, unless a Drain was here  *)
(* first, and serves after it.  A Shutdown in between makes it return at once.  *)

(* Mutant: Serve does not look whether a Drain was here first. *)
PublishAlways ==
  /\ listener = "unbound"
  /\ http' = TRUE /\ listener' = "held"
  /\ UNCHANGED <<slots, draining, stopped, shut, drains>>

Publish ==
  /\ listener = "unbound"
  /\ IF stopped
     THEN listener' = "closed" /\ UNCHANGED http
     ELSE http' = TRUE /\ listener' = "held"
  /\ UNCHANGED <<slots, draining, stopped, shut, drains>>

Serve ==
  /\ listener = "held"
  /\ listener' = IF shut THEN "closed" ELSE "serving"
  /\ UNCHANGED <<slots, draining, stopped, http, shut, drains>>

StopAccepting ==
  /\ ~draining
  /\ draining' = TRUE
  /\ UNCHANGED <<slots, stopped, http, listener, shut, drains>>

-----------------------------------------------------------------------------
(* One handshake.                                                          *)

(* A request accepted before the listener closed may arrive after it did. *)
Arriving(h) == handshake[h] = "idle" /\ listener \in {"serving", "stopped"}

Reserve(h) ==
  /\ Arriving(h)
  /\ IF ~draining /\ Below(current, MaxConnections)
     THEN Moves(h, "idle", "upgrading") /\ current' = current + 1
     ELSE Moves(h, "idle", "refused") /\ UNCHANGED current
  /\ UNCHANGED <<told, conns, users, gate, drains>>

UpgradeFails(h) ==
  /\ Moves(h, "upgrading", "unwinding")
  /\ UNCHANGED <<told, current, conns, users, gate, drains>>

Upgrade(h) ==
  /\ Moves(h, "upgrading", "upgraded")
  /\ UNCHANGED <<told, current, conns, users, gate, drains>>

(* The hub refuses the connection: it drew an id that is in use. *)
AddFails(h) ==
  /\ Moves(h, "upgraded", "unwinding")
  /\ UNCHANGED <<told, current, conns, users, gate, drains>>

(* Mutant: track does not report that the replica is draining. *)
TrackBlindly(h) ==
  /\ Moves(h, "upgraded", "running")
  /\ conns' = [conns EXCEPT ![h] = NoUser]
  /\ UNCHANGED <<told, current, users, gate, drains>>

Track(h) ==
  /\ Moves(h, "upgraded", IF draining THEN "turned away" ELSE "running")
  /\ conns' = [conns EXCEPT ![h] = NoUser]
  /\ UNCHANGED <<told, current, users, gate, drains>>

TurnAway(h) ==
  /\ Moves(h, "turned away", "running")
  /\ told' = told \cup {h}
  /\ UNCHANGED <<current, conns, users, gate, drains>>

(* The application named the connection's user, once; the connection may have  *)
(* been told to close meanwhile.  Over the user's cap it is refused, and Run     *)
(* returns.                                                                *)
AdmitUser(h, u) ==
  /\ handshake[h] = "running"
  /\ conns[h] = NoUser
  /\ Below(users[u], MaxPerUser)
  /\ conns' = [conns EXCEPT ![h] = u]
  /\ users' = [users EXCEPT ![u] = @ + 1]
  /\ UNCHANGED <<handshake, told, current, gate, drains>>

RefuseUser(h, u) ==
  /\ Moves(h, "running", "leaving")
  /\ conns[h] = NoUser
  /\ ~Below(users[u], MaxPerUser)
  /\ UNCHANGED <<told, current, conns, users, gate, drains>>

(* Run returns once the connection's two goroutines have. *)
RunReturns(h) ==
  /\ Moves(h, "running", "leaving")
  /\ UNCHANGED <<told, current, conns, users, gate, drains>>

(* Mutant: the user's slot is not given back. *)
UntrackKeeps(h) ==
  /\ Moves(h, "leaving", "unwinding")
  /\ conns' = [conns EXCEPT ![h] = Untracked]
  /\ UNCHANGED <<told, current, users, gate, drains>>

Untrack(h) ==
  /\ Moves(h, "leaving", "unwinding")
  /\ conns' = [conns EXCEPT ![h] = Untracked]
  /\ users' = IF conns[h] \in Users THEN [users EXCEPT ![conns[h]] = @ - 1] ELSE users
  /\ UNCHANGED <<told, current, gate, drains>>

(* The last one out closes the channel, for everybody who waits on it. *)
Release(h) ==
  /\ Moves(h, "unwinding", "gone")
  /\ current' = current - 1
  /\ LET wakes == IF current' = 0 THEN drained ELSE {}
     IN  /\ drained' = drained \ wakes
         /\ drain' = [d \in Drainers |-> IF d \in wakes THEN "woken" ELSE drain[d]]
  /\ UNCHANGED <<told, conns, users, gate, live, overran>>

Handshake(h) ==
  \/ Reserve(h)
  \/ UpgradeFails(h) \/ Upgrade(h) \/ AddFails(h)
  \/ Track(h) \/ TurnAway(h)
  \/ Untrack(h)
  \/ Release(h)

Connection(h) ==
  \/ \E u \in Users : AdmitUser(h, u) \/ RefuseUser(h, u)
  \/ RunReturns(h)

-----------------------------------------------------------------------------
(* Drain.                                                                  *)

Begin(d) ==
  /\ drain[d] = "idle"
  /\ draining' = TRUE /\ stopped' = TRUE
  /\ live' = [live EXCEPT ![d] = Tracked]
  /\ drain' = [drain EXCEPT ![d] = IF http THEN "shutting" ELSE "closing"]
  /\ UNCHANGED <<slots, http, listener, shut, drained, overran>>

(* http.Server.Shutdown closes the listener and then waits for the requests     *)
(* that have not been hijacked, which an upgraded connection has.  The Drain     *)
(* goes on whether that succeeds or server.drain_timeout runs out first.        *)
Shutdown(d) ==
  /\ drain[d] = "shutting"
  /\ shut' = TRUE
  /\ listener' = IF listener = "serving" THEN "stopped" ELSE listener
  /\ drain' = [drain EXCEPT ![d] = "emptying"]
  /\ UNCHANGED <<slots, draining, stopped, http, drained, live, overran>>

ShutdownSucceeds(d) ==
  /\ drain[d] = "emptying"
  /\ \A h \in Handshakes : handshake[h] # "upgrading"
  /\ drain' = [drain EXCEPT ![d] = "closing"]
  /\ UNCHANGED <<slots, gate, drained, live, overran>>

ShutdownOverruns(d) ==
  /\ drain[d] = "emptying"
  /\ drain' = [drain EXCEPT ![d] = "closing"]
  /\ overran' = overran \cup {d}
  /\ UNCHANGED <<slots, gate, drained, live>>

CloseLive(d, h) ==
  /\ drain[d] = "closing"
  /\ h \in live[d]
  /\ live' = [live EXCEPT ![d] = @ \ {h}]
  /\ told' = told \cup {h}
  /\ UNCHANGED <<handshake, current, conns, users, gate, drained, drain, overran>>

(* Mutants of wait: a channel of one's own; and waiting on tracked connections *)
(* instead of reservations.                                                 *)
WaitAlone(d) ==
  /\ drain[d] = "closing"
  /\ live[d] = {}
  /\ IF current = 0
     THEN drain' = [drain EXCEPT ![d] = "empty"] /\ UNCHANGED drained
     ELSE drain' = [drain EXCEPT ![d] = "waiting"] /\ drained' = {d}
  /\ UNCHANGED <<slots, gate, live, overran>>

WaitForTracked(d) ==
  /\ drain[d] = "closing"
  /\ live[d] = {}
  /\ IF Tracked = {}
     THEN drain' = [drain EXCEPT ![d] = "empty"] /\ UNCHANGED drained
     ELSE drain' = [drain EXCEPT ![d] = "waiting"] /\ drained' = drained \cup {d}
  /\ UNCHANGED <<slots, gate, live, overran>>

(* wait: nobody left, or share the channel release closes. *)
Wait(d) ==
  /\ drain[d] = "closing"
  /\ live[d] = {}
  /\ IF current = 0
     THEN drain' = [drain EXCEPT ![d] = "empty"] /\ UNCHANGED drained
     ELSE drain' = [drain EXCEPT ![d] = "waiting"] /\ drained' = drained \cup {d}
  /\ UNCHANGED <<slots, gate, live, overran>>

(* Drain cancels the server's context and returns.  It found nobody, or the last *)
(* one out woke it; what it reports is then what Shutdown reported.             *)
Return(d) ==
  /\ drain[d] \in {"empty", "woken"}
  /\ drain' = [drain EXCEPT ![d] = IF d \in overran THEN "gave up" ELSE "drained"]
  /\ UNCHANGED <<slots, gate, drained, live, overran>>

(* server.drain_timeout runs out during the wait; the select may find it so even *)
(* though it was woken.                                                     *)
GiveUp(d) ==
  /\ drain[d] \in {"waiting", "woken"}
  /\ drain' = [drain EXCEPT ![d] = "gave up"]
  /\ drained' = drained \ {d}
  /\ UNCHANGED <<slots, gate, live, overran>>

Drain(d) ==
  \/ Begin(d)
  \/ Shutdown(d) \/ ShutdownSucceeds(d)
  \/ \E h \in Handshakes : CloseLive(d, h)
  \/ Wait(d)
  \/ Return(d)

Overrun(d) == ShutdownOverruns(d) \/ GiveUp(d)

-----------------------------------------------------------------------------
Next ==
  \/ Publish \/ Serve \/ StopAccepting
  \/ \E h \in Handshakes : Handshake(h) \/ Connection(h)
  \/ \E d \in Drainers : Drain(d) \/ Overrun(d)

Spec == Init /\ [][Next]_srvVars

(* Goroutines run; an upgrade succeeds or fails by its deadline; Run returns     *)
(* once the connection was told to close or the server's context is cancelled   *)
(* (EndsCompletely, of Conn).  The drain's budget is not relied upon.           *)
Cancelled == \E d \in Drainers : drain[d] \in {"drained", "gave up"}

Fairness ==
  /\ \A h \in Handshakes :
       WF_srvVars(\/ handshake[h] # "idle" /\ Handshake(h)
                  \/ (h \in told \/ Cancelled) /\ RunReturns(h))
  /\ \A d \in Drainers : WF_srvVars(drain[d] # "idle" /\ Drain(d))

FairSpec == Spec /\ Fairness

-----------------------------------------------------------------------------
(* Correctness.                                                            *)

TypeOK ==
  /\ handshake \in [Handshakes -> Phases]
  /\ told \subseteq Handshakes
  /\ current \in Nat
  /\ conns \in [Handshakes -> Users \cup {NoUser, Untracked}]
  /\ users \in [Users -> Nat]
  /\ draining \in BOOLEAN /\ stopped \in BOOLEAN
  /\ http \in BOOLEAN /\ shut \in BOOLEAN
  /\ listener \in {"unbound", "held", "serving", "stopped", "closed"}
  /\ drained \subseteq Drainers
  /\ drain \in [Drainers -> {"idle", "shutting", "emptying", "closing", "waiting",
                             "empty", "woken", "drained", "gave up"}]
  /\ live \in [Drainers -> SUBSET Handshakes]
  /\ overran \subseteq Drainers

Inside == {h \in Handshakes : handshake[h] \in Reserved}

BoundTo(u) == {h \in Handshakes : conns[h] = u}

(* NFR-1, FR-25: counted on the sockets and not on the counters, no order of     *)
(* arrivals, answers and departures lets more in than the two caps allow.       *)
CapsHold ==
  /\ MaxConnections > 0 => Cardinality(Inside) <= MaxConnections
  /\ MaxPerUser > 0 => \A u \in Users : Cardinality(BoundTo(u)) <= MaxPerUser

(* Both counters follow the connections on every path out of a handshake, so a   *)
(* slot is never leaked and a user never locked out of their own account.       *)
SlotsFollow ==
  /\ current = Cardinality(Inside)
  /\ \A u \in Users : users[u] = Cardinality(BoundTo(u))

(* FR-19: once a drain has gone through its snapshot, every connection that      *)
(* runs has been told to close, those that were being admitted meanwhile too.   *)
EverybodyTold ==
  \A d \in Drainers : drain[d] \in {"waiting", "empty", "woken", "drained", "gave up"} =>
    \A h \in Handshakes : handshake[h] = "running" => h \in told

(* FR-19: a Drain that reports no error leaves nobody behind, not even a         *)
(* handshake that has no connection yet, and nobody enters later.              *)
DrainedIsEmpty ==
  \A d \in Drainers : drain[d] = "drained" => Inside = {}

(* FR-19, NFR-5: once a drain is past its Shutdown no listener serves, though    *)
(* Serve may have started before it, after it or in the middle of it.           *)
ListenerStops ==
  \A d \in Drainers : drain[d] \notin {"idle", "shutting"} => listener # "serving"

(* Every Drain returns, however many run, as soon as the connections it told     *)
(* have ended; none needs its timeout.                                     *)
DrainReturns ==
  \A d \in Drainers : drain[d] = "shutting" \/ drain[d] = "closing"
                        ~> drain[d] \in {"drained", "gave up"}

(* The counters, the map and the flags implement the sets of Admission.         *)
A == INSTANCE Admission WITH
       inside   <- Inside,
       owner    <- {p \in Handshakes \X Users : conns[p[1]] = p[2]},
       open     <- ~draining,
       complete <- \E d \in Drainers : drain[d] = "drained"

ImplementsAdmission == A!Spec
=============================================================================
