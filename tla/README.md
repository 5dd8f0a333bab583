# sidecartunnel in TLA+

sidecartunnel is a websocket gateway that sits beside an HTTP application. Browsers open
sockets to it; it asks the application once who is connecting and what they may hear
(a webhook); it subscribes in Redis to what its connections hold; it copies what the
application publishes to the connections that hold the channel; and it obeys signed control
messages that disconnect a user or take a channel away. Messages are lost on purpose
(at-most-once); revocations must not be.

This directory holds the specifications of the parts of it that are hard to test, the TLC
runs that check them on small instances, and proofs of their safety for every instance.
`PROJECT.json` lists the runs, the source lines each definition stands for, the hazards the
properties are for, and the theorems.

    tlc -workers 2 -config Registry.cfg MCRegistry.tla     # a run
    tlapm HubProofs.tla                                    # proofs

## 1. Inventory of the system

Paths are under `src/internal/` unless they say otherwise. "Correct when" is what the
properties were written from.

| Part | State | Operations | Talks to |
|---|---|---|---|
| hub registry (`hub/hub.go`) | `subs`, `channels`, `users`, `userOf`, `clients`, `desired` under one RWMutex | `Add`, `Attach`, `Subscribe`, `Unsubscribe`, `Remove`, `Dispatch` | called by readers, closers, dispatch workers, control; marks the reconciler |
| fan-out and closer (`hub/fanout.go`) | `closeq`, `closeDone`, overflow closers, the WaitGroup | `enqueueClose`, `closeLoop`, `closeSlow`, `Hub.Close` | called under the read lock by handlers; calls `Remove` and `Sink.Close` |
| control (`hub/control.go`) | none of its own | `Control`, `Disconnect`, `controlUnsubscribe` | the consumer's control goroutine; the registry |
| reconciler (`hub/reconcile.go`) | `dirty`, `wake`, the loop | `markDirty`, `snapshot`, `reconcile`, `backoff` | reads `desired`; calls `Bus.Sync` |
| Redis bus (`bus/redis.go`) | `desired` (last recorded), `current`, the subscriber, acknowledgements, the intake channel | `Sync`, `supervise`, `adopt`, `release`, `apply`, `Publish`, `Receive` | Redis; the reconciler; the consumer |
| connection (`conn/`) | outbound queue, `closed`, `closing`, `connectSeen`, grant lifetime, timers | `Run` (reader, writer), `Send`, `Close`, the five commands | the hub, the authorizer, the socket |
| server (`server/`) | `current`, `conns`, `users`, `draining`, `stopped`, `http`, `drained` | `ServeHTTP`, `reserve`/`release`, `track`/`untrack`, `admitUser`, `Serve`, `StopAccepting`, `Drain` | connections; the hub; the webhook |
| consumer (`consumer/`) | `controlq`, counters | `Run`: dispatch workers, control goroutine | bus, hub, the webhook cache |
| webhook (`webhook/`) | in-flight and waiting limits, the decision cache | `Call`, retries, `Flush` | the application over HTTP |
| rate limiter (`server/ratelimit.go`) | fixed windows per namespace, a violation window | `allow` | a connection's publishes |
| glob (`glob/`) | none | `Compile`, `Match`, `NewSet` | the grants of a connection |
| command (`src/cmd/sidecartunnel/`) | the object graph, the signal channel | build, serve, close | server, consumer, hub, bus |
| JavaScript client (`src/client/js/`) | channel registry, pending commands, the socket and the reconnect timer | connect, `subscribe`, `unsubscribe`, `close`, plain commands, the socket's callbacks | the gateway |
| memory bus, protocol codec, configuration, probes | none that changes | pure functions and I/O | everybody |

What is hard in it, and what each part has to guarantee:

* **Registry.** A connection's reader, the closer, the fan-out and the control goroutine all
  mutate or read five maps, and each of them works in *several* critical sections: resolve
  and then close, remove and then close, unlock and then mark dirty. Correct when the maps
  stay views of one relation, `desired` is exactly what somebody holds plus the control key,
  a closed connection never comes back, and a finished revocation leaves nobody behind.
* **Reconciler and bus.** Writers move `desired` and later set a flag and offer a token that
  may be dropped; a Sync may fail half way; a reconnect starts from nothing. Correct when no
  intent and no wake-up is lost and the upstream set converges.
* **Closer and `Hub.Close`.** A handler may not block, so a close goes to a queue, an overflow
  goroutine or the caller itself, around a shutdown. Correct when no close is dropped, nothing
  outlives `Close`, and nothing is added to a WaitGroup that is being waited on.
* **Connection.** Two goroutines, three alarms, and four kinds of outsiders race to end it;
  `Send` checks and then offers. Correct when it ends exactly once and completely, when
  publications arrive only inside a subscription, and when a grant's lifetime and the
  handshake budget are enforced however busy the writer is.
* **Server.** Handshakes interleave with each other, with the application's answers and with a
  drain. Correct when neither cap is ever passed, no slot leaks, and a drain misses nobody.
* **Webhook.** Two semaphores in front of the application, a retry loop that must tell a
  decision from a failure, and a cache that the control goroutine flushes while calls are under
  way. Correct when no path out of a call leaks a slot, only the application refuses a user, and
  a flush leaves nothing behind but what was already in flight.
* **Consumer and command.** Workers take from one intake and hand control messages to a queue of
  their own; a stop may come from a first or second signal, a failed listener or a failed
  build, while any of them waits for another. Correct when everything is torn down in the
  order the comments promise, nothing is left running, and a revocation is not lost to a full queue.
* **Heartbeat.** One goroutine owns the ping ticker, the pong deadline and the writes, and the
  goroutine that reads pongs also waits for a webhook. Correct when a dead peer is closed in
  time and a live one is not closed for a pong it sent.
* **Rate limiter and glob.** Fixed windows that follow the first event; six cheap forms that
  stand for one pattern language. Correct when a client that keeps to its rate is never
  refused, a burst is bounded, and a grant covers what the glob it is written as covers.
* **JavaScript client.** Replies, pushes and drops cross the calls the application makes, and the
  registry survives a reconnect that pending commands do not. Correct when what the application
  takes for subscribed the gateway holds, only what is still wanted is replayed, every promise
  is settled, and a client that was closed comes to rest, also when it is closed by a callback
  of its own.

## 2. Modules

| Module | Models | State and actions |
|---|---|---|
| `Membership` | abstract: what the registry promises | one relation *holds*, the members, the departed, and the interest computed from it |
| `Registry` | `hub/hub.go`, `fanout.go: deliver, closeSlow`, `control.go` | the maps as sets and functions; one action per critical section; what lies between two sections of one goroutine is a variable (`owing`, `slow`, `doomed`, `life`, `control`, `step`) |
| `Reconciler` | `hub/reconcile.go`, `bus/redis.go: Sync, supervise, adopt, release` | flag, token, phase of the loop; link, recorded, applied and upstream sets |
| `Hub` | registry, reconciler and bus together | `EXTENDS Registry`, instantiates `Reconciler`; they share `desired` and `owing` |
| `SlowCloser` | `enqueueClose`, `closeLoop`, `Hub.Close` | where each requested close is; how far `Close` is |
| `Gateway` | `consumer/consumer.go`, `cmd/sidecartunnel/gateway.go`, `bus/redis.go: supervise, read, Close` | `EXTENDS SlowCloser`; the intake, the workers' hands, the control queue, the supervisor and its socket, and how far serve and close have come |
| `Conn` | `conn/conn.go`, `conn/command.go` | reader, writer and `doClose` as program counters, the outbound queue, and what the client has been told |
| `Heartbeat` | the deadlines of `conn/conn.go`, under `config/validate.go` | time as what remains to each deadline; the configuration is a variable chosen at the start |
| `Session` | `glob/`, `webhook.go: parse, clampExpiry`, `doPublish`, `registry.Publish`, `ratelimit.go` | the compiled grants and their lifetime; the limiter's windows, with time |
| `Admission` | abstract: what the server promises | who is inside, whose they are, whether the replica is open, whether a drain has completed |
| `Server` | `server/server.go`, `handler.go`, `probes.go: StopAccepting` | the counters, maps and flags; a program counter per handshake and per `Drain` |
| `Webhook` | `webhook/webhook.go`, `webhook/cache.go` | the two channels as counters, a phase and the last answer per call, the cached cookies; the application's suspensions and the flush |
| `Client` | `src/client/js/sidecartunnel.js` | the registry, the commands in flight and the frames on their way; what the gateway holds; one action per event handler, with the application's choice to close inside the two that call `onStateChange` on the way to a socket |
| `MC...` | instances for TLC | model values and the functions a `.cfg` cannot write |
| `...Proofs` | theorems | section 6 |

Conventions. A critical section is one action; the code between two sections of one goroutine
is a step boundary. A channel name and its bus key are one value (`Hub.key` is injective).
Frames are named by what they tell the client. Definitions whose comment begins with
"Mutant" are plausible bugs: each is substituted for the definition it varies, and the run
must then fail; they are not reachable from any specification.

How the parts share things. `Hub` and `Gateway` are compositions proper: one state, the
component's actions unchanged, the other's around them. `Gateway` supplies the callers that
`SlowCloser` leaves open (a worker in `Dispatch`, the control goroutine, a reader) and runs
`Hub.Close` where serve does. Elsewhere a module stands for what its neighbour may do:
`Registry` leaves open whether a queue refuses a frame, and `Conn` decides it; `Conn` shows
the hub's lock only as what may not interleave with a `Send` made under it; the two steps of
`closeSlow` are actions of `Registry` and of `Conn`; `Server` takes "a connection told to
close ends" from `Conn` (`EndsCompletely`) as its fairness; `Conn`'s reader takes the webhook's
result as a choice, and `Webhook` is that call; `Webhook`'s `Flush` is what the control goroutine
does after the last step of `Registry`'s disconnect. `Heartbeat` and `Conn` are two views of
the same writer: `Conn` has the whole shutdown with alarms that may come at any time,
`Heartbeat` has the arithmetic of the alarms and stops at the close code.

Boundaries chosen. `Registry.Attach` grants any set of keys the application may name, filtered
and capped as the code does. `Disconnect` of the hub is the `ControlUser` step. A control
message reaches only one action at a time because the consumer applies them on one goroutine.
In `Gateway` a dispatch is one step that may ask for a close, and whether a control message
verifies is a choice. In `Server` a request that the listener accepted before it closed may
reach the handler afterwards. In `Webhook` a session is one cookie, and a suspended user is
one cookie that the application authorizes no more; it suspends before it publishes the
disconnect. Budgets, timeouts and the cache's TTL are alarms that may come at any time,
except in `Heartbeat` and `Session`, which have time: there computing takes none and waiting
does. In `Session` a name is a sequence of characters, since a glob is about characters,
and a duration has `Width` bits, since `clampExpiry` multiplies. In `Client` the gateway
answers commands in order and may push, revoke or disconnect in between.

## 3. Runs

| Run | Question | Instance |
|---|---|---|
| `Registry` | do five maps behave as one relation, and is a revocation complete? | 2 connections, 2 users, 3 keys and the control key, cap of two subscriptions; 798 196 states |
| `RegistryRevoke` | does a disconnect close *every* connection of the user? (**violated**) | 1 user, 1 key, no cap |
| `Hub` | does Redis come to deliver what connections hold, whatever fails on the way? | 1 connection, 1 key and the control key, no pattern; the registry's callers, the reconciler and the bus, failing Syncs and lost links; fairness; 432 158 states |
| `Gateway` | is a close, a revocation or a goroutine lost around a stop? | 2 workers, 1 reader, 1 connection to close, every queue of one, one event and one revocation; fairness |
| `Conn` | does a connection end completely, in time, and with its pushes in order? | one dispatch worker, queue of one frame; fairness; 122 826 states |
| `Heartbeat` | is a dead peer found in time and a live one left alone? | pings of 3 and 4, pongs of 2 and 3, handshake 1, connect 5, write and round trip of 1; links that stall and links that do not; fairness; 189 041 states |
| `Session` | does a grant cover what it says, and whom does the limiter refuse? | every pattern of up to 5 characters on every name of up to 4; lifetimes of 8 bits; 3 violations, windows of 2 to 4; 140 380 states |
| `SessionExpiry` | is a lifetime always clamped? (**violated**) | as `Session`, every `expires_in` of 8 bits |
| `Server` | caps, slots, drain | 3 handshakes of one user, 2 sockets, 1 per user, 2 drains; fairness; 467 365 states |
| `Webhook` | does every path give its slots back, is only a decision final, what does a flush leave, does every call return? | 3 calls, 2 of them with one cookie, the other uncacheable; 1 slot, 1 place to wait, 1 retry; fairness; 484 740 states |
| `Client` | do the application, the client and the gateway agree, over drops? | 2 channels, 1 plain command, 3 frames in flight; an application that awaits its last call on a channel before the next, and may close anywhere; fairness; 16 749 states |
| `ClientHangs` | is every promise settled? (**violated**) | 1 channel, an application that does not await |

Why the bounds are enough. Two connections give every pairwise race, a last holder and a
holder that stays; a third adds no new critical section. Three keys against a cap of two
refuse one; two users let a connection be filed under the wrong one. In `Hub` one connection
that comes, subscribes, unsubscribes and goes moves the desired set up and down any number
of times against a Sync, which is what a lost intent or wake-up needs. Queues of one in
`Gateway` and `Conn` are full whenever they are not empty, so every non-blocking send meets a
full queue and every blocking one waits; two workers let one hand over while the other
dispatches, and the closer's queue overflows as soon as two closes are asked for. In
`Heartbeat` the pairs include those the validation turns down, a pong timeout with room for a
stalled ping and one without, and an authorization longer than both. Patterns of five
characters are the shortest with two middle segments; three violations is the fewest for
which two windows can hide some. Three handshakes against a cap of two sockets and one per
user hit both caps and refuse after a departure; a second `Drain` is there because `Drain`
documents that it may be called twice at once, although the gateway calls it once. Three
calls for one slot and one place put one in the slot, one in the queue and one over it, and
two with one cookie let the second hit what the first put; one retry separates the last
attempt from one that is not the last. In `Client` two channels let one be replayed while the
other is not. What the instances cannot show, all sizes, is what section 6 is for.

The named bounds that the code does not have: `InFlight` (commands and frames on their way in
`Client`), `MaxLog` (the events of one `ViolationWindow` that `Session` remembers: the client waits
while they are that many, seven, which leaves room to pass each bound, as five allowed events
of one namespace or four refusals after the events that used up a window), and in
`Heartbeat` the counter of a dead peer's silence, which stops one past the longest that is
allowed. Each message of `Gateway` is delivered once.

`CHECK_DEADLOCK FALSE` stands where the system really stops: a process that has exited, a
connection that is closed, a server after its drain, a webhook client when every call has
returned, a client that was closed. In `Registry` and `Hub` TLC also shows that the part
never gets stuck.

## 4. What the properties say

*Registry.* `IndexesAgree` relates the user buckets and the ids to the connections across
every interleaving of refiling and removal; `NoResurrection` covers the reader that returns
from the webhook after its connection was removed; `RevocationIsComplete` is an action
property of the step that ends a disconnect; `ImplementsMembership` is refinement of the
abstract relation, and takes in that the two maps mirror each other and that `desired` is
what somebody holds plus the control key.

*Hub.* `HeldIsUpstream` (at rest Redis delivers what is held), `Converges` (it gets to rest: no
wake-up, failed Sync or lost link strands a channel), and `ImplementsReconciler`, which
carries over what is proved of the reconciler in any environment.

*Gateway.* `TearDownOrder` (the hub is closed only after every dispatch and control message,
the bus only after the reconciler), `NoSendOnClosedIntake` (no reader, supervisor or
connection outlives the bus), `DeliversUntilDrained` (the consumer outlives the connections, or
the exit code says so), `LeaksNothing` (of `Hub.Close`), and the liveness: `StopReturns`,
`ControlIsJudged` (a revocation in the intake is applied or the process is stopping) and
`EveryCloseHappens`.

*Conn.* `PushInOrder`, `EndsCompletely`, `TimersEnd` (handshake budget and grant lifetime are
enforced on a busy writer), `SlowCloses`.

*Heartbeat.* `DeadPeerGone` bounds the silence, for links whose writes do not stall;
`DeadPeerLeaves` is what holds when they do; `LivePeerKept` says when a peer that answers in
time can be closed all the same: only while its answer lies unread.

*Session.* `GrantsAreExact` compares the compiled set with the definition of a glob;
`CompliantServed`, `BurstBounded` and `AbuseJudged` compare the windows with a log the code
does not keep.

*Server.* `SlotsFollow` ties the counters to the sockets; `EverybodyTold` is the race of `track`
with the drain's snapshot; `DrainedIsEmpty` says what a successful drain means and
is left to its proof and to `ImplementsAdmission`, which implies it;
`ListenerStops` is the race of `Serve` with `Drain`; `DrainReturns` holds without counting on
the timeout; `ImplementsAdmission` is refinement, and takes in the caps.

*Webhook.* `PoolFollows` counts the calls that hold a slot or a place against the two channels on
every path; `OutcomeFollows` relates what a call returns to the last thing the application
said, over all retries; `StaleOnlyIfRacing` is what the flush achieves. `CallsReturn` is its
liveness: a call that has begun returns though the application never answers. `NearsReturn`,
which is proved, is why it cannot go round: each step of a call, retries included, lowers a
number (`Remaining`).

*Client.* `OneSocketThenNone`: a timer runs only between two sockets, and a closed client has
neither, unless it was closed inside `onStateChange`. `_scheduleReconnect` calls that callback
after it has looked at `_closed` and before it sets the timer, and `_openSocket` calls it before
it dials and never looks; the history variable `late` marks what such a close leaves, and only
that exempts it. Even then the registry is empty, the gateway holds nothing for the
connection, and no second socket follows. `DecisionIsThisConnections` (a close is judged by
what was said on that connection), `ActiveIsHeld`, `OnlyWantedReplayed`, `NoPromiseHangs`,
`PromisesSettle`. `CloseInside` is a disjunct of the two handlers and not an action of its own:
nothing else runs between the callback and what the handler does after it.

The type invariants are not checked by runs of their own: each is part of an invariant that
is proved.

### Fairness

* A goroutine that can run runs, and the mutex serves every waiter: weak fairness of each
  goroutine's own steps. Nobody outside is obliged to do anything: no client sends, no
  application publishes or calls, no signal comes, no link fails or recovers by fairness. What
  carries fairness beyond the process is that an I/O operation with a deadline ends.
* `Hub`: only the reconciler's and the bus's own steps, and the `markDirty` a caller owes. A
  Sync is answered or fails, a link that died is released, dialled again and resynced.
* `Gateway`: dials and waits end, the drain has its timeout, a socket that is down wakes its
  reader. `closeSlow`, `Dispatch` and `Control` return: `Registry` shows that they wait for
  nothing but the mutex, `Conn` that `Sink.Close` ends.
* `Conn` and `Heartbeat` use strong fairness where Go picks at random: a `select` branch that is
  ready again and again is taken (`SelectHandshake`, `SelectPing` and the like), and a writer of an
  RWMutex is not starved (`Remove`, `CloseSlowRemove`). A write ends by its deadline, a
  webhook call by its timeout, a read fails once the socket is closed, time goes on.
* `Server`: an upgrade succeeds or fails by its deadline, and `Run` returns once its connection
  was told to close or the server's context is cancelled, which `Conn` checks. The drain's
  timeout carries no fairness, so a drain that only ends by it violates `DrainReturns`.
* `Webhook`: a call's own steps, the budget that ends a wait for a slot and the timeout that ends
  a request. `Answer` has no fairness, nor has the start of a call.
* `Client`: the event loop runs what is ready, timers fire, a dial opens or fails, a gateway
  that is connected answers.

## 5. Where the code and its documents disagree

Shown by a run:

1. `RegistryRevoke`: a connection answers to its user from the moment the application has
   named it and is found under that user only after `Attach`. A disconnect in between finds
   nothing, and the connection then attaches. docs/01-requirements.md:119 says every
   connection of the named user is closed.
2. `ClientHangs`: `subscribe` over an entry that is being unsubscribed replaces it
   (sidecartunnel.js:411) though the entry's own subscribe may be unanswered. When the connection
   then ends, the reply handler leaves the promise to the registry (:419), which no longer
   has it. :497 says that close settles everything the application awaits.
   `Client` shows that an application that awaits each call is not affected. `ClientHangs`
   checks this property only; `ActiveIsHeld` and `OnlyWantedReplayed` fail for the same
   application too, in ways the last item below names.
3. `SessionExpiry`: `clampExpiry` compares with the upper bound only, then multiplies; a
   large negative `expires_in` wraps to a lifetime above `app.max_expiry`. webhook.go:686 and
   docs/04-integration.md:106 say it is clamped.

Met while modelling and not given a run:

* A subscribe reply that finds the queue full is dropped, the subscription stays, and a
  publication can be queued once the writer has made room (hub.go:628);
  docs/03-client-protocol.md:190 says a push never precedes its reply. The connection is on its
  way to the closer, which is the exception `PushInOrder` grants.
* An error, publish, sync or pong reply that finds the queue full is dropped and the
  connection stays (command.go:408); docs/01-requirements.md:99 says an overflow closes it.
* An authorization is cached when its call gets to it, whether or not a disconnect has
  flushed the cache since the application gave it (webhook.go:437); docs/10-operations.md:299 says
  the flush is there so that a revoked user cannot reconnect on a cached grant.
  `StaleOnlyIfRacing` shows that this is the only way.
* The bus drops a message, control or not, when the intake is full (redis.go:436), while the
  consumer's comment (consumer.go:215) has it that a revocation is never dropped: true from the
  intake on, which is what `ControlIsJudged` says.
* Nobody reads pongs while the reader is inside the connect webhook. With
  `app.connect_timeout` above ping plus pong, an authorization that is merely slow is closed
  for a missed pong. `LivePeerKept` grants exactly this.
* validate.go:46 keeps the pong timeout below the ping interval so that it can fire, which is
  enough only for writes that do not stall for the difference; hence the premise of
  `DeadPeerLeaves`.
* docs/03-client-protocol.md:140 ends a connection at ten violations within sixty seconds; the
  windows are fixed, so up to seventeen may straddle two of them. `AbuseJudged` has the bound.
* In the JavaScript client, a subscribe issued after the connect frame went out is refused
  with 103 although `subscribe` may be called while connecting. `Client` allows it
  (`SubscribeEarly` after `Open`); no property depends on it, since a denied entry goes and its
  promise is rejected.
* In the JavaScript client, `close()` called from inside `onStateChange('connecting')`
  (sidecartunnel.js:165, 289) leaves a closed client with a timer or a socket, which is still
  dialled; client/js/README.md:64 says of `close()` "Stop permanently". `Client` models it
  (`CloseInside`), and `OneSocketThenNone` says what the code still guarantees.
* In the JavaScript client, an unsubscribe before its subscribe is answered makes the entry
  active again when the answer comes, and a subscribe issued while an unsubscribe is in flight
  is deleted by the old reply. An application that awaits its calls on a channel meets
  neither (`MayCall`), and `Client` has such an application.

## 6. Proofs

All theorems hold for every value of the constants under the one assumption of each module
(`RegistryAssumption`, `SlowCloserAssumption`, `GatewayAssumption`, `ConnAssumption`,
`HeartbeatAssumption`, `SessionAssumption`, `ServerAssumption`, `WebhookAssumption`,
`ClientAssumption`: finite sets where something is counted, distinct placeholders, limits that
are naturals or positive; what `config/validate.go` and the code's types give). Two kinds of
theorem assume more, in their statements: `LivePeerIsKept`, that a live peer answers within
every pong timeout, without which it is not live; and three of `ClientProofs`, that the
application awaits its calls on a channel (`Impatient = FALSE`). Without that all three are
false: `ClientHangs` shows it of `NoPromiseHangs`, and section 5 says how the other two fail.

An invariant that a run checks is seldom inductive. What each proof had to add:

* **`HubProofs`**, in three parts. *The registry*: the invariant joins the maps (types, mirror,
  the desired set, reserved keys unheld), the indexes (buckets and ids agree with the
  registered set), and the lives (what `step`, `life`, `doomed` and `control` imply about
  registration), the last because `NoResurrection` depends on `Attach` finding nothing and
  `RevocationIsComplete` on who was attached when the message was accepted. From it: types,
  `MirrorAgrees`, `DesiredIsHeld`, `IndexesAgree`, `FiledUnderUser`, `NoResurrection`, the action
  property `RevocationIsComplete`, and that `Registry` implements `Membership`. *The
  reconciler*, in any environment (`R!Spec`): during a backoff the flag must be known to be up
  (`BackoffIsDirty`), and `ControlRecorded` needs the control key in the desired set and in
  the snapshot (`ControlKept`). *The hub*: the two halves are proved once and reused, since the
  composition implements each of them; the added invariant is `OwedOnce`, a caller owes
  the flag or the token and not both.
* **`GatewayProofs`**. First `SlowCloser` alone, by the shutdown's phases: the announcement
  implies cancellation, a `Close` past its wait means the loop and every overflow closer are
  gone, and after the final sweep the queue is empty and stays so since `closeDone` is read
  under `closeMu`. Then the gateway is shown to implement the closer with any callers
  (`GatewayImplementsCloser`): a dispatch, a control message or a reader's end is a step of a
  handler or a stutter, and `CloseHub` finds every handler gone. So `LeaksNothing` carries
  over. The invariant `GInv` goes link by link: who has left holds nothing
  (`LeftEmptyHanded`), `Run` passes a wait only when those it waits for have left (`RunWaits`),
  each stage of a stop comes after the one before it (`Chain`), and a supervisor between two
  connections has neither socket nor reader (`Unconnected`). From it the tear-down order, the
  intake that is closed last, and that the consumer outlives the connections.
* **`ConnProofs`**. The writer takes only from the head of the queue, so what the client will
  have been told when a frame is written is known while the frame is queued: `Believes` folds
  what it was told over the frames before. Every publication that is queued, about to be
  queued, or may yet be sent by a worker in the middle of a fan-out comes after an
  announcement. That takes the hub's lock, which keeps announcements and publications apart
  (`Locked`, `AcksFollow`), and holds as long as no acknowledgement was refused and no frame was
  lost to a failed write (`Faithful`); past that the writer writes nothing more.
* **`HeartbeatProofs`**. A live peer is kept because its answer is always ahead of the alarm
  (`AnswerAhead`). A dead one leaves in time because a writer that never stalls keeps the pong
  alarm on the ticker's grid (`OnGrid`), because at most one answer is under way and none once
  the alarm has passed (`OneAnswer`), so that no late pong speaks for a peer that is gone, and
  because its death is then at most one ping old when the ping is written that closes it
  (`Dying`). Holds for every configuration that validates, not only the pairs of the run.
* **`SessionProofs`**, the limiter. The code keeps an age and a count, the properties speak of
  the events. The invariant says where in the log a window began (`WindowFits`: some event is
  the last before it, and those after it are the ones counted) and which refusal dated the
  violations (`Judged`). Forgetting the front of the log moves both; the lemmas on counting
  say what that does to the numbers.
* **`SessionProofs`**, the grants. `Covers` reads a pattern character by character, the code
  splits it at the stars and searches for the pieces, so both are put in terms of places:
  a pattern covers a name when its first segment is at the front, its last at the end and the
  others can be placed in order between them (`Reaches`, `Float`). That the definition says so
  is an induction along the pattern (`EndsAre`: what a star and what another character add);
  that taking each middle segment at its leftmost place finds places whenever there are any is
  an induction along the segments (`LeftmostIsExact`); that empty middles may be dropped is a
  third (`EmptiesFloat`). The six forms of `Compile` are then six cases. The inductions do not
  use the library's induction theorems but the least counterexample, which its facts on
  well-founded relations give (`Least`, `UpTo`); the same argument shows that the recursive
  functions are what their equations say (`Recursion`).
* **`ServerProofs`**. `SlotsFollow` and `CapsHold` are carried together, since a cap on the
  counter is a cap on the sockets only while they agree; the drain's part adds that a
  connection is tracked exactly between `track` and `untrack` (`TrackedWhileRunning`), that a
  drain that began has shut both gates (`GatesShut`), that a running connection is told or still
  in the snapshot (`SnapshotCovers`), that the count stays at zero once a drain saw zero
  (`WokenAtZero`), and what is known of the listener (`ListenerKnown`, `WaitersWait`). The same
  invariant maps every step to one of `Admission` (`RefinesAdmission`).
* **`WebhookProofs`**. `PoolFollows` follows from counting the calls in a set of phases
  (`Counting`: a step moves one call). The rest needs two strengthenings: *Told*, what each
  phase implies about the last answer and the result, because a refusal is decided several
  steps before it is returned; and *WayIsRacing*, that an authorization still on its way to the
  cache for a revoked user is one the flush saw, because the put comes after the flush. For
  `NearsReturn` each way a call can go is compared with the number before it (`WaysGoDown`); only
  a request raises its phase's share, and it pays with one of those left (`OneFewer`), which takes
  from *Told* that one was left. A call thus takes at most `3 * Retries + 11` steps of its own.
* **`ClientProofs`**. The client finds a command by the id in the reply; the gateway answers in
  order. *Wire* says that the replies on their way answer, one by one, the commands the
  gateway has read, and that a subscription granted by a reply on its way is still held or its
  revocation comes behind it. *Patient* says who waits for what: a subscribe in flight has an
  entry that waits for it and no unsubscribe beside it, and an unsubscribe in flight is alone
  on its channel. *Over* says what there is of a closed client: no entry, nobody who awaits,
  nothing held, and a timer or a socket only of a late close, over which no frame goes but a
  connect without channels. That last part is what makes it inductive: the late socket opens
  and sends its connect frame, and the answer must bring nothing back. `Wire` and `Over` hold
  for every application, so do the types, `OneSocketThenNone` and `DecisionIsThisConnections`;
  `ActiveIsHeld`, `NoPromiseHangs` and `OnlyWantedReplayed` take `Patient` too.

Proved and not asked of a run, mostly since a run asks something that implies it or is larger:
`MapsMirrorEachOther`, `DesiredFollowsHolders`, `FiledCorrectly` (the registry), the five of
the reconciler, `NothingSpawnedLate` (the closer), `CapsAreKept` and `DrainedMeansEmpty` (the
server), `NeverRetriesRefusal` and `EveryStepNears` (the webhook) and the types.
`IndexesFollowRegistry` also covers two sockets that draw the same client id, which the
`Registry` instance does not: there each has its own.

Only model-checked: liveness, which is outside what the prover does (`Converges`,
`EveryCloseHappens`, `StopReturns`, `ControlIsJudged`, `DrainReturns`, `EndsCompletely`, `TimersEnd`,
`SlowCloses`, `DeadPeerLeaves`, `PromisesSettle`, `CallsReturn`).

## 7. Plan

Done, in this order: `Membership`, `Registry`; `Reconciler`, `Hub`; `SlowCloser`; `Conn`;
`Admission`, `Server`; `Webhook`; `Gateway`; `Heartbeat`, `Session`; `Client`; and the proofs of
all of them. Left:

1. `Server` inside `Gateway`: the drain at the grain of `Server`, instead of one step that
   succeeds or times out.

## 8. Not modelled

The memory bus is a test double with one map and one mutex. The protocol codec, signing,
header forwarding, the probes' answers and the healthcheck command are pure functions or pure
I/O; the origin check only decides whether a request arrives. Reading the configuration from
files and the environment is left out, and what the validation guarantees is an assumption or
`Heartbeat`'s `Valid`. `Publish` of the bus keeps no state: `Session` lets it succeed or fail.
`Health`, logs and counters are left out because no operation reads them. The length of a
backoff, in the bus and in the client, and the application's callbacks in the client are
left out, except what a callback can change that a call between two events cannot: a close
inside `onStateChange` on the way to the next socket.
