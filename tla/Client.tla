------------------------------- MODULE Client -------------------------------
(***************************************************************************)
(* The JavaScript client (client/js/sidecartunnel.js) talking to a gateway.   *)
(*                                                                         *)
(* An event handler and the promise continuations it settles run to the end   *)
(* before the next event, so each handler is one action.  The registry of     *)
(* channels outlives a connection; commands in flight do not.  Replies come in *)
(* the order of the commands, and pushes and a disconnect come in between.     *)
(* The gateway is what the client sees of it: what it holds for this           *)
(* connection, and the replies it gives.  A plain command (sync, publish,      *)
(* ping) is a Call.  The length of a delay is not modelled.                   *)
(***************************************************************************)
EXTENDS Naturals, Sequences, SequencesExt

CONSTANTS
  Channels,
  Calls,       \* plain commands, each issued once
  Impatient,   \* the application calls again before its last call on a channel settled
  InFlight     \* bound on commands and on frames in flight

ASSUME ClientAssumption ==
  /\ Impatient \in BOOLEAN
  /\ InFlight \in Nat \ {0}
  /\ IsFiniteSet(Calls)

VARIABLES
  sock,       \* the socket: "none", "dialing", "open"
  timer,      \* a reconnect is scheduled
  ready,      \* this._ready
  closed,     \* this._closed
  late,       \* history: close came too late to stop the next socket, which has not ended
  disc,       \* this._disconnect
  entry,      \* this._registry: the state of each channel's entry
  owed,       \* entries whose subscribe promise is not settled
  leaving,    \* channels whose unsubscribe promise is not settled
  call,       \* where each plain command is
  pending,    \* this._pending: commands sent and not answered, in order
  unread,     \* how many of them the gateway has not read
  down,       \* frames on their way to the client
  held,       \* what the gateway holds for this connection
  told,       \* history: what the gateway said of reconnecting on this connection
  wanted,     \* history: channels the application wants as far as it was told
  hung        \* history: channels with a promise nobody is left to settle

wire == <<pending, unread, down, held, told>>
vars == <<sock, timer, ready, closed, late, disc, entry, owed, leaving, call, wire, wanted, hung>>

(* A command.  A subscribe knows whether its entry is still the registry's, and *)
(* when it is not, whether that entry's promise is settled.                    *)
Command(cmd, c) == [cmd |-> cmd, of |-> c, own |-> TRUE, owes |-> FALSE, subs |-> {}]

None == "none"

Init ==
  /\ sock = "dialing"
  /\ timer = FALSE
  /\ ready = FALSE
  /\ closed = FALSE
  /\ late = FALSE
  /\ disc = None
  /\ entry = [c \in Channels |-> "absent"]
  /\ owed = {}
  /\ leaving = {}
  /\ call = [q \in Calls |-> "unasked"]
  /\ pending = <<>>
  /\ unread = 0
  /\ down = <<>>
  /\ held = {}
  /\ told = None
  /\ wanted = {}
  /\ hung = {}

Known == {c \in Channels : entry[c] # "absent"}

(* A command written on the socket. *)
Send(s) == pending' = pending \o s /\ unread' = unread + Len(s)

(* The registry stops holding the entry a pending subscribe was for. *)
Disown(s, c) ==
  [i \in DOMAIN s |->
     IF s[i].cmd = "subscribe" /\ s[i].of = c /\ s[i].own
     THEN [s[i] EXCEPT !.own = FALSE, !.owes = c \in owed]
     ELSE s[i]]

DisownSettled(s, C) ==
  [i \in DOMAIN s |->
     IF s[i].cmd = "subscribe" /\ s[i].of \in C THEN [s[i] EXCEPT !.own = FALSE] ELSE s[i]]

(* The entries of C are deleted and their promises settled. *)
Forget(C) ==
  /\ entry' = [c \in Channels |-> IF c \in C THEN "absent" ELSE entry[c]]
  /\ owed' = owed \ C

-----------------------------------------------------------------------------
(* The application.                                                        *)

MayCall(c) == Impatient \/ c \notin owed \cup leaving

(* subscribe, not ready: the entry waits for the connect frame. *)
SubscribeEarly(c) ==
  /\ ~closed /\ ~ready
  /\ entry[c] = "absent"
  /\ MayCall(c)
  /\ entry' = [entry EXCEPT ![c] = "pending"]
  /\ owed' = owed \cup {c}
  /\ wanted' = wanted \cup {c}
  /\ UNCHANGED <<sock, timer, ready, closed, late, disc, leaving, call, wire, hung>>

(* subscribe, ready.  An entry that is being unsubscribed is replaced.          *)
Subscribe(c) ==
  /\ ~closed /\ ready
  /\ entry[c] \in {"absent", "unsubscribing"}
  /\ MayCall(c)
  /\ Len(pending) < InFlight
  /\ entry' = [entry EXCEPT ![c] = "pending"]
  /\ pending' = Append(Disown(pending, c), Command("subscribe", c))
  /\ unread' = unread + 1
  /\ owed' = owed \cup {c}
  /\ wanted' = wanted \cup {c}
  /\ UNCHANGED <<sock, timer, ready, closed, late, disc, leaving, call, down, held, told,
                 hung>>

(* unsubscribe, not ready: dropped locally, and the subscribe is resolved, which   *)
(* the application need not have awaited.                                     *)
UnsubscribeEarly(c) ==
  /\ ~ready
  /\ c \in Known
  /\ Forget({c})
  /\ wanted' = wanted \ {c}
  /\ UNCHANGED <<sock, timer, ready, closed, late, disc, leaving, call, wire, hung>>

Unsubscribe(c) ==
  /\ ready
  /\ c \in Known
  /\ MayCall(c)
  /\ Len(pending) < InFlight
  /\ entry' = [entry EXCEPT ![c] = "unsubscribing"]
  /\ Send(<<Command("unsubscribe", c)>>)
  /\ leaving' = leaving \cup {c}
  /\ wanted' = wanted \ {c}
  /\ UNCHANGED <<sock, timer, ready, closed, late, disc, owed, call, down, held, told, hung>>

(* _request for sync, publish or ping. *)
Ask(q) ==
  /\ call[q] = "unasked"
  /\ \/ closed /\ call' = [call EXCEPT ![q] = "settled"] /\ UNCHANGED <<pending, unread>>
     \/ ~closed /\ ~ready /\ call' = [call EXCEPT ![q] = "queued"] /\ UNCHANGED <<pending, unread>>
     \/ /\ ~closed /\ ready
        /\ Len(pending) < InFlight
        /\ call' = [call EXCEPT ![q] = "sent"]
        /\ Send(<<Command("call", q)>>)
  /\ UNCHANGED <<sock, timer, ready, closed, late, disc, entry, owed, leaving, down, held,
                 told, wanted, hung>>

SettleCalls ==
  call' = [q \in Calls |-> IF call[q] \in {"queued", "sent"} THEN "settled" ELSE call[q]]

(* Nothing of a connection that is over is heard of again. *)
CutWire ==
  /\ pending' = <<>>
  /\ unread' = 0
  /\ down' = <<>>
  /\ held' = {}
  /\ told' = None

(* _abandon: nothing the application awaits is left, and no channel. *)
Abandon ==
  /\ SettleCalls
  /\ leaving' = {}
  /\ Forget(Channels)
  /\ wanted' = {}

(* Mutant: close leaves what waits for a connect frame. *)
CloseWithSocketOnly ==
  /\ ~closed
  /\ closed' = TRUE
  /\ timer' = FALSE
  /\ sock' = "none"
  /\ ready' = FALSE
  /\ CutWire
  /\ UNCHANGED <<late, disc, call, entry, owed, wanted, leaving, hung>>

Close ==
  /\ ~closed
  /\ closed' = TRUE
  /\ timer' = FALSE
  /\ sock' = "none"
  /\ ready' = FALSE
  /\ Abandon
  /\ CutWire
  /\ UNCHANGED <<late, disc, hung>>

(* close, called by the application inside onStateChange('connecting'): at that     *)
(* point neither the timer nor the socket is there to be stopped, and the handler   *)
(* that called goes on and makes one.                                          *)
CloseInside ==
  /\ ~closed
  /\ closed' = TRUE
  /\ late' = TRUE
  /\ Abandon

-----------------------------------------------------------------------------
(* The socket's events and the timer.                                        *)

(* onopen and _sendConnect. *)
Open ==
  /\ sock = "dialing"
  /\ sock' = "open"
  /\ Send(<<[Command("connect", None) EXCEPT
              !.subs = {c \in Known : entry[c] # "unsubscribing"}]>>)
  /\ UNCHANGED <<timer, ready, closed, late, disc, entry, owed, leaving, call, down, held,
                 told, wanted, hung>>

(* The timer runs _openSocket, which calls onStateChange and dials. *)
Dial ==
  /\ timer
  /\ timer' = FALSE
  /\ sock' = "dialing"
  /\ UNCHANGED <<ready, disc, wire, hung>>
  /\ \/ CloseInside
     \/ UNCHANGED <<closed, late, entry, owed, leaving, call, wanted>>

Unsettled == {pending[i].of : i \in {j \in DOMAIN pending : pending[j].owes}}

(* Mutant: a client that is closed already looks at the frame and the code only. *)
FinalByFrame(code) == IF disc # None THEN disc = "stop" ELSE code = "hard"

(* No socket follows one that closed: the client is closed, or the gateway said so. *)
(* A disconnect frame decides first, the code only without one.                  *)
Final(code) == closed \/ (IF disc # None THEN disc = "stop" ELSE code = "hard")

(* The registry goes on to the next connection, without what was being unsubscribed. *)
Keep ==
  LET left == {c \in Channels : entry[c] = "unsubscribing"}
  IN  /\ SettleCalls
      /\ leaving' = {}
      /\ entry' = [c \in Channels |-> IF c \in Known \ left THEN "pending" ELSE "absent"]
      /\ owed' = owed \ left
      /\ late' = FALSE
      /\ UNCHANGED <<closed, wanted>>

(* _scheduleReconnect calls onStateChange and then sets the timer. *)
Follows(code) ==
  \/ Final(code) /\ closed' = TRUE /\ timer' = FALSE /\ late' = FALSE /\ Abandon
  \/ ~Final(code) /\ timer' = TRUE /\ (Keep \/ CloseInside)

(* Mutant: the disconnect frame is remembered past its connection. *)
OnCloseKeepsFrame(code) ==
  /\ sock' = "none"
  /\ ready' = FALSE
  /\ CutWire
  /\ Follows(code)
  /\ UNCHANGED <<disc, hung>>

(* _onClose, by how the socket closed: "soft" with a code that allows a         *)
(* reconnect, "hard" with one that does not.                                  *)
OnClose(code) ==
  /\ sock' = "none"
  /\ ready' = FALSE
  /\ disc' = None
  /\ hung' = hung \cup Unsettled
  /\ CutWire
  /\ Follows(code)

(* The network, a proxy or a failed dial ends the socket, or the gateway does    *)
(* with a close frame alone.                                                 *)
Drop(code) ==
  /\ sock # "none"
  /\ OnClose(code)

-----------------------------------------------------------------------------
(* Frames.                                                                 *)

Arrives(kind) ==
  /\ down # <<>>
  /\ Head(down).kind = kind
  /\ down' = Tail(down)

(* The commands that waited for the connect reply, in any order here. *)
Queued == {q \in Calls : call[q] = "queued"}
Waited == SetToSeq({Command("call", q) : q \in Queued})

(* Mutant: a subscription that is not granted keeps its entry. *)
OnConnectedKeeping ==
  /\ Arrives("connect")
  /\ ready' = TRUE
  /\ entry' = [c \in Channels |-> IF entry[c] # "absent" THEN "active" ELSE entry[c]]
  /\ owed' = {}
  /\ pending' = Tail(pending) \o Waited
  /\ unread' = unread + Len(Waited)
  /\ call' = [q \in Calls |-> IF q \in Queued THEN "sent" ELSE call[q]]
  /\ UNCHANGED <<sock, timer, closed, late, disc, leaving, held, told, wanted, hung>>

(* Mutant: what was queued is not sent. *)
OnConnectedForgets ==
  /\ Arrives("connect")
  /\ ready' = TRUE
  /\ entry' = [c \in Channels |->
                 IF c \in Known /\ c \in Head(down).grants THEN "active" ELSE "absent"]
  /\ owed' = {}
  /\ wanted' = wanted \cap Head(down).grants
  /\ pending' = Tail(pending)
  /\ UNCHANGED <<sock, timer, closed, late, disc, leaving, call, unread, held, told, hung>>

(* _onConnected: granted entries are active, the others are denied. *)
OnConnected ==
  /\ Arrives("connect")
  /\ ready' = TRUE
  /\ entry' = [c \in Channels |->
                 IF c \in Known /\ c \in Head(down).grants THEN "active" ELSE "absent"]
  /\ owed' = {}
  /\ wanted' = wanted \cap Head(down).grants
  /\ pending' = Tail(pending) \o Waited
  /\ unread' = unread + Len(Waited)
  /\ call' = [q \in Calls |-> IF q \in Queued THEN "sent" ELSE call[q]]
  /\ UNCHANGED <<sock, timer, closed, late, disc, leaving, held, told, hung>>

(* The reply to a subscribe, for the entry it was sent for. *)
OnSubscribed ==
  /\ Arrives("subscribe")
  /\ LET cmd == Head(pending)
         c   == cmd.of
     IN  IF cmd.own
         THEN /\ entry' = [entry EXCEPT ![c] = IF Head(down).ok THEN "active" ELSE "absent"]
              /\ owed' = owed \ {c}
              /\ wanted' = IF Head(down).ok THEN wanted ELSE wanted \ {c}
         ELSE UNCHANGED <<entry, owed, wanted>>
  /\ pending' = Tail(pending)
  /\ UNCHANGED <<sock, timer, ready, closed, late, disc, leaving, call, unread, held, told,
                 hung>>

(* The reply to an unsubscribe, or 105: the channel goes, whoever's entry it is;   *)
(* the promise of the entry is not settled by that.                            *)
OnUnsubscribed ==
  /\ Arrives("unsubscribe")
  /\ LET c == Head(pending).of
     IN  /\ entry' = [entry EXCEPT ![c] = "absent"]
         /\ owed' = owed \ {c}
         /\ leaving' = leaving \ {c}
         /\ pending' = Disown(Tail(pending), c)
  /\ UNCHANGED <<sock, timer, ready, closed, late, disc, call, unread, held, told, wanted,
                 hung>>

OnReply ==
  /\ Arrives("call")
  /\ call' = [call EXCEPT ![Head(pending).of] = "settled"]
  /\ pending' = Tail(pending)
  /\ UNCHANGED <<sock, timer, ready, closed, late, disc, entry, owed, leaving, unread, held,
                 told, wanted, hung>>

(* Mutant: a revoked channel is kept for the next connect frame. *)
OnRevokedKeeping ==
  /\ Arrives("revoked")
  /\ wanted' = wanted \ {Head(down).of}
  /\ UNCHANGED <<sock, timer, ready, closed, late, disc, entry, owed, leaving, call,
                 pending, unread, held, told, hung>>

(* _handlePush for `unsubscribed`. *)
OnRevoked ==
  /\ Arrives("revoked")
  /\ LET c == Head(down).of
     IN  /\ Forget({c})
         /\ pending' = DisownSettled(pending, {c})
         /\ wanted' = wanted \ {c}
  /\ UNCHANGED <<sock, timer, ready, closed, late, disc, leaving, call, unread, held, told,
                 hung>>

OnDisconnect ==
  /\ Arrives("disconnect")
  /\ disc' = told
  /\ UNCHANGED <<sock, timer, ready, closed, late, entry, owed, leaving, call, pending,
                 unread, held, told, wanted, hung>>

(* The gateway's close after its disconnect. *)
OnFinished ==
  /\ sock = "open"
  /\ told # None
  /\ down = <<>>
  /\ OnClose("soft")

-----------------------------------------------------------------------------
(* The gateway, as conn.go and the hub answer.                               *)

Serving == sock = "open" /\ told = None /\ Len(down) < InFlight

Answers(frame) == down' = Append(down, frame)

Reads(cmd) == unread > 0 /\ pending[Len(pending) - unread + 1].cmd = cmd

Next1 == pending[Len(pending) - unread + 1]

GatewayConnects(G) ==
  /\ Serving
  /\ Reads("connect")
  /\ G \subseteq Next1.subs
  /\ Answers([kind |-> "connect", grants |-> G])
  /\ held' = G
  /\ unread' = unread - 1
  /\ UNCHANGED <<sock, timer, ready, closed, late, disc, entry, owed, leaving, call,
                 pending, told, wanted, hung>>

GatewaySubscribes(grant) ==
  /\ Serving
  /\ Reads("subscribe")
  /\ LET c  == Next1.of
         ok == grant /\ c \notin held
     IN  /\ Answers([kind |-> "subscribe", ok |-> ok])
         /\ held' = IF ok THEN held \cup {c} ELSE held
  /\ unread' = unread - 1
  /\ UNCHANGED <<sock, timer, ready, closed, late, disc, entry, owed, leaving, call,
                 pending, told, wanted, hung>>

GatewayUnsubscribes ==
  /\ Serving
  /\ Reads("unsubscribe")
  /\ Answers([kind |-> "unsubscribe"])
  /\ held' = held \ {Next1.of}
  /\ unread' = unread - 1
  /\ UNCHANGED <<sock, timer, ready, closed, late, disc, entry, owed, leaving, call,
                 pending, told, wanted, hung>>

GatewayReplies ==
  /\ Serving
  /\ Reads("call")
  /\ Answers([kind |-> "call"])
  /\ unread' = unread - 1
  /\ UNCHANGED <<sock, timer, ready, closed, late, disc, entry, owed, leaving, call,
                 pending, held, told, wanted, hung>>

GatewayRevokes(c) ==
  /\ Serving
  /\ c \in held
  /\ held' = held \ {c}
  /\ Answers([kind |-> "revoked", of |-> c])
  /\ UNCHANGED <<sock, timer, ready, closed, late, disc, entry, owed, leaving, call,
                 pending, unread, told, wanted, hung>>

(* With `reconnect` ("later") or without it ("stop"). *)
GatewayDisconnects(what) ==
  /\ Serving
  /\ told' = what
  /\ Answers([kind |-> "disconnect"])
  /\ UNCHANGED <<sock, timer, ready, closed, late, disc, entry, owed, leaving, call,
                 pending, unread, held, wanted, hung>>

-----------------------------------------------------------------------------
Application ==
  \/ \E c \in Channels : \/ SubscribeEarly(c) \/ Subscribe(c)
                         \/ UnsubscribeEarly(c) \/ Unsubscribe(c)
  \/ \E q \in Calls : Ask(q)
  \/ Close

Handlers == OnConnected \/ OnSubscribed \/ OnUnsubscribed \/ OnReply \/ OnRevoked \/ OnDisconnect
            \/ OnFinished

Network == \E code \in {"soft", "hard"} : Drop(code)

Gateway ==
  \/ \E G \in SUBSET Channels : GatewayConnects(G)
  \/ \E grant \in BOOLEAN : GatewaySubscribes(grant)
  \/ GatewayUnsubscribes
  \/ GatewayReplies

Next ==
  \/ Application
  \/ Open \/ Dial
  \/ Handlers
  \/ Network
  \/ Gateway
  \/ \E c \in Channels : GatewayRevokes(c)
  \/ \E what \in {"later", "stop"} : GatewayDisconnects(what)

Spec == Init /\ [][Next]_vars

(* The event loop runs what is ready, timers fire, dials end and a gateway that   *)
(* is there answers.  Nothing obliges the application.                         *)
DialEnds == Open \/ (sock = "dialing" /\ Drop("soft"))

FairSpec ==
  Spec /\ WF_vars(DialEnds) /\ WF_vars(Dial) /\ WF_vars(Handlers) /\ WF_vars(Gateway)

-----------------------------------------------------------------------------
(* Correctness.                                                            *)

(* There are never two sockets: a timer runs only between two.  A closed client    *)
(* has neither, nor a channel; only an application that called close inside          *)
(* onStateChange (165, 289) leaves the one socket that was on its way, over which     *)
(* nothing is asked of the gateway, and none follows it.                          *)
OneSocketThenNone ==
  /\ timer => sock = "none"
  /\ closed => Known = {} /\ held = {} /\ (late \/ (~timer /\ sock = "none"))

(* 5.2, 8.4: what decides whether a close is final was said on the connection     *)
(* that closes.                                                            *)
DecisionIsThisConnections == sock # "none" => disc \in {None, told}

(* 4.1, 8.3: a channel the application takes for subscribed is one the gateway    *)
(* holds for this connection, or the push that revokes it is on its way.         *)
ActiveIsHeld ==
  ready =>
    \A c \in Channels :
      entry[c] = "active" =>
        c \in held \/ \E i \in DOMAIN down : down[i].kind = "revoked" /\ down[i].of = c

(* 8.5 and the comment in _onClose: a connect frame never carries a channel that   *)
(* was denied, revoked or given up by the application.                          *)
OnlyWantedReplayed ==
  [][sock = "dialing" /\ sock' = "open" => Last(pending').subs \subseteq wanted]_vars

(* The comment on the end of close: nothing the application awaits is left        *)
(* without somebody to settle it, and nothing at all once the client is closed.    *)
NoPromiseHangs ==
  /\ hung = {}
  /\ closed => owed = {} /\ leaving = {} /\ \A q \in Calls : call[q] \in {"unasked", "settled"}

(* A promise made while connections come and go is settled once one stays.        *)
PromisesSettle ==
  <>[](sock = "open" \/ closed) =>
    /\ \A c \in Channels : []<>(c \notin owed \cup leaving)
    /\ \A q \in Calls : []<>(call[q] \in {"unasked", "settled"})
=============================================================================
