-------------------------------- MODULE Conn --------------------------------
(***************************************************************************)
(* One connection (internal/conn) from Run to the exit of its two           *)
(* goroutines, against what the hub does to it.  The reader handles commands, *)
(* the writer owns the socket and every timer, doClose runs once on whichever *)
(* goroutine gets there first, and dispatch workers, the control goroutine,   *)
(* the closer and the drain call in from outside.                           *)
(*                                                                         *)
(* One channel is watched.  `held` says whether the hub has the connection    *)
(* subscribed to it; the hub's lock shows only as what may not interleave.    *)
(* Send is two steps, the closed check and the offer, because doClose takes   *)
(* no lock and can run between them.  A frame is named by what it tells the    *)
(* client, and `told` is what the frames written so far have told it.         *)
(***************************************************************************)
EXTENDS Naturals, Sequences

CONSTANTS
  Workers,        \* dispatch workers
  OutboundQueue   \* limits.outbound_queue, the capacity of Conn.out

ASSUME ConnAssumption ==
  /\ OutboundQueue \in Nat \ {0}
  /\ Workers \cap {"reader", "control"} = {}

VARIABLES
  reader,      \* where the reader goroutine is
  writer,      \* where the writer goroutine is
  connectSeen, \* Conn.connectSeen; the Authorizer is taken right after it is set
  handshake,   \* whether the handshake alarm can still fire
  expiry,      \* the grant lifetime: "none", "sent" to the writer, "armed"
  out,         \* Conn.out
  sending,     \* the frame each caller of Send has checked `closed` for
  once,        \* how far doClose is
  notify,      \* whether it was given a code to tell the client
  registered,  \* the hub still has the connection
  held,        \* the hub has it subscribed to the channel
  slow,        \* "no", "handed" to the closer, "removed" by it, "closed"
  revoked,     \* the control goroutine is between its Remove and its Close
  sock,        \* "open" or "closed"
  told         \* the client was last told that it is subscribed

sides  == <<reader, writer, connectSeen, handshake, expiry>>
hubs   == <<registered, held, slow, revoked>>
client == <<sock, told>>
vars   == <<reader, writer, connectSeen, handshake, expiry, out, sending, once,
            notify, registered, held, slow, revoked, sock, told>>

Abort == 0   \* no close code: the peer is gone, there is nobody to tell

(* The frames, by what they say of the channel: that the client has it (a        *)
(* subscribe reply, a connect reply naming it), that it has not (an unsubscribe    *)
(* reply, the push of a control unsubscribe, any other connect reply), a         *)
(* publication on it; then every other reply, and disconnect.                  *)
Frames == {"subscribed", "unsubscribed", "pub", "reply", "disconnect"}

Nothing == "nothing"

Senders == {"reader", "control"} \cup Workers

IsClosed  == once # "unrun"
IsClosing == once \in {"signalled", "done"}

(* Mutant: the reader's acks are queued after the lock is released. *)
WriteUnlocked == sending["control"] # Nothing

(* The hub's lock: the reader's commands and the control goroutine hold it for  *)
(* writing while they send, the workers for reading.                         *)
WriteLocked == sending["control"] # Nothing \/ sending["reader"] \notin {Nothing, "reply"}
ReadLocked  == \E w \in Workers : sending[w] # Nothing
LockFree    == ~WriteLocked /\ ~ReadLocked

-----------------------------------------------------------------------------
Init ==
  /\ reader = "reading"
  /\ writer = "top"
  /\ connectSeen = FALSE
  /\ handshake = TRUE
  /\ expiry = "none"
  /\ out = <<>>
  /\ sending = [s \in Senders |-> Nothing]
  /\ once = "unrun"
  /\ notify = FALSE
  /\ registered = TRUE
  /\ held = FALSE
  /\ slow = "no"
  /\ revoked = FALSE
  /\ sock = "open"
  /\ told = FALSE

-----------------------------------------------------------------------------
(* Send *)

(* The closed check; a closed connection swallows the frame. *)
Check(s, f) == sending' = [sending EXCEPT ![s] = IF IsClosed THEN Nothing ELSE f]

(* The non-blocking offer.  A caller in the hub hands a refusing connection to  *)
(* the closer; Conn.send drops the answer.                                    *)
Offer(s) ==
  /\ sending[s] # Nothing
  /\ sending' = [sending EXCEPT ![s] = Nothing]
  /\ IF Len(out) < OutboundQueue
     THEN out' = Append(out, sending[s]) /\ UNCHANGED slow
     ELSE /\ slow' = IF slow = "no" /\ sending[s] # "reply" THEN "handed" ELSE slow
          /\ UNCHANGED out
  /\ UNCHANGED <<sides, once, notify, registered, held, revoked, client>>

-----------------------------------------------------------------------------
(* doClose: the closed flag and the code, the disconnect frame if there is     *)
(* room, the signal to the writer, and Remove, which needs the hub's lock.     *)

(* A goroutine calls Close or abort; only the first runs the body, the others   *)
(* wait for it.  Each says for itself where it goes on.                       *)
Close(c) ==
  IF once = "unrun"
  THEN once' = "flagged" /\ notify' = (c # Abort)
  ELSE UNCHANGED <<once, notify>>

Returned == once = "done"

OfferDisconnect ==
  /\ once = "flagged"
  /\ once' = "offered"
  /\ out' = IF notify /\ Len(out) < OutboundQueue
            THEN Append(out, "disconnect") ELSE out
  /\ UNCHANGED <<sides, sending, notify, hubs, client>>

Signal ==
  /\ once = "offered"
  /\ once' = "signalled"
  /\ UNCHANGED <<sides, out, sending, notify, hubs, client>>

Deregister == registered' = FALSE /\ held' = FALSE

Remove ==
  /\ once = "signalled"
  /\ LockFree
  /\ once' = "done"
  /\ Deregister
  /\ UNCHANGED <<sides, out, sending, notify, slow, revoked, client>>

CloseOnce == OfferDisconnect \/ Signal \/ Remove

-----------------------------------------------------------------------------
(* The reader.  It handles one frame at a time, and its hub commands hold the   *)
(* write lock from the map's change to the offer of the reply.                *)

Reading  == reader = "reading" /\ sock = "open" /\ sending["reader"] = Nothing
HubReady == Reading /\ connectSeen /\ LockFree

readerLeaves == <<writer, handshake, out, slow, revoked, client>>

(* A read error: the peer went away or the writer closed the socket. *)
ReadFails ==
  /\ reader = "reading"
  /\ sending["reader"] = Nothing
  /\ Close(Abort)
  /\ reader' = "leaving"
  /\ UNCHANGED <<readerLeaves, connectSeen, expiry, sending, registered, held>>

(* A binary or an oversize frame. *)
ProtocolError ==
  /\ Reading
  /\ Close(3006)
  /\ reader' = "leaving"
  /\ UNCHANGED <<readerLeaves, connectSeen, expiry, sending, registered, held>>

(* Everything answered without touching the hub's maps: a malformed frame, a    *)
(* command before connect or refused by a check, publish, sync and ping.      *)
Answer ==
  /\ Reading
  /\ Check("reader", "reply")
  /\ UNCHANGED <<readerLeaves, reader, connectSeen, expiry, once, notify,
                 registered, held>>

(* The rate limiter has had enough: Publish closes, then is answered. *)
RateLimited ==
  /\ Reading
  /\ connectSeen
  /\ Close(3007)
  /\ reader' = "answering"
  /\ UNCHANGED <<readerLeaves, connectSeen, expiry, sending, registered, held>>

AnswerRateLimited ==
  /\ reader = "answering"
  /\ Returned
  /\ reader' = "reading"
  /\ Check("reader", "reply")
  /\ UNCHANGED <<readerLeaves, connectSeen, expiry, once, notify, registered, held>>

(* A connect frame.  The first takes the Authorizer; a later one is a 101.     *)
Connect ==
  /\ Reading
  /\ connectSeen' = TRUE
  /\ IF connectSeen
     THEN Check("reader", "reply") /\ UNCHANGED reader
     ELSE reader' = "authorizing" /\ UNCHANGED sending
  /\ UNCHANGED <<readerLeaves, expiry, once, notify, registered, held>>

(* The application refuses (3003), or does not answer within connect_timeout.  *)
NotAuthorized(c) ==
  /\ reader = "authorizing"
  /\ Close(c)
  /\ reader' = "leaving"
  /\ UNCHANGED <<readerLeaves, connectSeen, expiry, sending, registered, held>>

(* It answers, and Attach subscribes the channel or does not.  A connection     *)
(* that is no longer registered is granted nothing.                           *)
Attach(granted) ==
  /\ reader = "authorizing"
  /\ LockFree
  /\ granted => registered
  /\ held' = granted
  /\ Check("reader", IF granted THEN "subscribed" ELSE "unsubscribed")
  /\ reader' = "attached"
  /\ UNCHANGED <<readerLeaves, connectSeen, expiry, once, notify, registered>>

(* The grant lifetime goes to the writer: the channel has room for the one.    *)
SendExpiry ==
  /\ reader = "attached"
  /\ sending["reader"] = Nothing
  /\ reader' = "reading"
  /\ expiry' \in {"none", "sent"}
  /\ UNCHANGED <<readerLeaves, connectSeen, sending, once, notify, registered, held>>

Subscribe ==
  /\ HubReady
  /\ registered
  /\ ~held
  /\ held' = TRUE
  /\ Check("reader", "subscribed")
  /\ UNCHANGED <<readerLeaves, reader, connectSeen, expiry, once, notify, registered>>

Unsubscribe ==
  /\ HubReady
  /\ held
  /\ held' = FALSE
  /\ Check("reader", "unsubscribed")
  /\ UNCHANGED <<readerLeaves, reader, connectSeen, expiry, once, notify, registered>>

ReaderExits ==
  /\ reader = "leaving"
  /\ Returned
  /\ reader' = "exited"
  /\ UNCHANGED <<readerLeaves, connectSeen, expiry, sending, once, notify,
                 registered, held>>

Reader ==
  \/ ReadFails \/ ProtocolError \/ Answer \/ RateLimited \/ AnswerRateLimited
  \/ Connect \/ NotAuthorized(3003) \/ NotAuthorized(3008)
  \/ (\E granted \in BOOLEAN : Attach(granted))
  \/ SendExpiry \/ Subscribe \/ Unsubscribe \/ ReaderExits

-----------------------------------------------------------------------------
(* The writer. *)

writerLeaves == <<reader, connectSeen, sending, hubs>>

Written(f) == told' = (f = "subscribed" \/ (told /\ f # "unsubscribed"))

(* The closing check that precedes every select. *)
Top ==
  /\ writer = "top"
  /\ writer' = IF IsClosing THEN "draining" ELSE "select"
  /\ UNCHANGED <<writerLeaves, handshake, expiry, out, once, notify, client>>

SelectClosing ==
  /\ writer = "select"
  /\ IsClosing
  /\ writer' = "draining"
  /\ UNCHANGED <<writerLeaves, handshake, expiry, out, once, notify, client>>

SelectFrame ==
  /\ writer = "select"
  /\ out # <<>>
  /\ out' = Tail(out)
  /\ \/ /\ Written(Head(out))
        /\ writer' = "top"
        /\ UNCHANGED <<once, notify>>
     \/ /\ Close(Abort)
        /\ writer' = "aborting"
        /\ UNCHANGED told
  /\ UNCHANGED <<writerLeaves, handshake, expiry, sock>>

(* Mutant: the alarm is spent without a verdict. *)
SelectHandshakeSpent ==
  /\ writer = "select"
  /\ handshake
  /\ handshake' = FALSE
  /\ writer' = "top"
  /\ UNCHANGED <<writerLeaves, expiry, out, once, notify, client>>

(* The handshake alarm: connectSeen is loaded, and only then is Close called.  *)
SelectHandshake ==
  /\ writer = "select"
  /\ handshake
  /\ handshake' = FALSE
  /\ writer' = IF connectSeen THEN "top" ELSE "timing out"
  /\ UNCHANGED <<writerLeaves, expiry, out, once, notify, client>>

HandshakeTimeout ==
  /\ writer = "timing out"
  /\ Close(3001)
  /\ writer' = "closing"
  /\ UNCHANGED <<writerLeaves, handshake, expiry, out, client>>

SelectExpires ==
  /\ writer = "select"
  /\ expiry = "sent"
  /\ expiry' = "armed"
  /\ writer' = "top"
  /\ UNCHANGED <<writerLeaves, handshake, out, once, notify, client>>

SelectExpiry ==
  /\ writer = "select"
  /\ expiry = "armed"
  /\ expiry' = "none"
  /\ Close(3503)
  /\ writer' = "closing"
  /\ UNCHANGED <<writerLeaves, handshake, out, client>>

(* The ping and its deadline are Heartbeat's: here the ping fails or a pong is  *)
(* found missing, at any time.                                               *)
SelectPing ==
  /\ writer = "select"
  /\ \/ Close(Abort) /\ writer' = "aborting"
     \/ Close(3004) /\ writer' = "closing"
  /\ UNCHANGED <<writerLeaves, handshake, expiry, out, client>>

(* The context of Run is done. *)
SelectContext ==
  /\ writer = "select"
  /\ Close(3000)
  /\ writer' = "closing"
  /\ UNCHANGED <<writerLeaves, handshake, expiry, out, client>>

CloseReturned ==
  /\ writer \in {"closing", "aborting"}
  /\ Returned
  /\ writer' = IF writer = "closing" THEN "top" ELSE "shut"
  /\ UNCHANGED <<writerLeaves, handshake, expiry, out, once, notify, client>>

(* shutdown: drain the queue, write the close frame, close the socket. *)
Drain ==
  /\ writer = "draining"
  /\ IF out = <<>>
     THEN writer' = "shut" /\ UNCHANGED <<out, told>>
     ELSE /\ out' = Tail(out)
          /\ \/ Written(Head(out)) /\ UNCHANGED writer
             \/ writer' = "shut" /\ UNCHANGED told
  /\ UNCHANGED <<writerLeaves, handshake, expiry, once, notify, sock>>

(* Mutant: the writer leaves the socket to the reader. *)
LeaveSocket ==
  /\ writer = "shut"
  /\ writer' = "exited"
  /\ UNCHANGED <<writerLeaves, handshake, expiry, out, once, notify, client>>

CloseSocket ==
  /\ writer = "shut"
  /\ writer' = "exited"
  /\ sock' = "closed"
  /\ UNCHANGED <<writerLeaves, handshake, expiry, out, once, notify, told>>

Writer ==
  \/ Top \/ SelectClosing \/ SelectFrame \/ SelectHandshake \/ HandshakeTimeout
  \/ SelectExpires \/ SelectExpiry \/ SelectPing \/ SelectContext
  \/ CloseReturned \/ Drain \/ CloseSocket

-----------------------------------------------------------------------------
(* The rest of the gateway. *)

Dispatch(w) ==
  /\ sending[w] = Nothing
  /\ ~WriteLocked
  /\ held
  /\ Check(w, "pub")
  /\ UNCHANGED <<sides, out, once, notify, hubs, client>>

ControlUnsubscribe ==
  /\ LockFree
  /\ held
  /\ held' = FALSE
  /\ Check("control", "unsubscribed")
  /\ UNCHANGED <<sides, out, once, notify, registered, slow, revoked, client>>

(* closeSlow and closeAll: Remove, then Close. *)
CloseSlowRemove ==
  /\ slow = "handed"
  /\ LockFree
  /\ slow' = "removed"
  /\ Deregister
  /\ UNCHANGED <<sides, out, sending, once, notify, revoked, client>>

(* Mutant: the slow connection is only deregistered. *)
CloseSlowNot ==
  /\ slow = "removed"
  /\ slow' = "closed"
  /\ UNCHANGED <<sides, out, sending, once, notify, registered, held, revoked, client>>

CloseSlow ==
  /\ slow = "removed"
  /\ slow' = "closed"
  /\ Close(3005)
  /\ UNCHANGED <<sides, out, sending, registered, held, revoked, client>>

RevokeRemove ==
  /\ ~revoked
  /\ LockFree
  /\ revoked' = TRUE
  /\ Deregister
  /\ UNCHANGED <<sides, out, sending, once, notify, slow, client>>

Revoke ==
  /\ revoked
  /\ revoked' = FALSE
  /\ Close(3501)
  /\ UNCHANGED <<sides, out, sending, registered, held, slow, client>>

(* The drain, and track on a server already draining. *)
ServerDrains ==
  /\ once = "unrun"
  /\ Close(3000)
  /\ UNCHANGED <<sides, out, sending, hubs, client>>

Outside ==
  \/ \E w \in Workers : Dispatch(w)
  \/ ControlUnsubscribe
  \/ CloseSlowRemove \/ CloseSlow
  \/ RevokeRemove \/ Revoke
  \/ ServerDrains

-----------------------------------------------------------------------------
Next == Reader \/ Writer \/ Outside \/ CloseOnce \/ \E s \in Senders : Offer(s)

Spec == Init /\ [][Next]_vars

(* What the scheduler, the deadlines and the Go runtime give: a goroutine that  *)
(* can run does, a write fails by its deadline, a webhook call ends by its      *)
(* timeout, a closed socket fails the read, and a writer is not starved of the   *)
(* RWMutex.  A select picks among its ready branches at random, so one that is   *)
(* ready time after time is taken.  A client is never obliged to send anything. *)
Fairness ==
  /\ \A s \in Senders : WF_vars(Offer(s))
  /\ WF_vars(OfferDisconnect \/ Signal) /\ SF_vars(Remove)
  /\ WF_vars(sock = "closed" /\ ReadFails)
  /\ WF_vars(NotAuthorized(3008))
  /\ WF_vars(AnswerRateLimited \/ SendExpiry \/ ReaderExits)
  /\ WF_vars(Top \/ SelectClosing \/ SelectFrame \/ HandshakeTimeout \/ CloseReturned
             \/ Drain \/ CloseSocket)
  /\ SF_vars(SelectHandshake) /\ SF_vars(SelectExpires) /\ SF_vars(SelectExpiry)
  /\ SF_vars(CloseSlowRemove) /\ WF_vars(CloseSlow) /\ WF_vars(Revoke)

FairSpec == Spec /\ Fairness

-----------------------------------------------------------------------------
(* Correctness.                                                            *)

(* A step of the writer that put frame f on the wire. *)
Writes(f) ==
  /\ writer \in {"select", "draining"}
  /\ out # <<>>
  /\ Head(out) = f
  /\ out' = Tail(out)
  /\ writer' \in {"top", "draining"}

(* docs/03-client-protocol.md section 5.1, M15: a publication reaches the client *)
(* only between the reply that announces the channel and the one that ends it,   *)
(* except on a connection that refused such a reply and is owed its close.      *)
PushInOrder == [][Writes("pub") => told \/ slow # "no"]_vars

(* NFR-3: once anything decides to close a connection, both goroutines end, the  *)
(* socket is closed and the hub has forgotten it, whatever else is going on.    *)
EndsCompletely ==
  IsClosed ~> reader = "exited" /\ writer = "exited" /\ sock = "closed" /\ ~held

(* FR-4, FR-22: however busy the writer is, a connection that sends no connect   *)
(* frame is closed, and so is one whose grant has a lifetime.                 *)
TimersEnd ==
  /\ <>(connectSeen \/ IsClosed)
  /\ expiry = "sent" ~> IsClosed

(* FR-15: a connection handed to the closer is closed. *)
SlowCloses == slow = "handed" ~> IsClosed
=============================================================================
