----------------------------- MODULE Heartbeat -----------------------------
(***************************************************************************)
(* The deadlines of one connection, with time (internal/conn, under a        *)
(* configuration internal/config has validated).  The writer owns every       *)
(* timer: the handshake alarm, the ping ticker, the pong alarm (the grants' is   *)
(* in module Conn).  The reader counts pongs, but it also waits for the        *)
(* connect webhook, and while it waits nothing is read.                       *)
(*                                                                         *)
(* Time is discrete, kept as what remains to each deadline, and passes only    *)
(* while nobody has anything to do: what the code computes takes no time, what  *)
(* it waits for does.  A write takes from no time up to WriteTimeout.         *)
(* An Alarm fires once; a Ticker's channel has room for one tick and drops     *)
(* what does not fit.  Frames are queued as the environment likes.  How the     *)
(* connection is shut down once it has a close code is module Conn's matter:   *)
(* here it stops.                                                          *)
(***************************************************************************)
EXTENDS Integers

CONSTANTS
  Handshakes, Connects, Pings, Pongs,  \* what each duration key may be set to
  WriteTimeout,  \* conn.defaultWriteTimeout, which no key sets
  RoundTrip      \* how long a live peer may take to answer a ping

ASSUME HeartbeatAssumption ==
  /\ Handshakes \cup Connects \cup Pings \cup Pongs \subseteq Nat \ {0}
  /\ {WriteTimeout, RoundTrip} \subseteq Nat

VARIABLES
  cfg,        \* the validated configuration, and whether this peer's link may stall
  alive,      \* the peer still reads and answers
  code,       \* what the connection was closed for, or Open
  writer,     \* where the writer is: "select", writing a "frame" or a "ping", "pinged"
  left,       \* what remains to the deadline of the write in progress
  reader,     \* "reading", "authorizing" or "done"
  authIn,     \* what remains of the authorization's context
  connectSeen,
  handshakeIn,
  tickIn, tick,   \* to the ticker's next tick, and whether one is in its channel
  pongIn,
  answered,   \* Conn.pongs differs from the mark taken before the last ping
  wire,       \* the pongs on their way, each with the time it may still take
  inbox,      \* a pong has arrived and is not read
  silence     \* how long the peer has been dead

timers == <<handshakeIn, tickIn, tick, pongIn>>
peer   == <<alive, wire, inbox>>
auth   == <<reader, authIn, connectSeen>>
vars   == <<cfg, alive, code, writer, left, reader, authIn, connectSeen, handshakeIn,
            tickIn, tick, pongIn, answered, wire, inbox, silence>>

Open == "open"
Off  == -1      \* an alarm that is not armed; 0 is one that has fired

(* Mutant: the cross-check of the two keys is dropped. *)
ValidEach(c) == c.pong \in Pongs

(* config.validateServer and validateApp, the rules about these keys: each is     *)
(* in its range, and a pong deadline must come before the next ping.           *)
Valid(c) == c.pong < c.ping

Configs ==
  {c \in [handshake: Handshakes, connect: Connects, ping: Pings, pong: Pongs,
          stalls: BOOLEAN] : Valid(c)}

Min2(a, b) == IF a < b THEN a ELSE b

-----------------------------------------------------------------------------
Init ==
  /\ cfg \in Configs
  /\ alive = TRUE
  /\ code = Open
  /\ writer = "select"
  /\ left = 0
  /\ reader = "reading"
  /\ authIn = 0
  /\ connectSeen = FALSE
  /\ handshakeIn = cfg.handshake
  /\ tickIn = cfg.ping
  /\ tick = FALSE
  /\ pongIn = Off
  /\ answered = FALSE
  /\ wire = {}
  /\ inbox = FALSE
  /\ silence = 0

(* Conn.Close and abort: the first code stays. *)
Close(c) == code' = IF code = Open THEN c ELSE code

-----------------------------------------------------------------------------
(* The reader. *)

(* A connect frame: authorized under a context of its own, on this goroutine. *)
Connect ==
  /\ alive
  /\ reader = "reading"
  /\ code = Open
  /\ ~connectSeen
  /\ connectSeen' = TRUE
  /\ reader' = "authorizing"
  /\ authIn' = cfg.connect
  /\ UNCHANGED <<cfg, peer, code, writer, left, timers, answered, silence>>

(* The application answers with grants.                                      *)
Granted ==
  /\ reader = "authorizing"
  /\ code = Open
  /\ reader' = "reading"
  /\ authIn' = 0
  /\ UNCHANGED <<cfg, peer, code, writer, left, connectSeen, timers, answered, silence>>

(* It refuses, or does not answer before the context ends. *)
NotGranted ==
  /\ reader = "authorizing"
  /\ code = Open
  /\ reader' = "done"
  /\ \/ Close("unauthorized")
     \/ Close("unavailable")
  /\ UNCHANGED <<cfg, peer, writer, left, authIn, connectSeen, timers, answered, silence>>

(* The pong handler, run by the read in progress. *)
Pong ==
  /\ reader = "reading"
  /\ code = Open
  /\ inbox
  /\ inbox' = FALSE
  /\ answered' = TRUE
  /\ UNCHANGED <<cfg, alive, wire, code, writer, left, auth, timers, silence>>

Reader == Connect \/ Granted \/ NotGranted \/ Pong

-----------------------------------------------------------------------------
(* The writer. *)

Selecting == writer = "select" /\ code = Open

Writing(w) == writer = w /\ code = Open

Begin(w) == writer' = w /\ left' = IF cfg.stalls THEN WriteTimeout ELSE 0

SelectFrame ==
  /\ Selecting
  /\ Begin("frame")
  /\ UNCHANGED <<cfg, peer, code, auth, timers, answered, silence>>

SelectHandshake ==
  /\ Selecting
  /\ handshakeIn = 0
  /\ handshakeIn' = Off
  /\ IF connectSeen THEN UNCHANGED code ELSE Close("handshake")
  /\ UNCHANGED <<cfg, peer, writer, left, auth, tickIn, tick, pongIn,
                 answered, silence>>

(* Mutant: the pongs are not counted again at each ping. *)
SelectPingUnmarked ==
  /\ Selecting
  /\ tick
  /\ tick' = FALSE
  /\ Begin("ping")
  /\ UNCHANGED <<cfg, peer, code, auth, handshakeIn, tickIn, pongIn, answered, silence>>

(* The pongs are counted before the ping is written. *)
SelectPing ==
  /\ Selecting
  /\ tick
  /\ tick' = FALSE
  /\ answered' = FALSE
  /\ Begin("ping")
  /\ UNCHANGED <<cfg, peer, code, auth, handshakeIn, tickIn, pongIn, silence>>

(* Its bytes leave at some point of the write. *)
PingLeaves ==
  /\ Writing("ping")
  /\ wire' = IF alive THEN wire \cup {RoundTrip} ELSE wire
  /\ writer' = "pinged"
  /\ UNCHANGED <<cfg, alive, inbox, code, left, auth, timers, answered, silence>>

(* Mutant: the pongs are counted once the ping is out. *)
PingWrittenThenMarked ==
  /\ Writing("pinged")
  /\ writer' = "select"
  /\ left' = 0
  /\ pongIn' = cfg.pong
  /\ answered' = FALSE
  /\ UNCHANGED <<cfg, peer, code, auth, handshakeIn, tickIn, tick, silence>>

(* Only now is the old pong alarm stopped and a new one armed. *)
PingWritten ==
  /\ Writing("pinged")
  /\ writer' = "select"
  /\ left' = 0
  /\ pongIn' = cfg.pong
  /\ UNCHANGED <<cfg, peer, code, auth, handshakeIn, tickIn, tick, answered, silence>>

SelectPong ==
  /\ Selecting
  /\ pongIn = 0
  /\ pongIn' = Off
  /\ IF answered THEN UNCHANGED code ELSE Close("ping timeout")
  /\ UNCHANGED <<cfg, peer, writer, left, auth, handshakeIn, tickIn, tick, answered, silence>>

FrameWritten ==
  /\ Writing("frame")
  /\ writer' = "select"
  /\ left' = 0
  /\ UNCHANGED <<cfg, peer, code, auth, timers, answered, silence>>

(* A write's deadline passes, or the socket is gone. *)
WriteFails ==
  /\ \E w \in {"frame", "ping", "pinged"} : Writing(w)
  /\ ~alive \/ cfg.stalls
  /\ Close("aborted")
  /\ UNCHANGED <<cfg, peer, writer, left, auth, timers, answered, silence>>

Writer ==
  \/ SelectFrame \/ SelectHandshake \/ SelectPing
  \/ PingLeaves \/ PingWritten \/ SelectPong \/ FrameWritten \/ WriteFails

-----------------------------------------------------------------------------
(* The peer. *)

Arrive == \E t \in wire :
  /\ code = Open
  /\ wire' = wire \ {t}
  /\ inbox' = TRUE
  /\ UNCHANGED <<cfg, alive, code, writer, left, auth, timers, answered, silence>>

Die ==
  /\ alive
  /\ code = Open
  /\ alive' = FALSE
  /\ wire' = {}
  /\ UNCHANGED <<cfg, inbox, code, writer, left, auth, timers, answered, silence>>

-----------------------------------------------------------------------------
(* Time. *)

Ready == tick \/ 0 \in {handshakeIn, pongIn}

(* Nobody can move, or whoever can is waiting for something to take its time.  *)
Idle ==
  /\ code = Open
  /\ IF writer = "select" THEN ~Ready ELSE left > 0
  /\ reader = "reading" => ~inbox
  /\ reader = "authorizing" => authIn > 0
  /\ 0 \notin wire

Down(t) == IF t > 0 THEN t - 1 ELSE t

(* The next tick falls on the grid whatever became of the last one.           *)
Tick ==
  /\ Idle
  /\ left' = Down(left)
  /\ authIn' = Down(authIn)
  /\ handshakeIn' = Down(handshakeIn)
  /\ pongIn' = Down(pongIn)
  /\ tickIn' = IF tickIn = 1 THEN cfg.ping ELSE tickIn - 1
  /\ tick' = (tick \/ tickIn = 1)
  /\ wire' = {t - 1 : t \in wire}
  /\ silence' = IF alive THEN 0 ELSE Min2(silence + 1, cfg.ping + cfg.pong + 1)
  /\ UNCHANGED <<cfg, alive, inbox, code, writer, reader, connectSeen, answered>>

Next == Reader \/ Writer \/ Arrive \/ Die \/ Tick

(* The runtime's select is uniform: a branch that is ready again and again is   *)
(* taken.  A write ends, an authorization ends, and time goes on.             *)
Fairness ==
  /\ SF_vars(SelectPong) /\ SF_vars(SelectPing) /\ SF_vars(SelectHandshake)
  /\ WF_vars(PingLeaves) /\ WF_vars(PingWritten) /\ WF_vars(FrameWritten)
  /\ WF_vars(Granted \/ NotGranted) /\ WF_vars(Pong) /\ WF_vars(Arrive)
  /\ SF_vars(Tick)

Spec     == Init /\ [][Next]_vars
FairSpec == Spec /\ Fairness

-----------------------------------------------------------------------------
(* FR-7: over a link that does not stall, a dead peer is closed within one ping  *)
(* interval and one pong timeout, under every configuration that validates.    *)
DeadPeerGone ==
  ~alive /\ ~cfg.stalls /\ code = Open => silence <= cfg.ping + cfg.pong

(* However its writes stall, a dead peer is closed, if the pong timeout leaves    *)
(* room for a stalled ping before the next: a tick the writer takes before a     *)
(* fired pong alarm re-arms it, but cannot do so for ever.                      *)
DeadPeerLeaves ==
  (~alive /\ WriteTimeout + cfg.pong < cfg.ping) ~> (code # Open)

(* A peer that answers every ping in time is closed for a missed pong only if its *)
(* answer is there and unread, which takes a reader that is inside the connect    *)
(* webhook or was until this instant.  A pong that overtakes the end of its own   *)
(* ping's write counts.                                                      *)
LivePeerKept ==
  [][code = Open /\ code' = "ping timeout" => ~alive \/ inbox]_vars
=============================================================================
