-------------------------- MODULE HeartbeatProofs --------------------------
(***************************************************************************)
(* The deadlines of a connection for every configuration that validates,      *)
(* every write timeout and every round trip.                                 *)
(*                                                                         *)
(* A live peer is kept because its answer is always ahead of the alarm:        *)
(* AnswerAhead.  A dead one is closed in time because a writer that never       *)
(* stalls keeps the pong alarm on the ticker's grid (OnGrid), because at most     *)
(* one answer is under way and none once the alarm has passed, so that no late     *)
(* pong can answer for a peer that is gone (OneAnswer), and because its death is   *)
(* then at most one ping old when the ping is written that closes it (Dying).     *)
(***************************************************************************)
EXTENDS Heartbeat, TLAPS

TypeOK ==
  /\ cfg \in Configs
  /\ alive \in BOOLEAN /\ connectSeen \in BOOLEAN
  /\ tick \in BOOLEAN /\ answered \in BOOLEAN /\ inbox \in BOOLEAN
  /\ writer \in {"select", "frame", "ping", "pinged"}
  /\ reader \in {"reading", "authorizing", "done"}
  /\ left \in Nat /\ authIn \in Nat /\ silence \in Nat
  /\ handshakeIn \in Nat \cup {Off} /\ pongIn \in Nat \cup {Off}
  /\ tickIn \in Nat /\ 1 <= tickIn /\ tickIn <= cfg.ping
  /\ wire \subseteq Nat

(* While a live peer owes an answer, that answer is there or comes in time. *)
AnswerAhead ==
  alive /\ ~answered =>
    /\ writer \in {"select", "frame"} /\ pongIn # Off => inbox \/ \E t \in wire : t < pongIn
    /\ writer = "pinged" => inbox \/ \E t \in wire : t <= RoundTrip

(* A ping is being written, or due. *)
Pinging == tick \/ writer \in {"ping", "pinged"}

OnGrid ==
  /\ left = 0
  /\ Pinging => tickIn = cfg.ping /\ pongIn = Off
  /\ pongIn # Off => pongIn = cfg.pong - (cfg.ping - tickIn)

OneAnswer ==
  /\ wire = {} \/ \E t \in wire : wire = {t}
  /\ wire # {} => ~inbox /\ ~answered
  /\ inbox => ~answered
  /\ pongIn = Off /\ writer # "pinged" => wire = {} /\ ~inbox
  /\ writer = "ping" => ~answered
  /\ tick => writer \in {"select", "frame"}
  /\ ~alive => wire = {}

Dying ==
  IF alive THEN silence = 0
  ELSE \/ silence <= cfg.ping - tickIn
       \/ (tick \/ writer = "ping") /\ silence <= cfg.ping
       \/ /\ writer = "pinged" \/ pongIn # Off
          /\ ~answered /\ ~inbox
          /\ silence <= cfg.ping + (cfg.ping - tickIn)

Timely == ~cfg.stalls /\ code = Open => OnGrid /\ OneAnswer /\ Dying

LEMMA Config == ASSUME cfg \in Configs
  PROVE  /\ cfg.ping \in Nat \ {0} /\ cfg.pong \in Nat \ {0}
         /\ cfg.handshake \in Nat \ {0} /\ cfg.connect \in Nat \ {0}
         /\ cfg.pong \in Pongs /\ cfg.stalls \in BOOLEAN
         /\ cfg.pong < cfg.ping
BY HeartbeatAssumption DEF Configs, Valid

LEMMA TypeInit == Init => TypeOK
<1> SUFFICES ASSUME Init PROVE TypeOK
  OBVIOUS
<1>1. cfg \in Configs
  BY DEF Init
<1>2. /\ alive \in BOOLEAN /\ connectSeen \in BOOLEAN
      /\ tick \in BOOLEAN /\ answered \in BOOLEAN /\ inbox \in BOOLEAN
      /\ writer = "select" /\ reader = "reading" /\ wire = {}
      /\ left = 0 /\ authIn = 0 /\ silence = 0 /\ pongIn = Off
      /\ handshakeIn = cfg.handshake /\ tickIn = cfg.ping
  BY DEF Init
<1>3. tickIn \in Nat /\ 1 <= tickIn /\ tickIn <= cfg.ping /\ handshakeIn \in Nat
  BY <1>1, <1>2, Config
<1> QED
  BY <1>1, <1>2, <1>3 DEF TypeOK

LEMMA TypeKept == ASSUME TypeOK, [Next]_vars PROVE TypeOK'
<1> USE DEF TypeOK
<1>1. cfg \in Configs
  OBVIOUS
<1>2. /\ cfg.ping \in Nat /\ cfg.pong \in Nat /\ cfg.connect \in Nat
      /\ WriteTimeout \in Nat /\ RoundTrip \in Nat
  BY <1>1, Config, HeartbeatAssumption
<1>3. CASE Reader
  <2>1. CASE Connect
    BY <1>2, <2>1 DEF Connect, timers, peer
  <2>2. CASE Granted
    BY <2>2 DEF Granted, timers, peer
  <2>3. CASE NotGranted
    BY <2>3 DEF NotGranted, timers, peer
  <2>4. CASE Pong
    BY <2>4 DEF Pong, timers, auth
  <2> QED
    BY <1>3, <2>1, <2>2, <2>3, <2>4 DEF Reader
<1>4. CASE Writer
  <2>1. CASE SelectFrame
    BY <1>2, <2>1 DEF SelectFrame, Begin, timers, peer, auth
  <2>2. CASE SelectPing
    BY <1>2, <2>2 DEF SelectPing, Begin, peer, auth
  <2>3. CASE SelectHandshake
    BY <2>3 DEF SelectHandshake, peer, auth
  <2>4. CASE SelectPong
    BY <2>4 DEF SelectPong, peer, auth
  <2>5. CASE PingLeaves
    BY <1>2, <2>5 DEF PingLeaves, timers, auth
  <2>6. CASE PingWritten
    BY <1>2, <2>6 DEF PingWritten, peer, auth
  <2>7. CASE FrameWritten
    BY <2>7 DEF FrameWritten, timers, peer, auth
  <2>8. CASE WriteFails
    BY <2>8 DEF WriteFails, timers, peer, auth
  <2> QED
    BY <1>4, <2>1, <2>2, <2>3, <2>4, <2>5, <2>6, <2>7, <2>8 DEF Writer
<1>5. CASE Arrive \/ Die
  BY <1>1, <1>5, Config DEF Arrive, Die, timers, auth
<1>6. CASE Tick
  <2>1. wire' \subseteq Nat
    BY <1>6 DEF Tick, Idle
  <2>2. tickIn' \in Nat /\ 1 <= tickIn' /\ tickIn' <= cfg'.ping
    BY <1>1, <1>6, Config DEF Tick
  <2>3. left' \in Nat /\ authIn' \in Nat /\ handshakeIn' \in Nat \cup {Off} /\ pongIn' \in Nat \cup {Off}
    BY <1>6 DEF Tick, Down, Off
  <2>4. silence' \in Nat
    BY <1>1, <1>6, Config DEF Tick, Min2
  <2>5. tick' \in BOOLEAN /\ UNCHANGED <<cfg, alive, inbox, code, writer, reader, connectSeen, answered>>
    BY <1>6 DEF Tick
  <2> QED
    BY <2>1, <2>2, <2>3, <2>4, <2>5
<1>7. CASE UNCHANGED vars
  BY <1>7 DEF vars
<1> QED
  BY <1>3, <1>4, <1>5, <1>6, <1>7 DEF Next

-----------------------------------------------------------------------------
(* A live peer. *)

LEMMA AheadKept ==
  ASSUME \A p \in Pongs : RoundTrip < p, TypeOK, AnswerAhead, [Next]_vars
  PROVE  AnswerAhead'
<1> USE DEF TypeOK
<1>1. cfg.pong \in Nat /\ RoundTrip \in Nat /\ RoundTrip < cfg.pong
  BY Config, HeartbeatAssumption
<1>2. CASE Reader
  BY <1>2 DEF Reader, Connect, Granted, NotGranted, Pong, timers, peer, AnswerAhead
<1>3. CASE SelectFrame \/ SelectHandshake \/ SelectPing \/ SelectPong \/ FrameWritten \/ WriteFails
  BY <1>3 DEF SelectFrame, SelectHandshake, SelectPing, SelectPong, FrameWritten, WriteFails, Begin,
     Selecting, Writing, timers, peer, AnswerAhead, Off
<1>4. CASE PingLeaves
  BY <1>1, <1>4 DEF PingLeaves, Writing, AnswerAhead
<1>5. CASE PingWritten
  BY <1>1, <1>5 DEF PingWritten, Writing, peer, AnswerAhead
<1>6. CASE Arrive \/ Die
  BY <1>6 DEF Arrive, Die, timers, AnswerAhead
<1>7. CASE Tick
  <2> SUFFICES ASSUME alive, ~answered, ~inbox
               PROVE  /\ writer \in {"select", "frame"} /\ pongIn' # Off => \E t \in wire' : t < pongIn'
                      /\ writer = "pinged" => \E t \in wire' : t <= RoundTrip
    BY <1>7 DEF Tick, AnswerAhead
  <2>1. \A t \in wire : t > 0 /\ t - 1 \in wire'
    BY <1>7 DEF Tick, Idle
  <2>2. ASSUME writer \in {"select", "frame"}, pongIn' # Off
        PROVE  \E t \in wire' : t < pongIn'
    <3>1. pongIn # Off
      BY <1>7, <2>2 DEF Tick, Down, Off
    <3>2. PICK t \in wire : t < pongIn
      BY <2>2, <3>1 DEF AnswerAhead
    <3>3. pongIn' = pongIn - 1
      BY <1>7, <2>1, <3>1, <3>2 DEF Tick, Down, Off
    <3> QED
      BY <2>1, <3>1, <3>2, <3>3
  <2>3. ASSUME writer = "pinged" PROVE \E t \in wire' : t <= RoundTrip
    BY <1>1, <2>1, <2>3 DEF AnswerAhead
  <2> QED
    BY <2>2, <2>3
<1>8. CASE UNCHANGED vars
  BY <1>8 DEF vars, AnswerAhead
<1> QED
  BY <1>2, <1>3, <1>4, <1>5, <1>6, <1>7, <1>8 DEF Next, Writer

(* The configurations and the timers keep their types: no deadline goes below zero, *)
(* and the ticker stays within its interval.                                  *)
THEOREM TypeCorrect == Spec => []TypeOK
BY TypeInit, TypeKept, PTL DEF Spec

(* A peer whose answers need less than every pong timeout is closed for a missed   *)
(* pong only if its answer is there and the reader has not taken it.             *)
THEOREM LivePeerIsKept ==
  ASSUME \A p \in Pongs : RoundTrip < p
  PROVE  Spec => LivePeerKept
<1>1. Init => AnswerAhead
  BY DEF Init, AnswerAhead, Off
<1>2. ASSUME TypeOK, AnswerAhead, Next, code = Open, code' = "ping timeout"
      PROVE  ~alive \/ inbox
  <2>1. SelectPong
    BY <1>2 DEF Next, Reader, Connect, Granted, NotGranted, Pong, Writer, SelectFrame, SelectHandshake,
       SelectPing, PingLeaves, PingWritten, FrameWritten, WriteFails, Close, Arrive, Die, Tick, Open
  <2>2. pongIn = 0 /\ writer = "select" /\ ~answered
    BY <1>2, <2>1 DEF SelectPong, Selecting, Open
  <2> QED
    <3>1. \A t \in wire : ~(t < 0)
      <4>1. wire \subseteq Nat
        BY <1>2 DEF TypeOK
      <4> QED
        BY <4>1
    <3>2. pongIn # Off /\ writer \in {"select", "frame"} /\ \A t \in wire : ~(t < pongIn)
      BY <2>2, <3>1 DEF Off
    <3> QED
      BY <1>2, <2>2, <3>2 DEF AnswerAhead
<1> QED
  BY <1>1, <1>2, TypeInit, TypeKept, AheadKept, PTL DEF Spec, LivePeerKept

-----------------------------------------------------------------------------
(* A dead peer. *)

LEMMA TimelyInit == ASSUME Init PROVE Timely
<1>1. cfg \in Configs
  BY DEF Init
<1>2. cfg.ping \in Nat /\ cfg.ping - cfg.ping = 0
  BY <1>1, Config
<1> QED
  BY <1>2 DEF Init, Timely, OnGrid, OneAnswer, Dying, Pinging, Off

LEMMA TimelyKept == ASSUME TypeOK, Timely, [Next]_vars PROVE Timely'
<1> SUFFICES ASSUME ~cfg.stalls, code = Open, OnGrid, OneAnswer, Dying, UNCHANGED cfg, code' = Open
             PROVE  OnGrid' /\ OneAnswer' /\ Dying'
  <2>1. code = Open \/ UNCHANGED vars
    BY DEF Next, Reader, Connect, Granted, NotGranted, Pong, Writer, SelectFrame, SelectHandshake,
       SelectPing, PingLeaves, PingWritten, SelectPong, FrameWritten, WriteFails, Selecting, Writing,
       Arrive, Die, Tick, Idle
  <2>2. UNCHANGED cfg
    BY DEF Next, Reader, Connect, Granted, NotGranted, Pong, Writer, SelectFrame, SelectHandshake,
       SelectPing, PingLeaves, PingWritten, SelectPong, FrameWritten, WriteFails, Arrive, Die, Tick, vars
  <2>3. UNCHANGED vars => Timely'
    BY DEF vars, Timely, OnGrid, OneAnswer, Dying, Pinging
  <2> QED
    BY <2>1, <2>2, <2>3 DEF Timely
<1>1. /\ cfg.ping \in Nat /\ cfg.pong \in Nat /\ 0 < cfg.pong /\ cfg.pong < cfg.ping
      /\ WriteTimeout \in Nat /\ RoundTrip \in Nat
  BY Config, HeartbeatAssumption DEF TypeOK
<1>2. /\ left = 0 /\ tickIn \in Nat /\ 1 <= tickIn /\ tickIn <= cfg.ping
      /\ pongIn \in Nat \cup {Off} /\ silence \in Nat
      /\ writer \in {"select", "frame", "ping", "pinged"}
  BY DEF TypeOK, OnGrid
<1> USE DEF Pinging, OnGrid, OneAnswer, Dying
<1>3. CASE Connect \/ Granted \/ NotGranted
  BY <1>3 DEF Connect, Granted, NotGranted, peer, timers
<1>4. CASE Pong
  BY <1>4 DEF Pong, timers, auth
<1>5. CASE SelectFrame
  BY <1>5 DEF SelectFrame, Selecting, Begin, peer, timers, auth
<1>6. CASE SelectHandshake
  BY <1>6 DEF SelectHandshake, Selecting, peer, auth
<1>7. CASE SelectPing
  BY <1>1, <1>2, <1>7 DEF SelectPing, Selecting, Begin, peer, auth, Off
<1>8. CASE PingLeaves
  BY <1>1, <1>2, <1>8 DEF PingLeaves, Writing, timers, auth, Off
<1>9. CASE PingWritten
  BY <1>1, <1>2, <1>9 DEF PingWritten, Writing, peer, auth, Off
<1>10. CASE SelectPong
  BY <1>1, <1>2, <1>10 DEF SelectPong, Selecting, Close, peer, auth, Off, Open
<1>11. CASE FrameWritten
  BY <1>11 DEF FrameWritten, Writing, peer, timers, auth
<1>12. CASE WriteFails
  BY <1>12 DEF WriteFails, Close, Open
<1>13. CASE Arrive
  BY <1>13 DEF Arrive, timers, auth
<1>14. CASE Die
  BY <1>1, <1>2, <1>14 DEF Die, timers, auth
<1>15. CASE Tick
  <2>1. writer = "select" /\ ~tick /\ pongIn # 0
    BY <1>2, <1>15 DEF Tick, Idle, Ready
  <2>2. tickIn = 1 => pongIn = Off
    BY <1>1, <1>2, <2>1 DEF Off
  <2>3. /\ left' = 0 /\ writer' = writer
        /\ tick' => tickIn = 1
        /\ tickIn = 1 => tickIn' = cfg.ping /\ pongIn' = Off
        /\ tickIn # 1 => tickIn' = tickIn - 1
        /\ pongIn = Off => pongIn' = Off
        /\ pongIn # Off => pongIn' = pongIn - 1 /\ pongIn' # Off
    <3>1. tick' => tickIn = 1
      BY <1>15, <2>1 DEF Tick
    <3>2. /\ left' = Down(left) /\ writer' = writer
          /\ tickIn' = IF tickIn = 1 THEN cfg.ping ELSE tickIn - 1
          /\ pongIn' = Down(pongIn)
      BY <1>15 DEF Tick
    <3> QED
      BY <1>2, <2>1, <2>2, <3>1, <3>2 DEF Down, Off
  <2>4. OnGrid'
    BY <1>1, <1>2, <2>1, <2>3 DEF Off
  <2>5. OneAnswer'
    <3>1. /\ wire = {} => wire' = {}
          /\ \A t \in Nat : wire = {t} => wire' = {t - 1}
      BY <1>15 DEF Tick
    <3>2. wire' = {} \/ \E t \in wire' : wire' = {t}
      BY <3>1 DEF TypeOK
    <3>3. wire' # {} => wire # {}
      BY <3>1
    <3>4. UNCHANGED <<inbox, answered, alive, writer>>
      BY <1>15 DEF Tick
    <3>5. pongIn' = Off => pongIn = Off
      BY <2>3
    <3>6. pongIn = Off => wire = {} /\ ~inbox
      BY <2>1
    <3>7. (wire # {} => ~inbox /\ ~answered) /\ (inbox => ~answered) /\ (~alive => wire = {})
      OBVIOUS
    <3>8. writer' = "select"
      BY <2>1, <3>4
    <3>9. /\ wire' # {} => ~inbox' /\ ~answered'
          /\ inbox' => ~answered'
          /\ ~alive' => wire' = {}
          /\ pongIn' = Off => wire' = {} /\ ~inbox'
      BY <3>3, <3>4, <3>5, <3>6, <3>7, Zenon
    <3>10. tick' => writer' \in {"select", "frame"}
      BY <3>8
    <3>11. writer' # "ping" /\ writer' # "pinged"
      BY <3>8
    <3> QED
      BY <3>2, <3>9, <3>10, <3>11, Zenon
  <2>6. Dying'
    <3>1. /\ UNCHANGED <<alive, inbox, answered, cfg>>
          /\ silence' = IF alive THEN 0 ELSE Min2(silence + 1, cfg.ping + cfg.pong + 1)
      BY <1>15 DEF Tick
    <3>2. CASE alive
      BY <3>1, <3>2
    <3>3. CASE ~alive
      <4>1. silence' <= silence + 1 /\ silence' \in Nat /\ ~alive'
        BY <1>1, <1>2, <3>1, <3>3 DEF Min2
      <4>2. CASE silence <= cfg.ping - tickIn /\ tickIn # 1
        BY <1>1, <1>2, <2>3, <3>1, <4>1, <4>2
      <4>3. CASE silence <= cfg.ping - tickIn /\ tickIn = 1
        <5>1. tick'
          BY <1>15, <4>3 DEF Tick
        <5> QED
          BY <1>1, <1>2, <3>1, <4>1, <4>3, <5>1
      <4>4. CASE pongIn # Off /\ ~answered /\ ~inbox /\ silence <= cfg.ping + (cfg.ping - tickIn)
        <5>1. tickIn # 1 /\ pongIn' # Off /\ ~answered' /\ ~inbox'
          BY <2>2, <2>3, <3>1, <4>4
        <5>2. silence' <= cfg.ping + (cfg.ping - tickIn')
          BY <1>1, <1>2, <2>3, <4>1, <4>4, <5>1
        <5> QED
          BY <3>1, <4>1, <5>1, <5>2
      <4> QED
        BY <2>1, <3>3, <4>2, <4>3, <4>4
    <3> QED
      BY <3>2, <3>3
  <2> QED
    BY <2>4, <2>5, <2>6
<1>16. CASE UNCHANGED vars
  BY <1>16 DEF vars
<1> QED
  BY <1>3, <1>4, <1>5, <1>6, <1>7, <1>8, <1>9, <1>10, <1>11, <1>12, <1>13, <1>14, <1>15, <1>16
  DEF Next, Reader, Writer

(* FR-7: with no stalling writes, a dead peer is closed within one ping interval and *)
(* one pong timeout, whatever the validated configuration, however long an answer    *)
(* was allowed to take, and also when the reader was inside the connect webhook.     *)
THEOREM DeadPeerIsGone == Spec => []DeadPeerGone
<1>1. TypeOK /\ Timely => DeadPeerGone
  <2> SUFFICES ASSUME TypeOK, OnGrid, Dying, ~alive PROVE silence <= cfg.ping + cfg.pong
    BY DEF Timely, DeadPeerGone
  <2>1. /\ cfg.ping \in Nat /\ cfg.pong \in Nat /\ silence \in Nat /\ tickIn \in Nat
        /\ 1 <= tickIn /\ tickIn <= cfg.ping /\ pongIn \in Nat \cup {Off}
    BY Config DEF TypeOK
  <2>2. writer = "pinged" \/ pongIn # Off => cfg.ping - tickIn <= cfg.pong
    BY <2>1 DEF OnGrid, Pinging, Off
  <2> QED
    BY <2>1, <2>2 DEF Dying
<1> QED
  BY <1>1, TypeInit, TypeKept, TimelyInit, TimelyKept, PTL DEF Spec
=============================================================================
