----------------------------- MODULE ConnProofs -----------------------------
(***************************************************************************)
(* The order of pushes on a connection, for any number of dispatch workers     *)
(* and any outbound queue.                                                  *)
(*                                                                         *)
(* The writer only ever takes from the head of the queue, so what the client   *)
(* will have been told when a frame reaches it is known while the frame is      *)
(* still queued: it is what `told` becomes over the frames before it.  The      *)
(* invariant says that every queued publication, every one a worker is about    *)
(* to queue, and every one a worker may yet send comes after an announcement.   *)
(***************************************************************************)
EXTENDS Conn, TLAPS

(* What the client believes of the channel when frame i of s is written, if it   *)
(* believes b now.                                                          *)
Believes(b, s, i) ==
  \/ b /\ \A j \in 1..(i - 1) : s[j] # "unsubscribed"
  \/ \E j \in 1..(i - 1) : /\ s[j] = "subscribed"
                           /\ \A k \in (j + 1)..(i - 1) : s[k] # "unsubscribed"

Announced == Believes(told, out, Len(out) + 1)

TypeOK ==
  /\ writer \in {"top", "select", "draining", "timing out", "closing", "aborting", "shut", "exited"}
  /\ out \in Seq(Frames)
  /\ sending \in [Senders -> Frames \cup {Nothing}]
  /\ sending["reader"] \in {Nothing, "reply", "subscribed", "unsubscribed"}
  /\ sending["control"] \in {Nothing, "unsubscribed"}
  /\ \A w \in Workers : sending[w] \in {Nothing, "pub"}
  /\ once \in {"unrun", "flagged", "offered", "signalled", "done"}
  /\ slow \in {"no", "handed", "removed", "closed"}
  /\ held \in BOOLEAN
  /\ told \in BOOLEAN

(* The hub's lock excludes. *)
Locked ==
  /\ WriteLocked => ~ReadLocked
  /\ sending["control"] # Nothing => sending["reader"] \in {Nothing, "reply"}

(* A frame that announces or ends the subscription is sent under the lock that    *)
(* guards the map it speaks of.                                             *)
AcksFollow ==
  /\ sending["reader"] = "subscribed" => held
  /\ sending["reader"] = "unsubscribed" => ~held
  /\ sending["control"] = "unsubscribed" => ~held

(* No acknowledgement was refused, and no frame lost to a failed write: after      *)
(* that, the writer writes nothing more.                                     *)
Faithful == slow = "no" /\ writer \notin {"aborting", "shut", "exited"}

PushesFollow ==
  Faithful =>
    /\ \A i \in DOMAIN out : out[i] = "pub" => Believes(told, out, i)
    /\ \A w \in Workers : sending[w] = "pub" => Announced
    /\ held /\ ~IsClosed /\ ~WriteLocked => Announced

(* The reader handles one frame at a time: it waits for the authorizer, for       *)
(* another's doClose and for its end only when its last frame has been offered.   *)
OneFrame ==
  reader \in {"authorizing", "answering", "leaving", "exited"} => sending["reader"] = Nothing

IInv == TypeOK /\ Locked /\ AcksFollow /\ PushesFollow

-----------------------------------------------------------------------------
(* A frame at the end of the queue changes nothing for those before it. *)
LEMMA AppendKeeps ==
  ASSUME NEW b \in BOOLEAN, NEW s \in Seq(Frames), NEW f \in Frames,
         NEW i \in 1..(Len(s) + 1)
  PROVE  Believes(b, Append(s, f), i) <=> Believes(b, s, i)
<1>1. \A j \in 1..Len(s) : Append(s, f)[j] = s[j]
  OBVIOUS
<1>2. 1..(i - 1) \subseteq 1..Len(s)
  OBVIOUS
<1> QED
  BY <1>1, <1>2 DEF Believes

(* After it, the client believes what it says, or what it believed before it.   *)
LEMMA AppendSays ==
  ASSUME NEW b \in BOOLEAN, NEW s \in Seq(Frames), NEW f \in Frames,
         f # "subscribed" => f # "unsubscribed" /\ Believes(b, s, Len(s) + 1)
  PROVE  Believes(b, Append(s, f), Len(Append(s, f)) + 1)
<1> DEFINE n == Len(s) + 1
<1>1. /\ Len(Append(s, f)) = n
      /\ Append(s, f)[n] = f
      /\ \A j \in 1..Len(s) : Append(s, f)[j] = s[j]
  OBVIOUS
<1>2. CASE f = "subscribed"
  <2>1. \A k \in (n + 1)..n : FALSE
    OBVIOUS
  <2> QED
    BY <1>1, <1>2, <2>1 DEF Believes
<1>3. CASE f # "unsubscribed" /\ Believes(b, s, n)
  <2>1. CASE b /\ \A j \in 1..(n - 1) : s[j] # "unsubscribed"
    BY <1>1, <1>3, <2>1 DEF Believes
  <2>2. CASE \E j \in 1..(n - 1) : /\ s[j] = "subscribed"
                                  /\ \A k \in (j + 1)..(n - 1) : s[k] # "unsubscribed"
    <3>1. PICK j \in 1..(n - 1) : /\ s[j] = "subscribed"
                                 /\ \A k \in (j + 1)..(n - 1) : s[k] # "unsubscribed"
      BY <2>2
    <3>2. /\ Append(s, f)[j] = "subscribed"
          /\ \A k \in (j + 1)..n : Append(s, f)[k] # "unsubscribed"
      BY <1>1, <1>3, <3>1
    <3> QED
      BY <1>1, <3>2 DEF Believes
  <2> QED
    BY <1>3, <2>1, <2>2 DEF Believes
<1> QED
  BY <1>2, <1>3

(* Writing the head moves what it says from the queue to the client. *)
LEMMA TailShifts ==
  ASSUME NEW b \in BOOLEAN, NEW s \in Seq(Frames), s # <<>>,
         NEW i \in 1..Len(s), Believes(b, s, i + 1)
  PROVE  Believes(Head(s) = "subscribed" \/ (b /\ Head(s) # "unsubscribed"), Tail(s), i)
<1>1. /\ Len(Tail(s)) = Len(s) - 1
      /\ \A j \in 1..(Len(s) - 1) : Tail(s)[j] = s[j + 1]
      /\ Head(s) = s[1]
  OBVIOUS
<1>2. CASE b /\ \A j \in 1..i : s[j] # "unsubscribed"
  BY <1>1, <1>2 DEF Believes
<1>3. ASSUME NEW j \in 1..i, s[j] = "subscribed",
             \A k \in (j + 1)..i : s[k] # "unsubscribed"
      PROVE  Believes(Head(s) = "subscribed" \/ (b /\ Head(s) # "unsubscribed"), Tail(s), i)
  <2>1. CASE j = 1
    BY <1>1, <1>3, <2>1 DEF Believes
  <2>2. CASE j > 1
    <3>1. /\ j - 1 \in 1..(i - 1)
          /\ Tail(s)[j - 1] = "subscribed"
          /\ \A k \in j..(i - 1) : Tail(s)[k] # "unsubscribed"
      BY <1>1, <1>3, <2>2
    <3>2. (j - 1) + 1 = j
      OBVIOUS
    <3> QED
      BY <3>1, <3>2 DEF Believes
  <2> QED
    BY <2>1, <2>2
<1>4. (i + 1) - 1 = i
  OBVIOUS
<1> QED
  BY <1>2, <1>3, <1>4 DEF Believes

-----------------------------------------------------------------------------
LEMMA InitOK == Init => IInv
<1> SUFFICES ASSUME Init PROVE IInv
  OBVIOUS
<1> USE ConnAssumption DEF Init, Senders, Nothing
<1>1. \A s \in Senders : sending[s] = Nothing
  OBVIOUS
<1>2. TypeOK
  <2>1. out \in Seq(Frames)
    OBVIOUS
  <2> QED
    BY <1>1, <2>1 DEF TypeOK
<1>3. Locked /\ AcksFollow
  BY <1>1 DEF Locked, AcksFollow, WriteLocked, ReadLocked
<1>4. PushesFollow
  <2>1. DOMAIN out = {}
    OBVIOUS
  <2> QED
    BY <1>1, <2>1 DEF PushesFollow
<1> QED
  BY <1>2, <1>3, <1>4 DEF IInv

(* Steps that leave the queue and the channel alone. *)
LEMMA QuietKeeps ==
  ASSUME IInv, UNCHANGED <<out, sending, told, held, slow>>,
         IsClosed => IsClosed', Faithful' => Faithful,
         writer' \in {"top", "select", "draining", "timing out", "closing", "aborting",
                      "shut", "exited"},
         once' \in {"unrun", "flagged", "offered", "signalled", "done"}
  PROVE  IInv'
<1>1. TypeOK'
  BY DEF IInv, TypeOK
<1>2. Locked' /\ AcksFollow'
  BY DEF IInv, Locked, AcksFollow, WriteLocked, ReadLocked
<1>3. PushesFollow'
  BY DEF IInv, PushesFollow, Announced, WriteLocked
<1> QED
  BY <1>1, <1>2, <1>3 DEF IInv

(* What a step that leaves writer or once alone needs to know of them. *)
LEMMA Lives ==
  ASSUME IInv
  PROVE  /\ writer \in {"top", "select", "draining", "timing out", "closing", "aborting",
                        "shut", "exited"}
         /\ once \in {"unrun", "flagged", "offered", "signalled", "done"}
BY DEF IInv, TypeOK

(* A caller of Send has found the connection open or not, and nothing else moved. *)
LEMMA CheckKeeps ==
  ASSUME IInv, NEW s \in Senders, NEW f \in Frames, sending[s] = Nothing, Check(s, f),
         s = "reader" => f \in {"reply", "subscribed", "unsubscribed"},
         s = "control" => f = "unsubscribed",
         s \in Workers => f = "pub",
         f \in {"subscribed", "unsubscribed"} => LockFree,
         f = "pub" => held /\ ~WriteLocked,
         held' = (IF f = "subscribed" THEN TRUE ELSE IF f = "unsubscribed" THEN FALSE ELSE held),
         UNCHANGED <<out, told, slow>>,
         IsClosed => IsClosed', Faithful' => Faithful, UNCHANGED <<writer, once>>
  PROVE  IInv'
<1>2. /\ sending' \in [Senders -> Frames \cup {Nothing}]
      /\ \A t \in Senders : t # s => sending'[t] = sending[t]
      /\ sending'[s] = IF IsClosed THEN Nothing ELSE f
  BY DEF IInv, TypeOK, Check
<1>1. TypeOK'
  <2>1. "reader" \in Senders /\ "control" \in Senders /\ Workers \subseteq Senders
    BY DEF Senders
  <2>2. /\ sending'["reader"] \in {Nothing, "reply", "subscribed", "unsubscribed"}
        /\ sending'["control"] \in {Nothing, "unsubscribed"}
        /\ \A w \in Workers : sending'[w] \in {Nothing, "pub"}
    BY <1>2, <2>1, ConnAssumption DEF IInv, TypeOK
  <2>3. held' \in BOOLEAN
    BY DEF IInv, TypeOK
  <2> QED
    BY <1>2, <2>2, <2>3 DEF IInv, TypeOK
<1>3. Locked'
  BY <1>2, ConnAssumption DEF IInv, TypeOK, Locked, WriteLocked, ReadLocked, LockFree, Senders, Nothing
<1>4. AcksFollow'
  BY <1>2, ConnAssumption DEF IInv, TypeOK, AcksFollow, WriteLocked, ReadLocked, LockFree, Senders, Nothing
<1>5. PushesFollow'
  BY <1>2, ConnAssumption DEF IInv, TypeOK, PushesFollow, Announced, WriteLocked, ReadLocked, LockFree,
     Senders, Nothing, IsClosed, Frames
<1> QED
  BY <1>1, <1>3, <1>4, <1>5 DEF IInv

(* Remove runs under the hub's lock, and so while nothing is being sent. *)
LEMMA DeregisterKeeps ==
  ASSUME IInv, LockFree, Deregister, UNCHANGED <<out, sending, told, writer>>,
         IsClosed => IsClosed', slow' = "no" => slow = "no",
         once' \in {"unrun", "flagged", "offered", "signalled", "done"},
         slow' \in {"no", "handed", "removed", "closed"}
  PROVE  IInv'
<1>1. TypeOK'
  BY DEF IInv, TypeOK, Deregister
<1>2. Locked' /\ AcksFollow'
  BY DEF IInv, Locked, AcksFollow, WriteLocked, ReadLocked, LockFree, Deregister, Nothing
<1>3. PushesFollow'
  BY DEF IInv, PushesFollow, Announced, Faithful, Deregister
<1> QED
  BY <1>1, <1>2, <1>3 DEF IInv

-----------------------------------------------------------------------------
(* The queue. *)

LEMMA OfferKeeps == ASSUME IInv, NEW s \in Senders, Offer(s) PROVE IInv'
<1> USE ConnAssumption DEF Offer
<1>1. PICK f \in Frames :
         /\ f = sending[s]
         /\ f # "disconnect"
         /\ f = "pub" => s \in Workers
         /\ f \in {"subscribed", "unsubscribed"} => WriteLocked /\ s \notin Workers
  BY DEF IInv, TypeOK, Senders, WriteLocked, Frames, Nothing
<1>2. /\ sending' \in [Senders -> Frames \cup {Nothing}]
      /\ sending'[s] = Nothing
      /\ \A t \in Senders : t # s => sending'[t] = sending[t]
  BY DEF IInv, TypeOK
<1>3. TypeOK'
  <2>1. out \in Seq(Frames)
    BY DEF IInv, TypeOK
  <2>2. Append(out, f) \in Seq(Frames)
    BY <2>1
  <2>3. out' \in {out, Append(out, f)} /\ slow' \in {slow, "handed"}
    BY <1>1
  <2>4. UNCHANGED <<sides, once, notify, registered, held, revoked, client>>
    OBVIOUS
  <2>5. out' \in Seq(Frames) /\ slow' \in {"no", "handed", "removed", "closed"}
    BY <2>1, <2>2, <2>3 DEF IInv, TypeOK
  <2> QED
    BY <1>2, <2>4, <2>5 DEF IInv, TypeOK, Senders, sides, client, Nothing
<1>4. Locked'
  BY <1>1, <1>2 DEF IInv, TypeOK, Locked, WriteLocked, ReadLocked, Senders, Nothing
<1>5. AcksFollow'
  BY <1>1, <1>2 DEF IInv, TypeOK, AcksFollow, Senders, Nothing
<1>6. PushesFollow'
  <2> SUFFICES ASSUME Faithful' PROVE PushesFollow'
    BY DEF PushesFollow
  <2>1. Faithful /\ UNCHANGED <<told, once, held>>
    BY DEF Faithful, sides, client
  <2>2. CASE out' = Append(out, f)
    <3>1. out \in Seq(Frames) /\ told \in BOOLEAN
      BY DEF IInv, TypeOK
    <3>2. f = "pub" => Announced
      BY <1>1, <2>1 DEF IInv, PushesFollow
    <3>3. \A i \in DOMAIN out' : out'[i] = "pub" => Believes(told', out', i)
      <4> SUFFICES ASSUME NEW i \in DOMAIN out', out'[i] = "pub"
                   PROVE  Believes(told', out', i)
        OBVIOUS
      <4>1. i \in 1..(Len(out) + 1)
        BY <1>1, <2>2, <3>1
      <4>2. Believes(told, out, i)
        <5>1. CASE i \in DOMAIN out
          BY <1>1, <2>1, <2>2, <3>1, <5>1 DEF IInv, PushesFollow
        <5>2. CASE i = Len(out) + 1
          BY <1>1, <2>2, <3>1, <3>2, <5>2 DEF Announced
        <5> QED
          BY <3>1, <4>1, <5>1, <5>2
      <4> QED
        BY <1>1, <2>1, <2>2, <3>1, <4>1, <4>2, AppendKeeps
    <3>4. \A w \in Workers : sending'[w] = "pub" => Announced'
      <4> SUFFICES ASSUME NEW w \in Workers, sending'[w] = "pub" PROVE Announced'
        OBVIOUS
      <4>1. w # s /\ sending[w] = "pub"
        BY <1>2 DEF Senders, Nothing
      <4>2. Announced /\ f # "unsubscribed"
        BY <1>1, <2>1, <4>1 DEF IInv, PushesFollow, Locked, ReadLocked, Nothing
      <4> QED
        BY <1>1, <2>1, <2>2, <3>1, <4>2, AppendSays DEF Announced
    <3>5. held' /\ ~IsClosed' /\ ~WriteLocked' => Announced'
      <4> SUFFICES ASSUME held, ~IsClosed, ~WriteLocked' PROVE Announced'
        BY <2>1 DEF IsClosed
      <4>1. CASE f = "subscribed"
        <5>1. Believes(told, Append(out, f), Len(Append(out, f)) + 1)
          BY <3>1, <4>1, AppendSays
        <5> QED
          BY <2>1, <2>2, <5>1 DEF Announced
      <4>2. CASE f # "subscribed"
        <5>1. f # "unsubscribed"
          BY <1>1 DEF IInv, TypeOK, AcksFollow, Senders
        <5>2. ~WriteLocked
          BY <1>1, <1>2, <4>2, <5>1 DEF WriteLocked, IInv, TypeOK, Senders, Nothing
        <5>3. Announced
          BY <2>1, <5>2 DEF IInv, PushesFollow
        <5> QED
          BY <1>1, <2>1, <2>2, <3>1, <5>1, <5>3, AppendSays DEF Announced
      <4> QED
        BY <4>1, <4>2
    <3> QED
      BY <3>3, <3>4, <3>5 DEF PushesFollow
  <2>3. CASE out' = out /\ f = "reply"
    <3>1. UNCHANGED Announced
      BY <2>1, <2>3 DEF Announced
    <3>2. WriteLocked' <=> WriteLocked
      BY <1>1, <1>2, <2>3 DEF WriteLocked, IInv, TypeOK, Senders, Nothing
    <3>3. \A w \in Workers : sending'[w] = "pub" => sending[w] = "pub"
      BY <1>1, <1>2, <2>3 DEF Senders, Nothing
    <3> QED
      BY <2>1, <2>3, <3>1, <3>2, <3>3 DEF IInv, PushesFollow, IsClosed
  <2> QED
    BY <1>1, <2>1, <2>2, <2>3 DEF Faithful
<1> QED
  BY <1>3, <1>4, <1>5, <1>6 DEF IInv

LEMMA OfferDisconnectKeeps == ASSUME IInv, OfferDisconnect PROVE IInv'
<1> USE DEF OfferDisconnect
<1>1. out \in Seq(Frames) /\ told \in BOOLEAN /\ "disconnect" \in Frames
  BY DEF IInv, TypeOK, Frames
<1>2. UNCHANGED <<sending, told, held, slow, writer>> /\ IsClosed /\ IsClosed'
  BY DEF sides, hubs, client, IsClosed
<1>3. CASE out' = out
  BY <1>2, <1>3, QuietKeeps DEF Faithful, IInv, TypeOK
<1>4. CASE out' = Append(out, "disconnect")
  <2>1. TypeOK'
    <3>1. out' \in Seq(Frames)
      BY <1>1, <1>4
    <3> QED
      BY <1>2, <3>1 DEF IInv, TypeOK
  <2>2. Locked' /\ AcksFollow'
    BY <1>2 DEF IInv, Locked, AcksFollow, WriteLocked, ReadLocked
  <2>3. PushesFollow'
    <3> SUFFICES ASSUME Faithful PROVE PushesFollow'
      BY <1>2 DEF PushesFollow, Faithful
    <3>1. ASSUME NEW i \in DOMAIN out', out'[i] = "pub" PROVE Believes(told', out', i)
      <4>1. i \in DOMAIN out /\ i \in 1..(Len(out) + 1) /\ out[i] = "pub"
        BY <1>1, <1>4, <3>1
      <4> QED
        BY <1>1, <1>2, <1>4, <4>1, AppendKeeps DEF IInv, PushesFollow
    <3>2. ASSUME NEW w \in Workers, sending'[w] = "pub" PROVE Announced'
      BY <1>1, <1>2, <1>4, <3>2, AppendSays DEF IInv, PushesFollow, Announced
    <3> QED
      BY <1>2, <3>1, <3>2 DEF PushesFollow
  <2> QED
    BY <2>1, <2>2, <2>3 DEF IInv
<1> QED
  BY <1>3, <1>4

(* The writer takes the head: it is written, or the writer is done for. *)
LEMMA TakeKeeps ==
  ASSUME IInv, out # <<>>, out' = Tail(out), UNCHANGED <<sending, held, slow>>,
         Written(Head(out)) \/ (told' = told /\ writer' \in {"aborting", "shut"}),
         writer \in {"select", "draining"},
         writer' \in {"top", "draining", "aborting", "shut"},
         IsClosed => IsClosed',
         once' \in {"unrun", "flagged", "offered", "signalled", "done"}
  PROVE  IInv'
<1>1. out \in Seq(Frames) /\ told \in BOOLEAN
  BY DEF IInv, TypeOK
<1>2. TypeOK'
  <2>1. told' \in BOOLEAN
    BY <1>1, Zenon DEF Written
  <2>2. out' \in Seq(Frames)
    BY <1>1
  <2> QED
    BY <2>1, <2>2 DEF IInv, TypeOK
<1>3. Locked' /\ AcksFollow'
  BY DEF IInv, Locked, AcksFollow, WriteLocked, ReadLocked
<1>4. PushesFollow'
  <2> SUFFICES ASSUME Faithful' PROVE PushesFollow'
    BY DEF PushesFollow
  <2>1. Faithful /\ told' = (Head(out) = "subscribed" \/ (told /\ Head(out) # "unsubscribed"))
    BY DEF Faithful, Written
  <2>2. Len(out') = Len(out) - 1 /\ Len(out) \in Nat \ {0} /\ DOMAIN out' = 1..(Len(out) - 1)
        /\ \A i \in DOMAIN out' : out'[i] = out[i + 1]
    BY <1>1
  <2>3. \A i \in 1..Len(out) : Believes(told, out, i + 1) => Believes(told', out', i)
    BY <1>1, <2>1, TailShifts
  <2>4. ASSUME NEW i \in DOMAIN out', out'[i] = "pub" PROVE Believes(told', out', i)
    BY <1>1, <2>1, <2>2, <2>3, <2>4 DEF IInv, PushesFollow
  <2>5. Announced => Announced'
    <3>1. Len(out) \in 1..Len(out) /\ Len(out') + 1 = Len(out)
      BY <2>2
    <3> QED
      BY <2>3, <3>1 DEF Announced
  <2> QED
    BY <2>1, <2>4, <2>5 DEF IInv, PushesFollow, WriteLocked
<1> QED
  BY <1>2, <1>3, <1>4 DEF IInv

-----------------------------------------------------------------------------
LEMMA OneFrameKept == ASSUME IInv, OneFrame, [Next]_vars PROVE OneFrame'
<1>1. sending \in [Senders -> Frames \cup {Nothing}] /\ "reader" \in Senders
  BY DEF IInv, TypeOK, Senders
<1>2. CASE Reader
  BY <1>1, <1>2 DEF OneFrame, Reader, ReadFails, ProtocolError, Answer, RateLimited,
     AnswerRateLimited, Connect, NotAuthorized, Attach, SendExpiry, Subscribe, Unsubscribe,
     ReaderExits, HubReady, Reading, Check, Nothing
<1>3. CASE Writer
  <2>1. CASE Top \/ SelectClosing \/ SelectHandshake \/ SelectExpires \/ CloseReturned
    BY <2>1 DEF OneFrame, Top, SelectClosing, SelectHandshake, SelectExpires, CloseReturned,
       writerLeaves
  <2>2. CASE HandshakeTimeout
    BY <2>2 DEF OneFrame, HandshakeTimeout, Close, writerLeaves
  <2>7. CASE SelectExpiry
    BY <2>7 DEF OneFrame, SelectExpiry, Close, writerLeaves
  <2>5. CASE SelectPing
    BY <2>5 DEF OneFrame, SelectPing, writerLeaves
  <2>6. CASE SelectContext \/ CloseSocket
    BY <2>6 DEF OneFrame, SelectContext, CloseSocket, writerLeaves
  <2>3. CASE SelectFrame
    BY <2>3 DEF OneFrame, SelectFrame, writerLeaves
  <2>4. CASE Drain
    BY <2>4 DEF OneFrame, Drain, writerLeaves
  <2> QED
    BY <1>3, <2>1, <2>2, <2>3, <2>4, <2>5, <2>6, <2>7 DEF Writer
<1>4. ASSUME NEW w \in Workers, Dispatch(w) PROVE OneFrame'
  BY <1>1, <1>4, ConnAssumption DEF OneFrame, Dispatch, Check, sides, Nothing
<1>5. CASE ControlUnsubscribe
  BY <1>1, <1>5 DEF OneFrame, ControlUnsubscribe, Check, sides, Nothing
<1>6. CASE CloseSlowRemove \/ CloseSlow \/ RevokeRemove \/ Revoke \/ ServerDrains \/ CloseOnce
  BY <1>6 DEF OneFrame, CloseSlowRemove, CloseSlow, RevokeRemove, Revoke, ServerDrains, CloseOnce,
     OfferDisconnect, Signal, Remove, sides
<1>7. ASSUME NEW s \in Senders, Offer(s) PROVE OneFrame'
  BY <1>1, <1>7 DEF OneFrame, Offer, sides
<1>8. CASE UNCHANGED vars
  BY <1>8 DEF OneFrame, vars
<1> QED
  BY <1>2, <1>3, <1>4, <1>5, <1>6, <1>7, <1>8 DEF Next, Outside

LEMMA ReaderKeeps == ASSUME IInv, OneFrame, Reader PROVE IInv'
<1> USE ConnAssumption DEF readerLeaves, hubs, client
<1>0. "reader" \in Senders /\ "reader" \notin Workers /\ "reader" # "control"
  BY DEF Senders
<1>1. CASE ReadFails
  BY <1>1, Lives, QuietKeeps DEF ReadFails, Close, IsClosed, Faithful
<1>2. CASE ProtocolError
  BY <1>2, Lives, QuietKeeps DEF ProtocolError, Close, IsClosed, Faithful
<1>3. CASE RateLimited
  BY <1>3, Lives, QuietKeeps DEF RateLimited, Close, IsClosed, Faithful
<1>4. CASE SendExpiry
  BY <1>4, Lives, QuietKeeps DEF SendExpiry, IsClosed, Faithful
<1>5. CASE ReaderExits
  BY <1>5, Lives, QuietKeeps DEF ReaderExits, IsClosed, Faithful
<1>6. CASE NotAuthorized(3003) \/ NotAuthorized(3008)
  <2>1. ASSUME NEW c, NotAuthorized(c) PROVE IInv'
    BY <2>1, Lives, QuietKeeps DEF NotAuthorized, Close, IsClosed, Faithful
  <2> QED
    BY <1>6, <2>1
<1>7. CASE Answer
  BY <1>0, <1>7, CheckKeeps DEF Answer, Reading, IsClosed, Faithful, Senders, Frames
<1>8. CASE AnswerRateLimited
  BY <1>0, <1>8, CheckKeeps DEF AnswerRateLimited, OneFrame, IsClosed, Faithful, Frames
<1>9. CASE Connect
  <2>1. CASE connectSeen
    BY <1>0, <1>9, <2>1, CheckKeeps DEF Connect, Reading, IsClosed, Faithful, Senders, Frames
  <2>2. CASE ~connectSeen
    BY <1>9, <2>2, Lives, QuietKeeps DEF Connect, IsClosed, Faithful
  <2> QED
    BY <2>1, <2>2
<1>10. ASSUME NEW granted \in BOOLEAN, Attach(granted) PROVE IInv'
  BY <1>0, <1>10, CheckKeeps DEF Attach, OneFrame, LockFree, IsClosed, Faithful, Senders, Frames, WriteLocked
<1>11. CASE Subscribe
  BY <1>0, <1>11, CheckKeeps DEF Subscribe, HubReady, Reading, IsClosed, Faithful, Senders, Frames
<1>12. CASE Unsubscribe
  BY <1>0, <1>12, CheckKeeps DEF Unsubscribe, HubReady, Reading, IsClosed, Faithful, Senders, Frames
<1> QED
  BY <1>1, <1>2, <1>3, <1>4, <1>5, <1>6, <1>7, <1>8, <1>9, <1>10, <1>11, <1>12 DEF Reader

LEMMA WriterKeeps == ASSUME IInv, Writer PROVE IInv'
<1> USE DEF writerLeaves, hubs, client
<1>1. CASE Top \/ SelectClosing
  BY <1>1, Lives, QuietKeeps DEF Top, SelectClosing, IsClosed, Faithful
<1>2. CASE SelectHandshake \/ SelectExpires
  BY <1>2, Lives, QuietKeeps DEF SelectHandshake, SelectExpires, IsClosed, Faithful
<1>3. CASE HandshakeTimeout \/ SelectExpiry
  <2>1. CASE HandshakeTimeout
    BY <2>1, Lives, QuietKeeps DEF HandshakeTimeout, Close, IsClosed, Faithful
  <2>2. CASE SelectExpiry
    BY <2>2, Lives, QuietKeeps DEF SelectExpiry, Close, IsClosed, Faithful
  <2> QED
    BY <1>3, <2>1, <2>2
<1>4. CASE SelectPing \/ SelectContext
  <2>1. CASE SelectPing
    BY <2>1, Lives, QuietKeeps DEF SelectPing, Close, IsClosed, Faithful
  <2>2. CASE SelectContext
    BY <2>2, Lives, QuietKeeps DEF SelectContext, Close, IsClosed, Faithful
  <2> QED
    BY <1>4, <2>1, <2>2
<1>5. CASE CloseReturned
  BY <1>5, Lives, QuietKeeps DEF CloseReturned, IsClosed, Faithful
<1>6. CASE CloseSocket
  BY <1>6, Lives, QuietKeeps DEF CloseSocket, IsClosed, Faithful
<1>7. CASE SelectFrame
  BY <1>7, TakeKeeps DEF SelectFrame, Close, IsClosed, IInv, TypeOK
<1>8. CASE Drain
  <2>1. CASE out = <<>>
    BY <1>8, <2>1, Lives, QuietKeeps DEF Drain, IsClosed, Faithful
  <2>2. CASE out # <<>>
    BY <1>8, <2>2, TakeKeeps DEF Drain, IsClosed, IInv, TypeOK
  <2> QED
    BY <2>1, <2>2
<1> QED
  BY <1>1, <1>2, <1>3, <1>4, <1>5, <1>6, <1>7, <1>8 DEF Writer

LEMMA OutsideKeeps == ASSUME IInv, Outside PROVE IInv'
<1> USE DEF sides, hubs, client
<1>1. ASSUME NEW w \in Workers, Dispatch(w) PROVE IInv'
  BY <1>1, CheckKeeps, ConnAssumption DEF Dispatch, IsClosed, Faithful, Senders, Frames
<1>2. CASE ControlUnsubscribe
  BY <1>2, CheckKeeps, ConnAssumption DEF ControlUnsubscribe, LockFree, WriteLocked, IsClosed,
     Faithful, Senders, Frames
<1>3. CASE CloseSlowRemove
  BY <1>3, DeregisterKeeps DEF CloseSlowRemove, IsClosed, IInv, TypeOK
<1>4. CASE RevokeRemove
  BY <1>4, DeregisterKeeps DEF RevokeRemove, IsClosed, IInv, TypeOK
<1>5. CASE CloseSlow
  <2>1. TypeOK'
    <3>1. once' \in {"unrun", "flagged", "offered", "signalled", "done"} /\ slow' = "closed"
      BY <1>5 DEF CloseSlow, Close, IInv, TypeOK
    <3>2. UNCHANGED <<writer, out, sending, held, told>>
      BY <1>5 DEF CloseSlow
    <3> QED
      BY <3>1, <3>2 DEF IInv, TypeOK
  <2>2. Locked' /\ AcksFollow' /\ PushesFollow'
    BY <1>5 DEF CloseSlow, IInv, Locked, AcksFollow, PushesFollow, Faithful, WriteLocked, ReadLocked
  <2> QED
    BY <2>1, <2>2 DEF IInv
<1>6. CASE Revoke \/ ServerDrains
  <2>1. CASE Revoke
    BY <2>1, Lives, QuietKeeps DEF Revoke, Close, IsClosed, Faithful
  <2>2. CASE ServerDrains
    BY <2>2, Lives, QuietKeeps DEF ServerDrains, Close, IsClosed, Faithful
  <2> QED
    BY <1>6, <2>1, <2>2
<1> QED
  BY <1>1, <1>2, <1>3, <1>4, <1>5, <1>6 DEF Outside

LEMMA CloseOnceKeeps == ASSUME IInv, CloseOnce PROVE IInv'
<1> USE DEF sides, hubs, client
<1>1. CASE Signal
  BY <1>1, Lives, QuietKeeps DEF Signal, IsClosed, Faithful
<1>2. CASE Remove
  BY <1>2, DeregisterKeeps DEF Remove, IsClosed, IInv, TypeOK
<1> QED
  BY <1>1, <1>2, OfferDisconnectKeeps DEF CloseOnce

(* Both hold in every state, whatever the workers, the control goroutine and the  *)
(* client do.                                                               *)
THEOREM Invariance == Spec => [](IInv /\ OneFrame)
<1>1. IInv /\ OneFrame /\ [Next]_vars => IInv'
  <2>1. ASSUME IInv, UNCHANGED vars PROVE IInv'
    BY <2>1, Lives, QuietKeeps DEF vars, IsClosed, Faithful
  <2> QED
    BY <2>1, ReaderKeeps, WriterKeeps, OutsideKeeps, CloseOnceKeeps, OfferKeeps DEF Next
<1> QED
  <2>1. Init => OneFrame
    BY DEF Init, OneFrame
  <2> QED
    BY <1>1, <2>1, InitOK, OneFrameKept, PTL DEF Spec

(* docs/03-client-protocol.md section 5.1: whatever the workers, the control       *)
(* goroutine and the client do, a publication is written only while the client     *)
(* has been told that it is subscribed, unless the connection refused a frame and  *)
(* is on its way to the closer.                                              *)
THEOREM PushesComeInOrder == Spec => PushInOrder
<1>1. IInv /\ [Next]_vars => [Writes("pub") => told \/ slow # "no"]_vars
  <2> SUFFICES ASSUME IInv, Writes("pub"), slow = "no" PROVE told
    OBVIOUS
  <2>1. /\ 1 \in DOMAIN out
        /\ out[1] = "pub"
    <3>1. out \in Seq(Frames) /\ out # <<>> /\ Head(out) = "pub"
      BY DEF Writes, IInv, TypeOK
    <3> QED
      BY <3>1
  <2>2. Believes(told, out, 1)
    BY <2>1 DEF Writes, Faithful, IInv, PushesFollow
  <2> QED
    BY <2>2 DEF Believes
<1> QED
  BY <1>1, Invariance, PTL DEF Spec, PushInOrder
=============================================================================
