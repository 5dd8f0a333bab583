---------------------------- MODULE ClientProofs ----------------------------
(***************************************************************************)
(* The JavaScript client, for any channels, commands and frames in flight.    *)
(*                                                                         *)
(* The argument rests on the wire.  The gateway answers commands in the order   *)
(* it reads them, so the id by which the client finds a command is that of the   *)
(* first that waits.  Wire says so: the replies on their way answer, one by one   *)
(* and in order, the commands the gateway has read; and a subscription granted    *)
(* by a reply on its way still holds, or a push that revokes it comes behind.     *)
(* So what the client makes of a reply is true of this connection.               *)
(*                                                                         *)
(* The rest, Patient, says who waits for what: a subscribe in flight has an      *)
(* entry that waits for it and no unsubscribe in flight beside it, and every     *)
(* unsubscribe in flight is alone on its channel.  It holds for an application   *)
(* that awaits its calls on a channel before the next one.  For another one       *)
(* NoPromiseHangs is false, which the run ClientHangs shows, and so are the two    *)
(* other properties that rest on Patient.                                      *)
(*                                                                         *)
(* Over is what there is of a closed client, whoever closed it and whenever: the   *)
(* application may do so inside a handler that then makes one more socket.        *)
(***************************************************************************)
EXTENDS Client, TLAPS, FiniteSetTheorems

-----------------------------------------------------------------------------
(* The invariant. *)

(* The commands and their replies. *)
Kinds == {"connect", "subscribe", "unsubscribe", "call"}

Cmds ==
  {m \in [cmd : Kinds, of : Channels \cup Calls \cup {None}, own : BOOLEAN, owes : BOOLEAN,
          subs : SUBSET Channels] :
     m.cmd \in {"subscribe", "unsubscribe"} => m.of \in Channels}

(* The replies, and the two frames that answer nothing. *)
Replies == [kind : {"connect"}, grants : SUBSET Channels]
           \cup [kind : {"subscribe"}, ok : BOOLEAN]
           \cup [kind : {"unsubscribe", "call"}]
Frames  == Replies \cup [kind : {"revoked"}, of : Channels] \cup [kind : {"disconnect"}]

Typed ==
  /\ pending \in Seq(Cmds)
  /\ unread \in 0..Len(pending)
  /\ down \in Seq(Frames)

TypeOK ==
  /\ sock \in {"none", "dialing", "open"}
  /\ disc \in {None, "later", "stop"}
  /\ told \in {None, "later", "stop"}
  /\ entry \in [Channels -> {"absent", "pending", "active", "unsubscribing"}]
  /\ owed \subseteq Channels
  /\ leaving \subseteq Channels
  /\ held \subseteq Channels
  /\ call \in [Calls -> {"unasked", "queued", "sent", "settled"}]
  /\ Typed

(* What a connection leaves behind, and what there is without one. *)
Sockets ==
  /\ timer => sock = "none" /\ disc = None
  /\ ready => sock = "open"
  /\ sock # "open" => pending = <<>> /\ down = <<>> /\ told = None /\ held = {}
  /\ sock # "none" => disc \in {None, told}

(* What there is of a closed client: nobody awaits anything, and if a socket is there *)
(* at all, nothing went over it but a connect frame that asks for no channel.      *)
Over ==
  closed =>
    /\ timer \/ sock # "none" => late
    /\ \A c \in Channels : entry[c] = "absent"
    /\ owed = {} /\ leaving = {} /\ held = {}
    /\ \A q \in Calls : call[q] \in {"unasked", "settled"}
    /\ \A i \in DOMAIN pending : pending[i].cmd = "connect" /\ pending[i].subs = {}

(* Nothing is sent before the connect frame is answered, and it is sent once. *)
ConnectFirst ==
  /\ ~ready /\ sock = "open" => Len(pending) = 1 /\ pending[1].cmd = "connect"
  /\ ready => \A i \in DOMAIN pending : pending[i].cmd # "connect"
  /\ ~ready => leaving = {} /\ \A c \in Channels : entry[c] \in {"absent", "pending"}

(* The gateway of h holds c, or the push that revokes it comes after frame k of d. *)
HeldAfter(d, h, c, k) ==
  c \in h \/ \E m \in DOMAIN d : m > k /\ d[m].kind = "revoked" /\ d[m].of = c

(* f finds the replies of d to the first n commands of p, one by one and in order;  *)
(* a subscribe that an entry waits for and that was granted still is, unless an    *)
(* impatient application had it undone.                                      *)
Matches(f, p, n, d, h) ==
  /\ \A i, j \in 1..n : i < j => f[i] < f[j]
  /\ \A k \in DOMAIN d : d[k].kind \in Kinds => \E i \in 1..n : f[i] = k
  /\ \A i \in 1..n : d[f[i]].kind = p[i].cmd
  /\ \A i \in 1..n : p[i].cmd = "subscribe" /\ p[i].own /\ d[f[i]].ok
                     => Impatient \/ HeldAfter(d, h, p[i].of, f[i])

Matched(p, n, d, h) == \E f \in [1..n -> DOMAIN d] : Matches(f, p, n, d, h)

(* A connect reply names what is held, too. *)
Granted(d, h) ==
  \A k \in DOMAIN d : d[k].kind = "connect" => \A c \in d[k].grants : HeldAfter(d, h, c, k)

Wire == Matched(pending, Len(pending) - unread, down, held) /\ Granted(down, held)

Asks(i, what, c) == pending[i].cmd = what /\ pending[i].of = c

(* Who waits for what, in an application that awaits its calls. *)
Subscribing ==
  \A c \in Channels, i \in DOMAIN pending :
    Asks(i, "subscribe", c) /\ pending[i].own =>
      /\ c \in owed
      /\ entry[c] = "pending"
      /\ \A j \in DOMAIN pending : Asks(j, "subscribe", c) /\ pending[j].own => i = j
      /\ \A j \in DOMAIN pending : ~Asks(j, "unsubscribe", c)

Unsubscribing ==
  /\ \A i \in DOMAIN pending : pending[i].cmd = "unsubscribe" => pending[i].of \in leaving
  /\ \A i, j \in DOMAIN pending :
       pending[i].cmd = "unsubscribe" /\ Asks(j, "unsubscribe", pending[i].of) => i = j
  /\ \A c \in leaving : c \notin owed /\ entry[c] \in {"unsubscribing", "absent"}

Wanted == \A c \in Channels : entry[c] \in {"pending", "active"} => c \in wanted

Settled == hung = {} /\ \A i \in DOMAIN pending : ~pending[i].owes

Patient == Subscribing /\ Unsubscribing /\ Wanted /\ Settled /\ ActiveIsHeld

IInv == TypeOK /\ Sockets /\ Over /\ ConnectFirst /\ Wire /\ (Impatient = FALSE => Patient)

-----------------------------------------------------------------------------
(* The wire: replies and the commands they answer.  These lemmas are about any     *)
(* sequence of commands p, of which n were read, and of frames d.              *)

LEMMA HeldAppend ==
  ASSUME NEW d \in Seq(Frames), NEW fr \in Frames, NEW h, NEW g, NEW c, NEW k \in DOMAIN d,
         HeldAfter(d, h, c, k),
         c \in h => c \in g \/ (fr.kind = "revoked" /\ fr.of = c)
  PROVE  HeldAfter(Append(d, fr), g, c, k)
<1>1. /\ Len(d) + 1 \in DOMAIN Append(d, fr)
      /\ Append(d, fr)[Len(d) + 1] = fr
      /\ k < Len(d) + 1
      /\ \A m \in DOMAIN d : m \in DOMAIN Append(d, fr) /\ Append(d, fr)[m] = d[m]
  OBVIOUS
<1> QED
  BY <1>1 DEF HeldAfter

LEMMA HeldTail ==
  ASSUME NEW d \in Seq(Frames), d # <<>>, NEW h, NEW c, NEW k \in DOMAIN d,
         HeldAfter(d, h, c, k)
  PROVE  /\ k > 1 => HeldAfter(Tail(d), h, c, k - 1)
         /\ c \in h \/ \E m \in DOMAIN Tail(d) : Tail(d)[m].kind = "revoked" /\ Tail(d)[m].of = c
<1>1. \A m \in DOMAIN d : m > 1 => m - 1 \in DOMAIN Tail(d) /\ Tail(d)[m - 1] = d[m]
  OBVIOUS
<1>2. \A m \in DOMAIN d : m > k => m > 1 /\ m - 1 > k - 1
  OBVIOUS
<1> QED
  BY <1>1, <1>2 DEF HeldAfter

(* A push or a disconnect is sent. *)
LEMMA AppendOther ==
  ASSUME NEW p \in Seq(Cmds), NEW n \in 0..Len(p), NEW d \in Seq(Frames), NEW fr \in Frames,
         fr.kind \notin Kinds, NEW h, NEW g,
         \A c \in h : c \in g \/ (fr.kind = "revoked" /\ fr.of = c),
         Matched(p, n, d, h)
  PROVE  Matched(p, n, Append(d, fr), g)
<1> DEFINE e == Append(d, fr)
<1>1. PICK f \in [1..n -> DOMAIN d] : Matches(f, p, n, d, h)
  BY DEF Matched
<1>2. /\ DOMAIN d \subseteq DOMAIN e
      /\ \A k \in DOMAIN d : e[k] = d[k]
      /\ \A k \in DOMAIN e : k \in DOMAIN d \/ e[k] = fr
  OBVIOUS
<1>3. f \in [1..n -> DOMAIN e]
  BY <1>2
<1>4. \A i \in 1..n : HeldAfter(d, h, p[i].of, f[i]) => HeldAfter(e, g, p[i].of, f[i])
  BY HeldAppend
<1> HIDE DEF e
<1>5. Matches(f, p, n, e, g)
  BY <1>1, <1>2, <1>4 DEF Matches
<1>6. Matched(p, n, e, g)
  BY <1>3, <1>5 DEF Matched
<1> QED
  BY <1>6 DEF e

(* The next command is read and answered. *)
LEMMA AppendReply ==
  ASSUME NEW p \in Seq(Cmds), NEW n \in 0..(Len(p) - 1), NEW d \in Seq(Frames),
         NEW fr \in Frames, fr.kind = p[n + 1].cmd, NEW h, NEW g,
         \A i \in 1..n : p[i].cmd = "subscribe" /\ p[i].own /\ p[i].of \in h
                         => Impatient \/ p[i].of \in g,
         fr.kind = "subscribe" /\ fr.ok => p[n + 1].of \in g,
         Matched(p, n, d, h)
  PROVE  Matched(p, n + 1, Append(d, fr), g)
<1> DEFINE e == Append(d, fr)
           l == Len(d) + 1
<1>1. PICK f \in [1..n -> DOMAIN d] : Matches(f, p, n, d, h)
  BY DEF Matched
<1> DEFINE f1 == [i \in 1..(n + 1) |-> IF i \in 1..n THEN f[i] ELSE l]
<1>2. /\ DOMAIN d \subseteq DOMAIN e
      /\ \A k \in DOMAIN d : e[k] = d[k] /\ k < l
      /\ \A k \in DOMAIN e : k \in DOMAIN d \/ k = l
      /\ l \in DOMAIN e /\ e[l] = fr
  OBVIOUS
<1>3. \A i \in 1..(n + 1) : i \in 1..n \/ i = n + 1
  OBVIOUS
<1>4. /\ f1 \in [1..(n + 1) -> DOMAIN e]
      /\ \A i \in 1..n : i \in 1..(n + 1) /\ f1[i] = f[i] /\ f[i] \in DOMAIN d
      /\ n + 1 \in 1..(n + 1) /\ f1[n + 1] = l
  BY <1>2
<1>5. \A i \in 1..n : HeldAfter(d, h, p[i].of, f[i]) /\ (p[i].of \in h => p[i].of \in g)
                        => HeldAfter(e, g, p[i].of, f[i])
  BY HeldAppend
<1>6. \A i, j \in 1..(n + 1) : i < j => f1[i] < f1[j]
  <2> SUFFICES ASSUME NEW i \in 1..(n + 1), NEW j \in 1..(n + 1), i < j PROVE f1[i] < f1[j]
    OBVIOUS
  <2>1. i \in 1..n
    OBVIOUS
  <2>2. CASE j \in 1..n
    BY <1>1, <1>4, <2>1, <2>2 DEF Matches
  <2>3. CASE j = n + 1
    BY <1>2, <1>4, <2>1, <2>3
  <2> QED
    BY <2>2, <2>3
<1> HIDE DEF e, f1, l
<1>7. \A k \in DOMAIN e : e[k].kind \in Kinds => \E i \in 1..(n + 1) : f1[i] = k
  BY <1>1, <1>2, <1>4 DEF Matches
<1>8. \A i \in 1..(n + 1) : e[f1[i]].kind = p[i].cmd
  BY <1>1, <1>2, <1>3, <1>4 DEF Matches
<1>9. \A i \in 1..(n + 1) : p[i].cmd = "subscribe" /\ p[i].own /\ e[f1[i]].ok
                             => Impatient \/ HeldAfter(e, g, p[i].of, f1[i])
  <2> SUFFICES ASSUME NEW i \in 1..(n + 1), p[i].cmd = "subscribe", p[i].own, e[f1[i]].ok,
                      ~Impatient
               PROVE  HeldAfter(e, g, p[i].of, f1[i])
    OBVIOUS
  <2>1. CASE i \in 1..n
    <3>1. e[f1[i]] = d[f[i]]
      BY <1>2, <1>4, <2>1
    <3>2. HeldAfter(d, h, p[i].of, f[i])
      BY <1>1, <2>1, <3>1 DEF Matches
    <3> QED
      BY <1>4, <1>5, <2>1, <3>2
  <2>2. CASE i = n + 1
    BY <1>2, <1>4, <2>2 DEF HeldAfter
  <2> QED
    BY <1>3, <2>1, <2>2
<1>10. Matched(p, n + 1, e, g)
  BY <1>4, <1>6, <1>7, <1>8, <1>9 DEF Matched, Matches
<1> QED
  BY <1>10 DEF e

(* The client takes a frame that answers nothing. *)
LEMMA TakeOther ==
  ASSUME NEW p \in Seq(Cmds), NEW n \in 0..Len(p), NEW d \in Seq(Frames), d # <<>>,
         Head(d).kind \notin Kinds, NEW h, \A i \in DOMAIN p : p[i].cmd \in Kinds,
         Matched(p, n, d, h)
  PROVE  Matched(p, n, Tail(d), h)
<1>1. PICK f \in [1..n -> DOMAIN d] : Matches(f, p, n, d, h)
  BY DEF Matched
<1> DEFINE e == Tail(d)
           f1 == [i \in 1..n |-> f[i] - 1]
<1>2. /\ \A k \in DOMAIN d : k \in Nat /\ (k > 1 => k - 1 \in DOMAIN e /\ e[k - 1] = d[k])
      /\ \A k \in DOMAIN e : k \in Nat /\ k + 1 \in DOMAIN d /\ e[k] = d[k + 1]
      /\ Head(d) = d[1]
      /\ \A k \in DOMAIN d : k = 1 \/ k > 1
  OBVIOUS
<1>3. \A i \in 1..n : f[i] > 1
  BY <1>1, <1>2 DEF Matches
<1>4. /\ f1 \in [1..n -> DOMAIN e]
      /\ \A i \in 1..n : f1[i] = f[i] - 1 /\ e[f1[i]] = d[f[i]]
  BY <1>2, <1>3
<1>5. \A i \in 1..n : HeldAfter(d, h, p[i].of, f[i]) => HeldAfter(e, h, p[i].of, f1[i])
  BY <1>3, <1>4, HeldTail
<1>6. \A i, j \in 1..n : i < j => f1[i] < f1[j]
  <2> SUFFICES ASSUME NEW i \in 1..n, NEW j \in 1..n, i < j PROVE f1[i] < f1[j]
    OBVIOUS
  <2>1. f[i] < f[j]
    BY <1>1 DEF Matches
  <2>2. f[i] \in Nat /\ f[j] \in Nat /\ f1[i] = f[i] - 1 /\ f1[j] = f[j] - 1
    BY <1>2, <1>4
  <2> HIDE DEF f1
  <2> QED
    BY <2>1, <2>2
<1>7. \A k \in DOMAIN e : e[k].kind \in Kinds => \E i \in 1..n : f1[i] = k
  BY <1>1, <1>2, <1>4 DEF Matches
<1> HIDE DEF e, f1
<1>8. Matches(f1, p, n, e, h)
  BY <1>1, <1>4, <1>5, <1>6, <1>7 DEF Matches
<1>9. Matched(p, n, e, h)
  BY <1>4, <1>8 DEF Matched
<1> QED
  BY <1>9 DEF e

(* The client takes a reply: it is the reply to its first command. *)
LEMMA TakeReply ==
  ASSUME NEW p \in Seq(Cmds), NEW n \in 0..Len(p), NEW d \in Seq(Frames), d # <<>>,
         Head(d).kind \in Kinds, NEW h,
         Matched(p, n, d, h)
  PROVE  /\ n > 0 /\ p # <<>>
         /\ Head(p).cmd = Head(d).kind
         /\ Head(p).cmd = "subscribe" /\ Head(p).own /\ Head(d).ok =>
              \/ Impatient \/ Head(p).of \in h
              \/ \E m \in DOMAIN Tail(d) : Tail(d)[m].kind = "revoked" /\ Tail(d)[m].of = Head(p).of
         /\ Matched(Tail(p), n - 1, Tail(d), h)
<1>1. PICK f \in [1..n -> DOMAIN d] : Matches(f, p, n, d, h)
  BY DEF Matched
<1> DEFINE e == Tail(d)
           q == Tail(p)
           f1 == [i \in 1..(n - 1) |-> f[i + 1] - 1]
<1>2. /\ \A k \in DOMAIN d : k \in Nat /\ (k > 1 => k - 1 \in DOMAIN e /\ e[k - 1] = d[k])
      /\ \A k \in DOMAIN e : k \in Nat /\ k + 1 \in DOMAIN d /\ e[k] = d[k + 1] /\ k + 1 > 1
      /\ Head(d) = d[1]
      /\ 1 \in DOMAIN d
      /\ \A k \in DOMAIN d : k = 1 \/ k > 1
  OBVIOUS
<1>3. PICK i0 \in 1..n : f[i0] = 1
  BY <1>1, <1>2 DEF Matches
<1>4. i0 = 1 /\ n > 0 /\ p # <<>> /\ Head(p) = p[1]
  <2>1. 1 \in 1..n /\ (i0 # 1 => 1 < i0)
    OBVIOUS
  <2>2. i0 # 1 => f[1] < f[i0]
    BY <1>1, <2>1 DEF Matches
  <2> QED
    BY <1>2, <1>3, <2>1, <2>2
<1>5. \A i \in 1..(n - 1) : i \in Nat /\ i + 1 \in 1..n /\ q[i] = p[i + 1] /\ 1 < i + 1
  BY <1>4
<1>6. \A i \in 1..(n - 1) : f[i + 1] \in DOMAIN d /\ f[i + 1] > 1
  BY <1>1, <1>2, <1>3, <1>4, <1>5 DEF Matches
<1>7. /\ f1 \in [1..(n - 1) -> DOMAIN e]
      /\ \A i \in 1..(n - 1) : f1[i] = f[i + 1] - 1 /\ e[f1[i]] = d[f[i + 1]]
  BY <1>2, <1>5, <1>6
<1>8. \A i \in 1..(n - 1) : HeldAfter(d, h, p[i + 1].of, f[i + 1]) => HeldAfter(e, h, q[i].of, f1[i])
  BY <1>5, <1>6, <1>7, HeldTail
<1>9. \A i, j \in 1..(n - 1) : i < j => f1[i] < f1[j]
  <2> SUFFICES ASSUME NEW i \in 1..(n - 1), NEW j \in 1..(n - 1), i < j PROVE f1[i] < f1[j]
    OBVIOUS
  <2>1. f[i + 1] < f[j + 1]
    BY <1>1, <1>5 DEF Matches
  <2> QED
    BY <1>2, <1>6, <1>7, <2>1
<1>10. \A k \in DOMAIN e : e[k].kind \in Kinds => \E i \in 1..(n - 1) : f1[i] = k
  <2> SUFFICES ASSUME NEW k \in DOMAIN e, e[k].kind \in Kinds PROVE \E i \in 1..(n - 1) : f1[i] = k
    OBVIOUS
  <2>1. PICK i \in 1..n : f[i] = k + 1
    BY <1>1, <1>2 DEF Matches
  <2>2. i # 1
    BY <1>2, <1>3, <1>4, <2>1
  <2>3. i - 1 \in 1..(n - 1) /\ (i - 1) + 1 = i
    BY <2>2
  <2>4. f1[i - 1] = k
    BY <1>2, <2>1, <2>3
  <2> QED
    BY <2>3, <2>4
<1> HIDE DEF e, f1, q
<1>11. \A i \in 1..(n - 1) : e[f1[i]].kind = q[i].cmd
  <2> SUFFICES ASSUME NEW i \in 1..(n - 1) PROVE e[f1[i]].kind = q[i].cmd
    OBVIOUS
  <2>1. d[f[i + 1]].kind = p[i + 1].cmd
    BY <1>1, <1>5 DEF Matches
  <2> QED
    BY <1>5, <1>7, <2>1
<1>12. \A i \in 1..(n - 1) : q[i].cmd = "subscribe" /\ q[i].own /\ e[f1[i]].ok
                             => Impatient \/ HeldAfter(e, h, q[i].of, f1[i])
  BY <1>1, <1>5, <1>7, <1>8 DEF Matches
<1>13. Matched(q, n - 1, e, h)
  BY <1>7, <1>9, <1>10, <1>11, <1>12 DEF Matched, Matches
<1>14. Head(p).cmd = Head(d).kind
  BY <1>1, <1>2, <1>3, <1>4 DEF Matches
<1>15. Head(p).cmd = "subscribe" /\ Head(p).own /\ Head(d).ok => Impatient \/ HeldAfter(d, h, Head(p).of, 1)
  BY <1>1, <1>2, <1>3, <1>4 DEF Matches
<1> QED
  BY <1>2, <1>4, <1>13, <1>14, <1>15, HeldTail DEF e, q

(* Only the commands that were read count, and of these what they were for. *)
LEMMA SameCommands ==
  ASSUME NEW p \in Seq(Cmds), NEW q \in Seq(Cmds), NEW n \in Nat, NEW d \in Seq(Frames), NEW h,
         \A i \in 1..n : /\ q[i].cmd = p[i].cmd /\ q[i].of = p[i].of
                         /\ q[i].own => p[i].own,
         Matched(p, n, d, h)
  PROVE  Matched(q, n, d, h)
<1>1. PICK f \in [1..n -> DOMAIN d] : Matches(f, p, n, d, h)
  BY DEF Matched
<1>2. Matches(f, q, n, d, h)
  BY <1>1 DEF Matches
<1> QED
  BY <1>2 DEF Matched

LEMMA NothingSent ==
  ASSUME NEW p, NEW h
  PROVE  Matched(p, 0, <<>>, h) /\ Granted(<<>>, h)
<1>1. 1..0 = {} /\ DOMAIN <<>> = {}
  OBVIOUS
<1>2. [i \in 1..0 |-> 0] \in [1..0 -> DOMAIN <<>>]
  BY <1>1
<1> QED
  BY <1>1, <1>2 DEF Matched, Matches, Granted

LEMMA GrantedAppend ==
  ASSUME NEW d \in Seq(Frames), NEW fr \in Frames, NEW h, NEW g, Granted(d, h),
         \A c \in h : \/ c \in g \/ (fr.kind = "revoked" /\ fr.of = c)
                     \/ \A k \in DOMAIN d : d[k].kind # "connect",
         fr.kind = "connect" => fr.grants \subseteq g
  PROVE  Granted(Append(d, fr), g)
<1> DEFINE e == Append(d, fr)
<1>1. \A k \in DOMAIN e : (k \in DOMAIN d /\ e[k] = d[k]) \/ e[k] = fr
  OBVIOUS
<1>2. ASSUME NEW k \in DOMAIN d, d[k].kind = "connect", NEW c \in d[k].grants
      PROVE  HeldAfter(e, g, c, k)
  BY <1>2, HeldAppend DEF Granted
<1>3. ASSUME NEW k \in DOMAIN e, fr.kind = "connect", NEW c \in fr.grants
      PROVE  HeldAfter(e, g, c, k)
  BY <1>3 DEF HeldAfter
<1> HIDE DEF e
<1>4. Granted(e, g)
  BY <1>1, <1>2, <1>3 DEF Granted
<1> QED
  BY <1>4 DEF e

LEMMA GrantedTail ==
  ASSUME NEW d \in Seq(Frames), d # <<>>, NEW h, Granted(d, h)
  PROVE  Granted(Tail(d), h)
<1>1. \A k \in DOMAIN Tail(d) : k + 1 \in DOMAIN d /\ Tail(d)[k] = d[k + 1] /\ k + 1 > 1 /\ (k + 1) - 1 = k
  OBVIOUS
<1> QED
  BY <1>1, HeldTail DEF Granted

-----------------------------------------------------------------------------
(* The commands. *)

(* q holds the commands of p, of which fewer are an entry's own. *)
Weaker(q, p) ==
  /\ q \in Seq(Cmds)
  /\ Len(q) = Len(p)
  /\ \A i \in DOMAIN p : /\ q[i].cmd = p[i].cmd /\ q[i].of = p[i].of
                         /\ q[i].own => p[i].own

LEMMA CommandTyped ==
  ASSUME NEW what \in Kinds, NEW c \in Channels \cup Calls, what # "call" => c \in Channels
  PROVE  /\ Command(what, c) \in Cmds
         /\ Command(what, c).cmd = what
         /\ Command(what, c).of = c
         /\ Command(what, c).own
         /\ ~Command(what, c).owes
BY DEF Command, Cmds

LEMMA DisownShape ==
  ASSUME NEW s \in Seq(Cmds), NEW c
  PROVE  /\ Weaker(Disown(s, c), s)
         /\ \A i \in DOMAIN s :
              /\ Disown(s, c)[i].own => ~(s[i].cmd = "subscribe" /\ s[i].of = c)
              /\ ~(s[i].cmd = "subscribe" /\ s[i].of = c /\ s[i].own) => Disown(s, c)[i] = s[i]
<1> DEFINE q == Disown(s, c)
<1>1. q = [i \in 1..Len(s) |->
             IF s[i].cmd = "subscribe" /\ s[i].of = c /\ s[i].own
             THEN [s[i] EXCEPT !.own = FALSE, !.owes = c \in owed]
             ELSE s[i]]
  BY DEF Disown
<1>2. ASSUME NEW i \in 1..Len(s)
      PROVE  /\ q[i] \in Cmds
             /\ q[i].cmd = s[i].cmd /\ q[i].of = s[i].of
             /\ q[i].own => s[i].own /\ ~(s[i].cmd = "subscribe" /\ s[i].of = c)
             /\ ~(s[i].cmd = "subscribe" /\ s[i].of = c /\ s[i].own) => q[i] = s[i]
  <2>1. s[i] \in Cmds
    OBVIOUS
  <2>2. CASE s[i].cmd = "subscribe" /\ s[i].of = c /\ s[i].own
    <3>1. PICK b \in BOOLEAN : b = (c \in owed)
      <4>1. (c \in owed) \in BOOLEAN
        OBVIOUS
      <4> QED
        BY <4>1, Zenon
    <3>2. q[i] = [s[i] EXCEPT !.own = FALSE, !.owes = b]
      BY <1>1, <2>2, <3>1
    <3> HIDE DEF q
    <3> QED
      BY <2>1, <2>2, <3>2 DEF Cmds
  <2>3. CASE ~(s[i].cmd = "subscribe" /\ s[i].of = c /\ s[i].own)
    <3>1. q[i] = s[i]
      BY <1>1, <2>3
    <3> HIDE DEF q
    <3> QED
      BY <2>1, <2>3, <3>1
  <2> QED
    BY <2>2, <2>3
<1>3. q \in Seq(Cmds) /\ Len(q) = Len(s)
  <2> HIDE DEF q
  <2>1. q \in [1..Len(s) -> Cmds]
    BY <1>1, <1>2
  <2>2. PICK m \in Nat : m = Len(s)
    OBVIOUS
  <2>3. q \in [1..m -> Cmds]
    BY <2>1, <2>2
  <2>4. q \in Seq(Cmds) /\ Len(q) = m
    BY <2>3
  <2> QED
    BY <2>2, <2>4
<1> QED
  BY <1>2, <1>3 DEF Weaker

(* q holds the commands of s, of which no subscribe for c is an entry's own. *)
Disowned(q, s, c) ==
  /\ Weaker(q, s)
  /\ \A i \in DOMAIN s :
       /\ q[i].own => ~(s[i].cmd = "subscribe" /\ s[i].of = c)
       /\ q[i].owes => s[i].owes
       /\ q[i].subs = s[i].subs

LEMMA DisownSettledShape ==
  ASSUME NEW s \in Seq(Cmds), NEW c
  PROVE  Disowned(DisownSettled(s, {c}), s, c)
<1> DEFINE q == DisownSettled(s, {c})
<1>1. q = [i \in 1..Len(s) |->
             IF s[i].cmd = "subscribe" /\ s[i].of \in {c} THEN [s[i] EXCEPT !.own = FALSE] ELSE s[i]]
  BY DEF DisownSettled
<1>2. ASSUME NEW i \in 1..Len(s)
      PROVE  /\ q[i] \in Cmds
             /\ q[i].cmd = s[i].cmd /\ q[i].of = s[i].of
             /\ q[i].own => s[i].own /\ ~(s[i].cmd = "subscribe" /\ s[i].of = c)
             /\ q[i].owes => s[i].owes
             /\ q[i].subs = s[i].subs
  <2>1. s[i] \in Cmds
    OBVIOUS
  <2>2. CASE s[i].cmd = "subscribe" /\ s[i].of = c
    <3>1. q[i] = [s[i] EXCEPT !.own = FALSE]
      BY <1>1, <2>2
    <3> HIDE DEF q
    <3> QED
      BY <2>1, <2>2, <3>1 DEF Cmds
  <2>3. CASE ~(s[i].cmd = "subscribe" /\ s[i].of = c)
    <3>1. q[i] = s[i]
      BY <1>1, <2>3
    <3> HIDE DEF q
    <3> QED
      BY <2>1, <2>3, <3>1
  <2> QED
    BY <2>2, <2>3
<1>3. q \in Seq(Cmds) /\ Len(q) = Len(s)
  <2> HIDE DEF q
  <2>1. q \in [1..Len(s) -> Cmds]
    BY <1>1, <1>2
  <2>2. PICK m \in Nat : m = Len(s)
    OBVIOUS
  <2>3. q \in [1..m -> Cmds]
    BY <2>1, <2>2
  <2>4. q \in Seq(Cmds) /\ Len(q) = m
    BY <2>3
  <2> QED
    BY <2>2, <2>4
<1>4. DOMAIN s = 1..Len(s)
  OBVIOUS
<1>5. Weaker(q, s)
  <2> HIDE DEF q
  <2> QED
    BY <1>2, <1>3, <1>4 DEF Weaker
<1>6. \A i \in DOMAIN s : /\ q[i].own => ~(s[i].cmd = "subscribe" /\ s[i].of = c)
                          /\ q[i].owes => s[i].owes
                          /\ q[i].subs = s[i].subs
  BY <1>2, <1>4
<1> HIDE DEF q
<1>7. Disowned(q, s, c)
  BY <1>5, <1>6 DEF Disowned
<1> QED
  BY <1>7 DEF q

(* The commands that waited for the connect reply make a sequence. *)
LEMMA WaitedShape ==
  /\ Waited \in Seq(Cmds)
  /\ \A i \in DOMAIN Waited : Waited[i].cmd = "call" /\ ~Waited[i].owes
  /\ DOMAIN Waited # {} => Queued # {}
<1> DEFINE S == {Command("call", q) : q \in Queued}
<1>1. IsFiniteSet(Queued)
  BY FS_Subset, ClientAssumption DEF Queued
<1>2. IsFiniteSet(S)
  <2> DEFINE f == [q \in Queued |-> Command("call", q)]
  <2>1. f \in Surjection(Queued, S)
    BY DEF Surjection
  <2> QED
    BY <1>1, <2>1, FS_Surjection
<1>3. PICK b : b \in Bijection(1..Cardinality(S), S)
  BY <1>2, FS_CardinalityType DEF ExistsBijection
<1>4. \E f \in [1..Cardinality(S) -> S] : IsInjective(f)
  BY <1>3 DEF Bijection, Injection, IsInjective
<1>5. Waited \in [1..Cardinality(S) -> S] /\ Cardinality(S) \in Nat
  BY <1>2, <1>4, FS_CardinalityType DEF Waited, SetToSeq
<1>6. \A x \in S : x \in Cmds /\ x.cmd = "call" /\ ~x.owes
  BY CommandTyped DEF Queued, Kinds
<1>7. S # {} => Queued # {}
  OBVIOUS
<1> HIDE DEF S
<1> QED
  BY <1>5, <1>6, <1>7

LEMMA Concatenated ==
  ASSUME NEW q \in Seq(Cmds), NEW s \in Seq(Cmds), NEW t, t = q \o s
  PROVE  /\ t \in Seq(Cmds)
         /\ Len(t) = Len(q) + Len(s)
         /\ DOMAIN q \subseteq DOMAIN t
         /\ \A i \in DOMAIN q : t[i] = q[i]
         /\ \A i \in DOMAIN t : i \in DOMAIN q \/ (i - Len(q) \in DOMAIN s /\ t[i] = s[i - Len(q)])
<1>1. t \in Seq(Cmds) /\ Len(t) = Len(q) + Len(s)
  OBVIOUS
<1>2. \A i \in DOMAIN q : i \in DOMAIN t /\ t[i] = q[i]
  OBVIOUS
<1>3. ASSUME NEW i \in DOMAIN t, i \notin DOMAIN q
      PROVE  i - Len(q) \in DOMAIN s /\ t[i] = s[i - Len(q)]
  <2>1. i \in 1..(Len(q) + Len(s)) /\ i > Len(q)
    BY <1>1, <1>3
  <2> QED
    BY <2>1
<1>4. DOMAIN q \subseteq DOMAIN t
  BY <1>2
<1> QED
  BY <1>1, <1>2, <1>3, <1>4, Zenon

-----------------------------------------------------------------------------
(* Steps of the wire. *)

LEMMA Untouched == ASSUME Wire, UNCHANGED <<pending, unread, down, held>> PROVE Wire'
BY DEF Wire

LEMMA Cut == ASSUME CutWire PROVE Wire' /\ Typed'
<1>1. 0 \in 0..Len(<<>>) /\ Len(<<>>) - 0 = 0 /\ <<>> \in Seq(Cmds) /\ <<>> \in Seq(Frames)
  OBVIOUS
<1>2. /\ pending' = <<>> /\ unread' = 0 /\ down' = <<>>
      /\ (Len(pending) - unread)' = 0
  BY <1>1 DEF CutWire
<1>3. Matched(<<>>, 0, <<>>, held') /\ Granted(<<>>, held')
  BY NothingSent
<1> QED
  BY <1>1, <1>2, <1>3 DEF Wire, Typed

(* Commands written behind a queue that was weakened. *)
Behind(p, q, s, t) ==
  /\ t \in Seq(Cmds) /\ Len(t) = Len(p) + Len(s)
  /\ \A i \in DOMAIN p : t[i] = q[i]

LEMMA WrittenBehind ==
  ASSUME NEW p \in Seq(Cmds), NEW q, Weaker(q, p), NEW s \in Seq(Cmds)
  PROVE  Behind(p, q, s, q \o s)
<1>1. q \in Seq(Cmds) /\ Len(q) = Len(p) /\ DOMAIN q = DOMAIN p
  BY DEF Weaker
<1>2. ASSUME NEW r \in Seq(Cmds) PROVE Behind(r, r, s, r \o s)
  BY DEF Behind
<1>3. Behind(q, q, s, q \o s)
  BY <1>1, <1>2
<1> QED
  BY <1>1, <1>3 DEF Behind

(* The client writes commands, and perhaps disowns some that wait. *)
LEMMA Sends ==
  ASSUME Typed, Wire, NEW q, Weaker(q, pending), NEW s \in Seq(Cmds),
         pending' = q \o s, unread' = unread + Len(s), UNCHANGED <<down, held>>
  PROVE  Wire' /\ Typed'
<1> DEFINE n == Len(pending) - unread
<1> USE DEF Typed
<1>1. /\ pending' \in Seq(Cmds) /\ Len(pending') = Len(pending) + Len(s)
      /\ \A i \in DOMAIN pending : pending'[i] = q[i]
  <2>1. Behind(pending, q, s, pending')
    <3>1. pending \in Seq(Cmds)
      OBVIOUS
    <3> HIDE DEF Typed
    <3> QED
      BY <3>1, WrittenBehind
  <2> QED
    BY <2>1 DEF Behind
<1>2. /\ unread' \in 0..Len(pending')
      /\ Len(pending') - unread' = n
      /\ n \in Nat /\ 1..n \subseteq DOMAIN pending
  BY <1>1
<1>3. Matched(pending', n, down, held)
  <2>1. Matched(pending, n, down, held)
    BY DEF Wire
  <2>2. \A i \in 1..n : /\ pending'[i].cmd = pending[i].cmd /\ pending'[i].of = pending[i].of
                        /\ pending'[i].own => pending[i].own
    BY <1>1, <1>2 DEF Weaker
  <2> HIDE DEF n, Typed
  <2>3. PICK f \in [1..n -> DOMAIN down] : Matches(f, pending, n, down, held)
    BY <2>1 DEF Matched
  <2>4. Matches(f, pending', n, down, held)
    BY <2>2, <2>3 DEF Matches
  <2> QED
    BY <2>4 DEF Matched
<1>4. Wire'
  BY <1>2, <1>3 DEF Wire
<1> QED
  BY <1>1, <1>2, <1>4

(* The client takes a reply. *)
LEMMA TakesReply ==
  ASSUME Typed, Wire, down # <<>>, Head(down).kind \in Kinds, down' = Tail(down),
         NEW q, pending # <<>> => Weaker(q, Tail(pending)), NEW s \in Seq(Cmds),
         pending' = q \o s, unread' = unread + Len(s), UNCHANGED held
  PROVE  Wire' /\ Typed'
<1> DEFINE n == Len(pending) - unread
           p == Tail(pending)
<1> USE DEF Typed
<1>1. /\ n > 0 /\ pending # <<>>
      /\ Matched(p, n - 1, down', held)
  BY TakeReply DEF Wire
<1>2. Weaker(q, p) /\ p \in Seq(Cmds) /\ Len(p) = Len(pending) - 1
  <2>1. Weaker(q, p)
    BY <1>1
  <2>2. pending \in Seq(Cmds) /\ pending # <<>>
    BY <1>1
  <2>3. p \in Seq(Cmds) /\ Len(p) = Len(pending) - 1
    BY <2>2
  <2> QED
    BY <2>1, <2>3
<1>3. /\ pending' \in Seq(Cmds) /\ Len(pending') = Len(pending) - 1 + Len(s)
      /\ \A i \in DOMAIN p : pending'[i] = q[i]
  <2> HIDE DEF Typed, p
  <2>1. Behind(p, q, s, pending')
    BY <1>2, WrittenBehind
  <2> QED
    BY <1>2, <2>1 DEF Behind
<1>4. /\ unread' \in 0..Len(pending')
      /\ Len(pending') - unread' = n - 1
      /\ n - 1 \in Nat /\ 1..(n - 1) \subseteq DOMAIN p
      /\ down' \in Seq(Frames)
  <2>1. Len(pending) \in Nat /\ Len(s) \in Nat /\ unread \in 0..Len(pending) /\ n > 0
    BY <1>1
  <2>2. Len(pending') = Len(pending) - 1 + Len(s) /\ unread' = unread + Len(s)
    BY <1>3
  <2>3. unread' \in 0..Len(pending') /\ Len(pending') - unread' = n - 1 /\ n - 1 \in Nat
    BY <2>1, <2>2
  <2>4. 1..(n - 1) \subseteq DOMAIN p
    BY <1>2, <2>1
  <2>5. down' \in Seq(Frames)
    OBVIOUS
  <2> QED
    BY <2>3, <2>4, <2>5
<1>5. Matched(pending', n - 1, down', held)
  <2>1. \A i \in 1..(n - 1) : /\ pending'[i].cmd = p[i].cmd /\ pending'[i].of = p[i].of
                              /\ pending'[i].own => p[i].own
    BY <1>2, <1>3, <1>4 DEF Weaker
  <2> HIDE DEF n, p
  <2> QED
    BY <1>1, <1>2, <1>3, <1>4, <2>1, SameCommands
<1>6. Granted(down', held)
  BY GrantedTail DEF Wire
<1>7. Wire'
  BY <1>4, <1>5, <1>6 DEF Wire
<1> QED
  BY <1>3, <1>4, <1>7

(* The client takes a push or a disconnect. *)
LEMMA TakesOther ==
  ASSUME Typed, Wire, down # <<>>, Head(down).kind \notin Kinds, down' = Tail(down),
         Weaker(pending', pending), UNCHANGED <<unread, held>>
  PROVE  Wire' /\ Typed'
<1> DEFINE n == Len(pending) - unread
<1> USE DEF Typed
<1>1. n \in Nat /\ n \in 0..Len(pending) /\ 1..n \subseteq DOMAIN pending
  OBVIOUS
<1>2. \A i \in DOMAIN pending : pending[i].cmd \in Kinds
  <2>1. \A i \in DOMAIN pending : pending[i] \in Cmds
    OBVIOUS
  <2> QED
    BY <2>1 DEF Cmds
<1>3. Matched(pending, n, down', held)
  BY <1>1, <1>2, TakeOther DEF Wire
<1>4. pending' \in Seq(Cmds) /\ Len(pending') - unread' = n /\ unread' \in 0..Len(pending')
      /\ down' \in Seq(Frames)
  BY DEF Weaker
<1>5. Matched(pending', n, down', held)
  <2>1. \A i \in 1..n : /\ pending'[i].cmd = pending[i].cmd /\ pending'[i].of = pending[i].of
                        /\ pending'[i].own => pending[i].own
    BY <1>1 DEF Weaker
  <2> HIDE DEF n
  <2> QED
    BY <1>1, <1>3, <1>4, <2>1, SameCommands
<1>6. Granted(down', held)
  BY GrantedTail DEF Wire
<1>7. Wire'
  BY <1>4, <1>5, <1>6 DEF Wire
<1> QED
  BY <1>4, <1>7

(* The gateway answers the next command. *)
LEMMA AnswersReply ==
  ASSUME Typed, Wire, unread > 0, NEW fr \in Frames, fr.kind = Next1.cmd,
         down' = Append(down, fr), unread' = unread - 1, UNCHANGED pending,
         fr.kind = "subscribe" /\ fr.ok => Next1.of \in held',
         fr.kind = "connect" => fr.grants \subseteq held',
         \A c \in held : \/ c \in held'
                         \/ /\ \A k \in DOMAIN down : down[k].kind # "connect"
                            /\ \A i \in DOMAIN pending :
                                 Asks(i, "subscribe", c) /\ pending[i].own => Impatient
  PROVE  Wire' /\ Typed'
<1> DEFINE n == Len(pending) - unread
<1> USE DEF Typed
<1>1. /\ n \in 0..(Len(pending) - 1) /\ 1..n \subseteq DOMAIN pending
      /\ Next1 = pending[n + 1]
      /\ Len(pending) - (unread - 1) = n + 1
      /\ unread' \in 0..Len(pending')
      /\ down' \in Seq(Frames)
  BY DEF Next1
<1>2. Matched(pending, n + 1, down', held')
  <2>1. Matched(pending, n, down, held)
    BY DEF Wire
  <2>2. \A i \in 1..n : pending[i].cmd = "subscribe" /\ pending[i].own /\ pending[i].of \in held
                        => Impatient \/ pending[i].of \in held'
    BY <1>1 DEF Asks
  <2> HIDE DEF n
  <2> QED
    BY <1>1, <2>1, <2>2, AppendReply
<1>3. Granted(down', held')
  BY GrantedAppend DEF Wire
<1>4. Wire'
  BY <1>1, <1>2, <1>3 DEF Wire
<1> QED
  BY <1>1, <1>4

(* The gateway says something of its own. *)
LEMMA AnswersOther ==
  ASSUME Typed, Wire, NEW fr \in Frames, fr.kind \notin Kinds,
         down' = Append(down, fr), UNCHANGED <<pending, unread>>,
         \A c \in held : c \in held' \/ (fr.kind = "revoked" /\ fr.of = c)
  PROVE  Wire' /\ Typed'
<1> DEFINE n == Len(pending) - unread
<1> USE DEF Typed
<1>1. n \in 0..Len(pending) /\ down' \in Seq(Frames)
  OBVIOUS
<1>2. Matched(pending, n, down', held')
  BY <1>1, AppendOther DEF Wire
<1>3. Granted(down', held')
  BY GrantedAppend DEF Wire, Kinds
<1>4. Wire'
  BY <1>1, <1>2, <1>3 DEF Wire
<1> QED
  BY <1>1, <1>4

-----------------------------------------------------------------------------
LEMMA InitOK == Init => IInv
<1> SUFFICES ASSUME Init PROVE IInv
  OBVIOUS
<1>1. /\ pending = <<>> /\ down = <<>> /\ unread = 0 /\ Len(pending) - unread = 0
      /\ pending \in Seq(Cmds) /\ down \in Seq(Frames) /\ DOMAIN pending = {}
      /\ unread \in 0..Len(pending)
  BY DEF Init
<1>2. TypeOK
  BY <1>1 DEF Init, TypeOK, Typed, None
<1>3. Sockets /\ Over /\ ConnectFirst
  BY <1>1 DEF Init, Sockets, Over, ConnectFirst
<1>4. Wire
  BY <1>1, NothingSent DEF Wire
<1>5. Patient
  BY <1>1 DEF Init, Patient, Subscribing, Unsubscribing, Wanted, Settled, ActiveIsHeld
<1> QED
  BY <1>2, <1>3, <1>4, <1>5 DEF IInv

(* Before the connect reply nobody waits for a reply to anything else. *)
LEMMA EarlyPatient ==
  ASSUME Typed', Sockets', ConnectFirst', ~ready', sock' \in {"none", "dialing", "open"},
         Wanted', Settled'
  PROVE  Patient'
<1>1. \A i \in DOMAIN pending' : pending'[i].cmd = "connect"
  <2>1. CASE sock' = "open"
    <3>1. pending' \in Seq(Cmds) /\ Len(pending') = 1 /\ pending'[1].cmd = "connect"
      BY <2>1 DEF Typed, ConnectFirst
    <3>2. \A i \in DOMAIN pending' : i = 1
      BY <3>1
    <3> QED
      BY <3>1, <3>2
  <2>2. CASE sock' # "open"
    BY <2>2 DEF Sockets
  <2> QED
    BY <2>1, <2>2
<1>2. leaving' = {}
  BY DEF ConnectFirst
<1>3. Subscribing'
  BY <1>1 DEF Subscribing, Asks
<1>4. Unsubscribing'
  BY <1>1, <1>2 DEF Unsubscribing, Asks
<1>5. ActiveIsHeld'
  BY DEF ActiveIsHeld
<1> QED
  BY <1>3, <1>4, <1>5 DEF Patient

(* The application, before the client is ready. *)

LEMMA SubscribeEarlyKeeps == ASSUME IInv, NEW c \in Channels, SubscribeEarly(c) PROVE IInv'
<1> USE DEF SubscribeEarly
<1>1. Wire' /\ Typed'
  BY Untouched DEF IInv, TypeOK, Typed, wire
<1>2. TypeOK'
  BY <1>1 DEF IInv, TypeOK, wire
<1>3. Sockets' /\ Over' /\ ConnectFirst'
  BY DEF IInv, TypeOK, Sockets, Over, ConnectFirst, wire
<1>4. Impatient = FALSE => Patient'
  <2> SUFFICES ASSUME Patient PROVE Patient'
    BY DEF IInv
  <2>1. Wanted' /\ Settled'
    BY DEF IInv, TypeOK, Patient, Wanted, Settled, wire
  <2> QED
    BY <1>1, <1>2, <1>3, <2>1, EarlyPatient DEF TypeOK
<1> QED
  BY <1>1, <1>2, <1>3, <1>4 DEF IInv

LEMMA UnsubscribeEarlyKeeps == ASSUME IInv, NEW c \in Channels, UnsubscribeEarly(c) PROVE IInv'
<1> USE DEF UnsubscribeEarly, Forget
<1>1. Wire' /\ Typed'
  BY Untouched DEF IInv, TypeOK, Typed, wire
<1>2. TypeOK'
  BY <1>1 DEF IInv, TypeOK, wire
<1>3. Sockets' /\ Over' /\ ConnectFirst'
  BY DEF IInv, TypeOK, Sockets, Over, ConnectFirst, wire, Known
<1>4. Impatient = FALSE => Patient'
  <2> SUFFICES ASSUME Patient PROVE Patient'
    BY DEF IInv
  <2>1. Wanted' /\ Settled'
    BY DEF IInv, TypeOK, Patient, Wanted, Settled, wire
  <2> QED
    BY <1>1, <1>2, <1>3, <2>1, EarlyPatient DEF TypeOK
<1> QED
  BY <1>1, <1>2, <1>3, <1>4 DEF IInv

(* No call waits once SettleCalls has run. *)
LEMMA SettledCalls ==
  ASSUME TypeOK, SettleCalls
  PROVE  /\ call' \in [Calls -> {"unasked", "queued", "sent", "settled"}]
         /\ \A q \in Calls : call'[q] \in {"unasked", "settled"}
BY DEF TypeOK, SettleCalls

(* What _abandon leaves: nothing of a channel, and nobody who awaits. *)
LEMMA Abandoned ==
  ASSUME TypeOK, Abandon
  PROVE  /\ entry' = [c \in Channels |-> "absent"]
         /\ owed' = {} /\ leaving' = {} /\ wanted' = {}
         /\ call' \in [Calls -> {"unasked", "queued", "sent", "settled"}]
         /\ \A q \in Calls : call'[q] \in {"unasked", "settled"}
<1>1. entry' = [c \in Channels |-> "absent"] /\ owed' = {} /\ leaving' = {} /\ wanted' = {}
  BY DEF TypeOK, Abandon, Forget
<1>2. SettleCalls
  BY DEF Abandon
<1> QED
  BY <1>1, <1>2, SettledCalls

(* The timer fires; the application may close inside the callback before the dial. *)
LEMMA DialKeeps == ASSUME IInv, Dial PROVE IInv'
<1>1. /\ timer' = FALSE /\ sock' = "dialing" /\ UNCHANGED <<ready, disc, wire, hung>>
      /\ timer /\ sock = "none" /\ disc = None /\ ~ready /\ TypeOK
      /\ pending = <<>> /\ down = <<>> /\ told = None /\ held = {}
  BY DEF Dial, IInv, Sockets
<1>2. Wire' /\ Typed'
  BY <1>1, Untouched DEF IInv, TypeOK, Typed, wire
<1>3. Sockets' /\ ~ready'
  BY <1>1 DEF Sockets, wire
<1>4. CASE CloseInside
  <2>1. closed' /\ late' /\ Abandon
    BY <1>4 DEF CloseInside
  <2>2. TypeOK' /\ ConnectFirst' /\ Wanted'
    BY <1>1, <1>2, <2>1, Abandoned DEF TypeOK, ConnectFirst, Wanted, wire
  <2>3. Over'
    BY <1>1, <2>1, Abandoned DEF Over, wire
  <2>4. Impatient = FALSE => Patient'
    <3> SUFFICES ASSUME Patient PROVE Patient'
      BY DEF IInv
    <3>1. Settled'
      BY <1>1 DEF Patient, Settled, wire
    <3> QED
      BY <1>1, <1>2, <1>3, <2>2, <3>1, EarlyPatient
  <2> QED
    BY <1>2, <1>3, <2>2, <2>3, <2>4 DEF IInv
<1>5. CASE UNCHANGED <<closed, late, entry, owed, leaving, call, wanted>>
  <2>1. TypeOK' /\ ConnectFirst' /\ Over'
    BY <1>1, <1>2, <1>5 DEF IInv, TypeOK, ConnectFirst, Over, wire
  <2>2. Impatient = FALSE => Patient'
    <3> SUFFICES ASSUME Patient PROVE Patient'
      BY DEF IInv
    <3>1. Wanted' /\ Settled'
      BY <1>1, <1>5 DEF Patient, Wanted, Settled, wire
    <3> QED
      BY <1>1, <1>2, <1>3, <2>1, <3>1, EarlyPatient
  <2> QED
    BY <1>2, <1>3, <2>1, <2>2 DEF IInv
<1> QED
  BY <1>4, <1>5 DEF Dial

(* The socket opens, and the connect frame is the first on it. *)
LEMMA OpenKeeps == ASSUME IInv, Open PROVE IInv'
<1> DEFINE cmd == [Command("connect", None) EXCEPT !.subs = {c \in Known : entry[c] # "unsubscribing"}]
<1>0. /\ cmd \in Cmds /\ cmd.cmd = "connect" /\ ~cmd.owes
      /\ closed => cmd.subs = {}
      /\ pending = <<>> /\ down = <<>> /\ sock # "none"
  BY DEF Open, Command, Cmds, Kinds, Known, IInv, Sockets, Over
<1>1. pending' = pending \o <<cmd>> /\ unread' = unread + Len(<<cmd>>)
  BY DEF Open, Send
<1> HIDE DEF cmd
<1> DEFINE s == <<cmd>>
<1>2. s \in Seq(Cmds) /\ pending' = pending \o s /\ unread' = unread + Len(s) /\ UNCHANGED <<down, held>>
  BY <1>0, <1>1 DEF Open
<1>3. Weaker(pending, pending) /\ Typed /\ Wire
  BY DEF IInv, TypeOK, Typed, Weaker
<1>4. Wire' /\ Typed'
  <2> HIDE DEF s
  <2> QED
    BY <1>2, <1>3, Sends
<1>5. Len(pending') = 1 /\ pending'[1] = cmd /\ DOMAIN pending' = {1}
  BY <1>0, <1>2
<1>6. UNCHANGED <<timer, ready, closed, late, disc, entry, owed, leaving, call, down, held, told, wanted, hung>>
      /\ sock' = "open" /\ sock = "dialing"
  BY DEF Open
<1>7. TypeOK'
  BY <1>4, <1>6 DEF IInv, TypeOK
<1>8. Sockets' /\ ConnectFirst' /\ ~ready'
  BY <1>0, <1>5, <1>6 DEF IInv, Sockets, ConnectFirst
<1>9. Over'
  BY <1>0, <1>5, <1>6 DEF IInv, Over
<1>10. Impatient = FALSE => Patient'
  <2> SUFFICES ASSUME Patient PROVE Patient'
    BY DEF IInv
  <2>1. Wanted' /\ Settled'
    BY <1>0, <1>5, <1>6 DEF Patient, Wanted, Settled
  <2> QED
    BY <1>4, <1>7, <1>8, <2>1, EarlyPatient DEF TypeOK
<1> QED
  BY <1>4, <1>7, <1>8, <1>10, <1>9 DEF IInv

(* The socket is gone: the application closed, or _onClose ran. *)

LEMMA CloseKeeps == ASSUME IInv, Close PROVE IInv'
<1> USE DEF Close, Abandon
<1>1. Wire' /\ Typed'
  BY Cut
<1>2. TypeOK'
  BY <1>1, SettledCalls DEF IInv, TypeOK, Forget, CutWire, None
<1>3. Sockets' /\ ConnectFirst' /\ ~ready'
  BY DEF IInv, TypeOK, Sockets, ConnectFirst, Forget, CutWire
<1>4. Over'
  BY SettledCalls DEF IInv, TypeOK, Over, Forget, CutWire
<1>5. Impatient = FALSE => Patient'
  <2> SUFFICES ASSUME Patient PROVE Patient'
    BY DEF IInv
  <2>1. Wanted'
    BY DEF Wanted, Forget
  <2>2. Settled'
    BY DEF Patient, Settled, CutWire
  <2> QED
    BY <1>1, <1>2, <1>3, <2>1, <2>2, EarlyPatient DEF TypeOK
<1> QED
  BY <1>1, <1>2, <1>3, <1>5, <1>4 DEF IInv

(* What follows a socket that closed: the end, the next connection, or a timer of a  *)
(* client that the application closed before it was set.                        *)
LEMMA FollowsKeeps ==
  ASSUME IInv, NEW code, Follows(code), CutWire, sock' = "none"
  PROVE  /\ timer' \in BOOLEAN
         /\ entry' \in [Channels -> {"absent", "pending"}]
         /\ owed' \subseteq Channels /\ leaving' = {}
         /\ call' \in [Calls -> {"unasked", "queued", "sent", "settled"}]
         /\ Over'
         /\ Wanted => Wanted'
<1>1. TypeOK
  BY DEF IInv
<1>2. pending' = <<>> /\ held' = {} /\ DOMAIN <<>> = {}
  BY DEF CutWire
<1>3. CASE Final(code)
  <2>1. timer' = FALSE /\ late' = FALSE /\ Abandon
    BY <1>3 DEF Follows
  <2> QED
    BY <1>1, <1>2, <2>1, Abandoned DEF Over, Wanted
<1>4. CASE ~Final(code) /\ timer' = TRUE /\ CloseInside
  <2>1. timer' = TRUE /\ late' = TRUE /\ Abandon
    BY <1>4 DEF CloseInside
  <2> QED
    BY <1>1, <1>2, <2>1, Abandoned DEF Over, Wanted
<1>5. CASE ~Final(code) /\ timer' = TRUE /\ Keep
  <2>1. /\ SettleCalls /\ leaving' = {} /\ timer' = TRUE /\ ~closed'
        /\ entry' = [c \in Channels |->
             IF c \in Known /\ entry[c] # "unsubscribing" THEN "pending" ELSE "absent"]
        /\ owed' \subseteq owed
        /\ UNCHANGED wanted
    BY <1>5 DEF Keep, Final
  <2>2. Wanted => Wanted'
    BY <1>1, <2>1 DEF TypeOK, Wanted, Known
  <2> QED
    BY <1>1, <2>1, <2>2, SettledCalls DEF TypeOK, Over
<1> QED
  BY <1>3, <1>4, <1>5 DEF Follows

LEMMA OnCloseKeeps == ASSUME IInv, NEW code, sock # "none", OnClose(code) PROVE IInv'
<1>1. /\ sock' = "none" /\ ready' = FALSE /\ disc' = None
      /\ hung' = hung \cup Unsettled /\ CutWire /\ Follows(code)
  BY DEF OnClose
<1>2. Wire' /\ Typed'
  BY <1>1, Cut
<1>3. /\ entry' \in [Channels -> {"absent", "pending"}]
      /\ owed' \subseteq Channels /\ leaving' = {}
      /\ call' \in [Calls -> {"unasked", "queued", "sent", "settled"}]
      /\ Over'
      /\ Wanted => Wanted'
  BY <1>1, FollowsKeeps
<1>4. TypeOK'
  BY <1>1, <1>2, <1>3 DEF TypeOK, CutWire, None
<1>5. Sockets' /\ ConnectFirst' /\ ~ready'
  BY <1>1, <1>3 DEF Sockets, ConnectFirst, CutWire
<1>6. Impatient = FALSE => Patient'
  <2> SUFFICES ASSUME Patient PROVE Patient'
    BY DEF IInv
  <2>1. Wanted'
    BY <1>3 DEF Patient
  <2>2. Settled'
    BY <1>1 DEF Patient, Settled, Unsettled, CutWire
  <2> QED
    BY <1>1, <1>2, <1>5, <2>1, <2>2, EarlyPatient
<1> QED
  BY <1>2, <1>3, <1>4, <1>5, <1>6 DEF IInv

(* The application, on a connection that is ready. *)

LEMMA SendsOne ==
  ASSUME Typed, Wire, NEW q, Weaker(q, pending), NEW cmd \in Cmds,
         pending' = q \o <<cmd>>, unread' = unread + 1, UNCHANGED <<down, held>>
  PROVE  /\ Wire' /\ Typed'
         /\ \A i \in DOMAIN pending : i \in DOMAIN pending' /\ pending'[i] = q[i]
         /\ \A i \in DOMAIN pending' : i \in DOMAIN pending \/ (i = Len(pending) + 1 /\ pending'[i] = cmd)
<1> DEFINE s == <<cmd>>
<1>1. s \in Seq(Cmds) /\ Len(s) = 1
  OBVIOUS
<1>2. Wire' /\ Typed'
  <2> HIDE DEF s
  <2>1. pending' = q \o s
    BY DEF s
  <2> QED
    BY <1>1, <2>1, Sends
<1>3. q \in Seq(Cmds) /\ Len(q) = Len(pending) /\ DOMAIN q = DOMAIN pending /\ Len(q) \in Nat
  BY DEF Weaker, Typed
<1>4. \A i \in DOMAIN pending : i \in DOMAIN pending' /\ pending'[i] = q[i]
  BY <1>3
<1>5. \A i \in DOMAIN pending' : i \in DOMAIN pending \/ (i = Len(pending) + 1 /\ pending'[i] = cmd)
  BY <1>3
<1> QED
  BY <1>2, <1>4, <1>5

LEMMA SubscribeKeeps == ASSUME IInv, NEW c \in Channels, Subscribe(c) PROVE IInv'
<1> DEFINE q == Disown(pending, c)
<1>1. PICK cmd \in Cmds : /\ cmd = Command("subscribe", c)
                          /\ cmd.cmd = "subscribe" /\ cmd.of = c /\ cmd.own /\ ~cmd.owes
  BY CommandTyped DEF Kinds
<1>2. /\ ready /\ ~closed /\ sock = "open" /\ Typed /\ Wire
      /\ MayCall(c)
      /\ entry' = [entry EXCEPT ![c] = "pending"]
      /\ unread' = unread + 1
      /\ owed' = owed \cup {c} /\ wanted' = wanted \cup {c}
      /\ UNCHANGED <<sock, timer, ready, closed, late, disc, leaving, call, down, held, told, hung>>
  BY DEF Subscribe, IInv, TypeOK, Sockets
<1>3. /\ Weaker(q, pending)
      /\ \A i \in DOMAIN pending :
           /\ q[i].own => ~(pending[i].cmd = "subscribe" /\ pending[i].of = c)
           /\ ~(pending[i].cmd = "subscribe" /\ pending[i].of = c /\ pending[i].own) => q[i] = pending[i]
  BY <1>2, DisownShape DEF Typed
<1>4. pending' = q \o <<cmd>>
  <2>1. pending' = Append(q, cmd) /\ q \in Seq(Cmds)
    BY <1>1, <1>3 DEF Subscribe, Weaker
  <2> HIDE DEF q
  <2> QED
    BY <2>1
<1> HIDE DEF q
<1>5. /\ Wire' /\ Typed'
      /\ \A i \in DOMAIN pending : i \in DOMAIN pending' /\ pending'[i] = q[i]
      /\ \A i \in DOMAIN pending' : i \in DOMAIN pending \/ (i = Len(pending) + 1 /\ pending'[i] = cmd)
  BY <1>2, <1>3, <1>4, SendsOne
<1>6. \A i \in DOMAIN pending : /\ q[i].cmd = pending[i].cmd /\ q[i].of = pending[i].of
                                /\ q[i].own => pending[i].own
  BY <1>3 DEF Weaker
<1>7. TypeOK'
  BY <1>2, <1>5 DEF IInv, TypeOK
<1>8. Sockets' /\ Over' /\ ConnectFirst'
  BY <1>1, <1>2, <1>5, <1>6 DEF IInv, Sockets, Over, ConnectFirst
<1>9. Impatient = FALSE => Patient'
  <2> SUFFICES ASSUME Impatient = FALSE, Patient PROVE Patient'
    BY DEF IInv
  <2>1. c \notin owed /\ c \notin leaving
    BY <1>2 DEF MayCall
  <2>2. \A i \in DOMAIN pending : pending'[i] = pending[i] /\ ~(Asks(i, "subscribe", c) /\ pending[i].own)
    BY <1>3, <1>5, <2>1 DEF Patient, Subscribing, Asks
  <2>3. Subscribing'
    BY <1>1, <1>2, <1>5, <2>1, <2>2 DEF Patient, Subscribing, Unsubscribing, Asks, IInv, TypeOK
  <2>4. Unsubscribing'
    BY <1>1, <1>2, <1>5, <2>1, <2>2 DEF Patient, Unsubscribing, Asks, IInv, TypeOK
  <2>5. Wanted' /\ ActiveIsHeld'
    BY <1>2 DEF Patient, Wanted, ActiveIsHeld, IInv, TypeOK
  <2>6. Settled'
    BY <1>1, <1>2, <1>5, <2>2 DEF Patient, Settled
  <2> QED
    BY <2>3, <2>4, <2>5, <2>6 DEF Patient
<1> QED
  BY <1>5, <1>7, <1>8, <1>9 DEF IInv

LEMMA UnsubscribeKeeps == ASSUME IInv, NEW c \in Channels, Unsubscribe(c) PROVE IInv'
<1>1. PICK cmd \in Cmds : /\ cmd = Command("unsubscribe", c)
                          /\ cmd.cmd = "unsubscribe" /\ cmd.of = c /\ ~cmd.owes
  BY CommandTyped DEF Kinds
<1>2. /\ ready /\ ~closed /\ sock = "open" /\ Typed /\ Wire
      /\ MayCall(c)
      /\ entry' = [entry EXCEPT ![c] = "unsubscribing"]
      /\ leaving' = leaving \cup {c} /\ wanted' = wanted \ {c}
      /\ UNCHANGED <<sock, timer, ready, closed, late, disc, owed, call, down, held, told, hung>>
  BY DEF Unsubscribe, IInv, TypeOK, Sockets, Over, Known
<1>3. Weaker(pending, pending)
  BY <1>2 DEF Typed, Weaker
<1>4. pending' = pending \o <<cmd>> /\ unread' = unread + 1
  BY <1>1 DEF Unsubscribe, Send
<1>5. /\ Wire' /\ Typed'
      /\ \A i \in DOMAIN pending : i \in DOMAIN pending' /\ pending'[i] = pending[i]
      /\ \A i \in DOMAIN pending' : i \in DOMAIN pending \/ (i = Len(pending) + 1 /\ pending'[i] = cmd)
  BY <1>2, <1>3, <1>4, SendsOne
<1>6. TypeOK'
  BY <1>2, <1>5 DEF IInv, TypeOK
<1>7. Sockets' /\ Over' /\ ConnectFirst'
  BY <1>1, <1>2, <1>5 DEF IInv, Sockets, Over, ConnectFirst
<1>8. Impatient = FALSE => Patient'
  <2> SUFFICES ASSUME Impatient = FALSE, Patient PROVE Patient'
    BY DEF IInv
  <2>1. c \notin owed /\ c \notin leaving
    BY <1>2 DEF MayCall
  <2>2. Subscribing'
    BY <1>1, <1>2, <1>5, <2>1 DEF Patient, Subscribing, Asks, IInv, TypeOK
  <2>3. Unsubscribing'
    BY <1>1, <1>2, <1>5, <2>1 DEF Patient, Unsubscribing, Asks, IInv, TypeOK
  <2>4. Wanted' /\ ActiveIsHeld'
    BY <1>2 DEF Patient, Wanted, ActiveIsHeld, IInv, TypeOK
  <2>5. Settled'
    BY <1>1, <1>2, <1>5 DEF Patient, Settled
  <2> QED
    BY <2>2, <2>3, <2>4, <2>5 DEF Patient
<1> QED
  BY <1>5, <1>6, <1>7, <1>8 DEF IInv

(* A plain command: sent, or kept for the connect reply, or refused by a closed     *)
(* client.                                                                   *)
LEMMA AskKeeps == ASSUME IInv, NEW c \in Calls, Ask(c) PROVE IInv'
<1>1. /\ UNCHANGED <<sock, timer, ready, closed, late, disc, entry, owed, leaving, down, held, told,
                     wanted, hung>>
      /\ call' \in [Calls -> {"unasked", "queued", "sent", "settled"}]
      /\ closed => \A q \in Calls : call'[q] = call[q] \/ call'[q] = "settled"
      /\ Typed /\ Wire
  BY DEF Ask, IInv, TypeOK, Sockets
<1>2. PICK cmd \in Cmds : /\ cmd = Command("call", c)
                          /\ cmd.cmd = "call" /\ ~cmd.owes
  BY CommandTyped DEF Kinds
<1>3. CASE UNCHANGED <<pending, unread>>
  <2>1. Wire' /\ Typed'
    BY <1>1, <1>3, Untouched DEF Typed
  <2>2. TypeOK'
    BY <1>1, <2>1 DEF IInv, TypeOK
  <2>3. Sockets' /\ Over' /\ ConnectFirst'
    BY <1>1, <1>3 DEF IInv, Sockets, Over, ConnectFirst
  <2>4. Impatient = FALSE => Patient'
    BY <1>1, <1>3 DEF IInv, Patient, Subscribing, Unsubscribing, Asks, Wanted, Settled,
                      ActiveIsHeld
  <2> QED
    BY <2>1, <2>2, <2>3, <2>4 DEF IInv
<1>4. CASE ~closed /\ ready /\ Send(<<Command("call", c)>>)
  <2>1. pending' = pending \o <<cmd>> /\ unread' = unread + 1 /\ Weaker(pending, pending)
    BY <1>1, <1>2, <1>4 DEF Send, Weaker, Typed
  <2>2. /\ Wire' /\ Typed'
        /\ \A i \in DOMAIN pending : i \in DOMAIN pending' /\ pending'[i] = pending[i]
        /\ \A i \in DOMAIN pending' : i \in DOMAIN pending \/ (i = Len(pending) + 1 /\ pending'[i] = cmd)
    BY <1>1, <2>1, SendsOne
  <2>3. TypeOK'
    BY <1>1, <2>2 DEF IInv, TypeOK
  <2>4. Sockets' /\ Over' /\ ConnectFirst'
    BY <1>1, <1>2, <1>4, <2>2 DEF IInv, Sockets, Over, ConnectFirst
  <2>5. Impatient = FALSE => Patient'
    <3> SUFFICES ASSUME Patient PROVE Patient'
      BY DEF IInv
    <3>1. Subscribing'
      BY <1>1, <1>2, <2>2 DEF Patient, Subscribing, Asks
    <3>2. Unsubscribing'
      BY <1>1, <1>2, <2>2 DEF Patient, Unsubscribing, Asks
    <3>3. Wanted' /\ ActiveIsHeld'
      BY <1>1 DEF Patient, Wanted, ActiveIsHeld
    <3>4. Settled'
      BY <1>1, <1>2, <2>2 DEF Patient, Settled
    <3> QED
      BY <3>1, <3>2, <3>3, <3>4 DEF Patient
  <2> QED
    BY <2>2, <2>3, <2>4, <2>5 DEF IInv
<1> QED
  BY <1>3, <1>4 DEF Ask

-----------------------------------------------------------------------------
(* The frames the client takes. *)

(* A reply is the reply to the first command. *)
LEMMA FirstAnswered ==
  ASSUME IInv, NEW kind \in Kinds, Arrives(kind)
  PROVE  /\ Typed /\ Wire /\ down # <<>> /\ down' = Tail(down) /\ Head(down).kind = kind
         /\ pending # <<>> /\ sock = "open"
         /\ Head(pending) \in Cmds /\ Head(pending) = pending[1] /\ 1 \in DOMAIN pending
         /\ Head(pending).cmd = kind
         /\ ready <=> kind # "connect"
         /\ closed => kind = "connect"
         /\ kind = "subscribe" /\ Head(pending).own /\ Head(down).ok =>
              \/ Impatient \/ Head(pending).of \in held
              \/ \E m \in DOMAIN down' : down'[m].kind = "revoked" /\ down'[m].of = Head(pending).of
<1> USE DEF Arrives
<1>1. Typed /\ Wire /\ down # <<>> /\ down' = Tail(down) /\ Head(down).kind = kind
  BY DEF IInv, TypeOK
<1>2. sock = "open"
  BY <1>1 DEF IInv, Sockets
<1>3. Len(pending) - unread \in 0..Len(pending)
  BY <1>1 DEF Typed
<1>4. /\ pending # <<>>
      /\ Head(pending).cmd = kind
      /\ kind = "subscribe" /\ Head(pending).own /\ Head(down).ok =>
           \/ Impatient \/ Head(pending).of \in held
           \/ \E m \in DOMAIN down' : down'[m].kind = "revoked" /\ down'[m].of = Head(pending).of
  <2> DEFINE n == Len(pending) - unread
             d == Tail(down)
  <2>1. /\ pending \in Seq(Cmds) /\ down \in Seq(Frames) /\ n \in 0..Len(pending)
        /\ Matched(pending, n, down, held)
    BY <1>1, <1>3 DEF Wire, Typed
  <2> HIDE DEF n
  <2>2. /\ pending # <<>>
        /\ Head(pending).cmd = Head(down).kind
        /\ Head(pending).cmd = "subscribe" /\ Head(pending).own /\ Head(down).ok =>
             \/ Impatient \/ Head(pending).of \in held
             \/ \E m \in DOMAIN d : d[m].kind = "revoked" /\ d[m].of = Head(pending).of
    BY <1>1, <2>1, TakeReply
  <2>3. down' = d
    BY <1>1
  <2> HIDE DEF d
  <2> QED
    BY <1>1, <2>2, <2>3
<1>5. Head(pending) \in Cmds /\ Head(pending) = pending[1] /\ 1 \in DOMAIN pending
  BY <1>1, <1>4 DEF Typed
<1>6. ready <=> kind # "connect"
  BY <1>2, <1>4, <1>5 DEF IInv, ConnectFirst
<1>7. closed => kind = "connect"
  BY <1>4, <1>5 DEF IInv, Over
<1> QED
  BY <1>1, <1>2, <1>4, <1>5, <1>6, <1>7

LEMMA NothingBehind == ASSUME NEW q \in Seq(Cmds) PROVE q = q \o <<>>
OBVIOUS

(* What the other commands become when the first one is answered. *)
LEMMA TakesFirst ==
  ASSUME Typed, Wire, down # <<>>, Head(down).kind \in Kinds, down' = Tail(down),
         pending # <<>>, Weaker(pending', Tail(pending)), UNCHANGED <<unread, held>>
  PROVE  /\ Wire' /\ Typed'
         /\ \A i \in DOMAIN pending' : /\ i + 1 \in DOMAIN pending /\ i \in DOMAIN Tail(pending)
                                       /\ i + 1 # 1
                                       /\ pending'[i].cmd = pending[i + 1].cmd
                                       /\ pending'[i].of = pending[i + 1].of
                                       /\ pending'[i].own => pending[i + 1].own
         /\ \A i, j \in DOMAIN pending' : i + 1 = j + 1 => i = j
<1> DEFINE s == <<>>
<1>1. s \in Seq(Cmds) /\ Len(s) = 0 /\ unread + 0 = unread
  BY DEF Typed
<1>2. pending' = pending' \o s
  <2>1. pending' \in Seq(Cmds)
    BY DEF Weaker
  <2> QED
    BY <2>1, NothingBehind
<1> HIDE DEF s
<1>3. Wire' /\ Typed'
  BY <1>1, <1>2, TakesReply
<1>4. \A i \in DOMAIN pending' : i \in DOMAIN Tail(pending) /\ i + 1 \in DOMAIN pending /\ i + 1 # 1
                                 /\ Tail(pending)[i] = pending[i + 1]
  BY DEF Typed, Weaker
<1>5. \A i, j \in DOMAIN pending' : i + 1 = j + 1 => i = j
  BY DEF Weaker
<1> QED
  BY <1>3, <1>4, <1>5 DEF Weaker

(* A revocation that is not the frame taken is still on its way. *)
LEMMA RevocationStays ==
  ASSUME Typed, down # <<>>, down' = Tail(down), NEW c,
         ~(Head(down).kind = "revoked" /\ Head(down).of = c),
         c \in held \/ \E i \in DOMAIN down : down[i].kind = "revoked" /\ down[i].of = c
  PROVE  c \in held \/ \E i \in DOMAIN down' : down'[i].kind = "revoked" /\ down'[i].of = c
<1>1. \A i \in DOMAIN down : i = 1 \/ (i - 1 \in DOMAIN down' /\ down'[i - 1] = down[i])
  BY DEF Typed
<1>2. down[1] = Head(down)
  BY DEF Typed
<1> QED
  BY <1>1, <1>2

LEMMA OnConnectedKeeps == ASSUME IInv, OnConnected PROVE IInv'
<1>1. /\ Typed /\ Wire /\ down # <<>> /\ down' = Tail(down) /\ Head(down).kind = "connect"
      /\ pending # <<>> /\ sock = "open" /\ ~ready
  BY FirstAnswered DEF OnConnected, Kinds
<1>2. /\ UNCHANGED <<sock, timer, closed, late, disc, leaving, held, told, hung>>
      /\ ready' = TRUE /\ owed' = {}
      /\ entry' = [c \in Channels |->
                     IF c \in Known /\ c \in Head(down).grants THEN "active" ELSE "absent"]
      /\ wanted' = wanted \cap Head(down).grants
      /\ call' = [q \in Calls |-> IF q \in Queued THEN "sent" ELSE call[q]]
      /\ pending' = Tail(pending) \o Waited
      /\ unread' = unread + Len(Waited)
  BY DEF OnConnected
<1>3. Tail(pending) = <<>> /\ Weaker(Tail(pending), Tail(pending))
  <2>1. pending \in Seq(Cmds) /\ Len(pending) = 1
    BY <1>1 DEF IInv, ConnectFirst, Typed
  <2>2. Tail(pending) \in Seq(Cmds) /\ Len(Tail(pending)) = 0
    BY <2>1
  <2>3. \A s \in Seq(Cmds) : Len(s) = 0 => s = <<>>
    OBVIOUS
  <2> QED
    BY <2>2, <2>3 DEF Weaker
<1>4. Wire' /\ Typed'
  BY <1>1, <1>2, <1>3, WaitedShape, TakesReply DEF Kinds
<1>5. pending' = Waited
  <2>1. \A s \in Seq(Cmds) : <<>> \o s = s
    OBVIOUS
  <2> QED
    BY <1>2, <1>3, <2>1, WaitedShape
<1>6. TypeOK'
  BY <1>2, <1>4 DEF IInv, TypeOK
<1>7. Sockets' /\ ConnectFirst'
  BY <1>1, <1>2, <1>5, WaitedShape DEF IInv, Sockets, ConnectFirst
<1>8. Over'
  <2> SUFFICES ASSUME closed PROVE Over'
    BY <1>2 DEF Over
  <2>1. /\ late /\ owed = {} /\ leaving = {} /\ held = {}
        /\ \A c \in Channels : entry[c] = "absent"
        /\ \A q \in Calls : call[q] \in {"unasked", "settled"}
    BY <1>1 DEF IInv, Over
  <2>2. Queued = {} /\ Known = {}
    BY <2>1 DEF Queued, Known
  <2>3. DOMAIN pending' = {}
    BY <1>5, <2>2, WaitedShape
  <2> QED
    BY <1>2, <2>1, <2>2, <2>3 DEF Over
<1>9. Impatient = FALSE => Patient'
  <2> SUFFICES ASSUME Patient PROVE Patient'
    BY DEF IInv
  <2>1. leaving' = {}
    BY <1>1, <1>2 DEF IInv, ConnectFirst
  <2>2. Subscribing'
    BY <1>5, WaitedShape DEF Subscribing, Asks
  <2>3. Unsubscribing'
    BY <1>5, <2>1, WaitedShape DEF Unsubscribing, Asks
  <2>4. Wanted'
    BY <1>1, <1>2 DEF IInv, ConnectFirst, Patient, Wanted, Known
  <2>5. Settled'
    BY <1>2, <1>5, WaitedShape DEF Patient, Settled
  <2>6. ActiveIsHeld'
    <3> SUFFICES ASSUME NEW c \in Channels, entry'[c] = "active"
                 PROVE  c \in held' \/ \E i \in DOMAIN down' : down'[i].kind = "revoked" /\ down'[i].of = c
      BY DEF ActiveIsHeld
    <3>1. c \in Head(down).grants
      BY <1>2
    <3>2. 1 \in DOMAIN down /\ Head(down) = down[1]
      BY <1>1 DEF Typed
    <3>3. HeldAfter(down, held, c, 1)
      BY <1>1, <3>1, <3>2 DEF Wire, Granted
    <3> QED
      BY <1>1, <1>2, <3>2, <3>3, HeldTail DEF Typed
  <2> QED
    BY <2>2, <2>3, <2>4, <2>5, <2>6 DEF Patient
<1> QED
  BY <1>4, <1>6, <1>7, <1>9, <1>8 DEF IInv

LEMMA OnReplyKeeps == ASSUME IInv, OnReply PROVE IInv'
<1>1. /\ Typed /\ Wire /\ down # <<>> /\ down' = Tail(down) /\ Head(down).kind = "call"
      /\ pending # <<>> /\ sock = "open" /\ ready /\ ~closed /\ 1 \in DOMAIN pending
  BY FirstAnswered DEF OnReply, Kinds
<1>2. /\ UNCHANGED <<sock, timer, ready, closed, late, disc, entry, owed, leaving, unread, held, told,
                     wanted, hung>>
      /\ call' = [call EXCEPT ![Head(pending).of] = "settled"]
      /\ pending' = Tail(pending)
  BY DEF OnReply
<1>3. Weaker(pending', Tail(pending)) /\ \A i \in DOMAIN pending' : pending'[i] = pending[i + 1]
  BY <1>1, <1>2 DEF Typed, Weaker
<1>4. /\ Wire' /\ Typed'
      /\ \A i \in DOMAIN pending' : i + 1 \in DOMAIN pending
      /\ \A i, j \in DOMAIN pending' : i + 1 = j + 1 => i = j
  BY <1>1, <1>2, <1>3, TakesFirst DEF Kinds
<1>5. TypeOK'
  BY <1>2, <1>4 DEF IInv, TypeOK
<1>6. Sockets' /\ Over' /\ ConnectFirst'
  BY <1>1, <1>2, <1>3, <1>4 DEF IInv, Sockets, Over, ConnectFirst
<1>7. Impatient = FALSE => Patient'
  <2> SUFFICES ASSUME Patient PROVE Patient'
    BY DEF IInv
  <2>1. Subscribing'
    BY <1>2, <1>3, <1>4 DEF Patient, Subscribing, Asks
  <2>2. Unsubscribing'
    BY <1>2, <1>3, <1>4 DEF Patient, Unsubscribing, Asks
  <2>3. Wanted'
    BY <1>2 DEF Patient, Wanted
  <2>4. Settled'
    BY <1>2, <1>3, <1>4 DEF Patient, Settled
  <2>5. ActiveIsHeld'
    <3> SUFFICES ASSUME NEW c \in Channels, entry[c] = "active"
                 PROVE  c \in held \/ \E i \in DOMAIN down' : down'[i].kind = "revoked" /\ down'[i].of = c
      BY <1>2 DEF ActiveIsHeld
    <3>1. c \in held \/ \E i \in DOMAIN down : down[i].kind = "revoked" /\ down[i].of = c
      BY <1>1 DEF Patient, ActiveIsHeld
    <3> QED
      BY <1>1, <3>1, RevocationStays
  <2> QED
    BY <2>1, <2>2, <2>3, <2>4, <2>5 DEF Patient
<1> QED
  BY <1>4, <1>5, <1>6, <1>7 DEF IInv

LEMMA OnSubscribedKeeps == ASSUME IInv, OnSubscribed PROVE IInv'
<1> DEFINE cmd == Head(pending)
<1>1. /\ Typed /\ Wire /\ down # <<>> /\ down' = Tail(down) /\ Head(down).kind = "subscribe"
      /\ pending # <<>> /\ sock = "open" /\ ready /\ ~closed
      /\ cmd = pending[1] /\ 1 \in DOMAIN pending /\ cmd.cmd = "subscribe"
      /\ cmd.own /\ Head(down).ok =>
           \/ Impatient \/ cmd.of \in held
           \/ \E m \in DOMAIN down' : down'[m].kind = "revoked" /\ down'[m].of = cmd.of
  BY FirstAnswered DEF OnSubscribed, Kinds
<1>2. /\ UNCHANGED <<sock, timer, ready, closed, late, disc, leaving, call, unread, held, told, hung>>
      /\ pending' = Tail(pending)
      /\ cmd.own =>
           /\ entry' = [entry EXCEPT ![cmd.of] = IF Head(down).ok THEN "active" ELSE "absent"]
           /\ owed' = owed \ {cmd.of}
           /\ wanted' = IF Head(down).ok THEN wanted ELSE wanted \ {cmd.of}
      /\ ~cmd.own => UNCHANGED <<entry, owed, wanted>>
  BY DEF OnSubscribed
<1> HIDE DEF cmd
<1>3. Weaker(pending', Tail(pending)) /\ \A i \in DOMAIN pending' : pending'[i] = pending[i + 1]
  BY <1>1, <1>2 DEF Typed, Weaker
<1>4. /\ Wire' /\ Typed'
      /\ \A i \in DOMAIN pending' : i + 1 \in DOMAIN pending /\ i + 1 # 1
      /\ \A i, j \in DOMAIN pending' : i + 1 = j + 1 => i = j
  BY <1>1, <1>2, <1>3, TakesFirst DEF Kinds
<1>5. TypeOK'
  <2>1. owed' \subseteq Channels /\ entry' \in [Channels -> {"absent", "pending", "active", "unsubscribing"}]
    BY <1>2 DEF IInv, TypeOK
  <2> QED
    BY <1>2, <1>4, <2>1 DEF IInv, TypeOK
<1>6. Sockets' /\ Over' /\ ConnectFirst'
  BY <1>1, <1>2, <1>3, <1>4 DEF IInv, Sockets, Over, ConnectFirst
<1>7. Impatient = FALSE => Patient'
  <2> SUFFICES ASSUME Impatient = FALSE, Patient PROVE Patient'
    BY DEF IInv
  <2>1. ASSUME NEW c \in Channels, cmd.own, cmd.of = c
        PROVE  /\ \A i \in DOMAIN pending : i # 1 => ~(Asks(i, "subscribe", c) /\ pending[i].own)
               /\ entry[c] = "pending" /\ c \notin leaving
    BY <1>1, <2>1 DEF Patient, Subscribing, Unsubscribing, Asks
  <2>2. Subscribing'
    <3> SUFFICES ASSUME NEW c \in Channels, NEW i \in DOMAIN pending',
                        Asks(i + 1, "subscribe", c), pending[i + 1].own
                 PROVE  /\ c \in owed' /\ entry'[c] = "pending"
                        /\ \A j \in DOMAIN pending' : Asks(j + 1, "subscribe", c) /\ pending[j + 1].own => i = j
                        /\ \A j \in DOMAIN pending' : ~Asks(j + 1, "unsubscribe", c)
      BY <1>3 DEF Subscribing, Asks
    <3>1. /\ c \in owed /\ entry[c] = "pending"
          /\ \A j \in DOMAIN pending : Asks(j, "subscribe", c) /\ pending[j].own => i + 1 = j
          /\ \A j \in DOMAIN pending : ~Asks(j, "unsubscribe", c)
      BY <1>4 DEF Patient, Subscribing
    <3>2. ~(cmd.own /\ cmd.of = c)
      BY <1>4, <2>1
    <3>3. c \in owed' /\ entry'[c] = "pending"
      BY <1>2, <3>1, <3>2 DEF IInv, TypeOK
    <3> QED
      BY <1>4, <3>1, <3>3
  <2>3. Unsubscribing'
    <3>1. \A c \in leaving' : c \notin owed' /\ entry'[c] \in {"unsubscribing", "absent"}
      <4> SUFFICES ASSUME NEW c \in leaving
                   PROVE  c \notin owed' /\ entry'[c] \in {"unsubscribing", "absent"}
        BY <1>2
      <4>1. c \in Channels /\ c \notin owed /\ entry[c] \in {"unsubscribing", "absent"}
        BY DEF IInv, TypeOK, Patient, Unsubscribing
      <4>2. ~(cmd.own /\ cmd.of = c)
        BY <2>1, <4>1
      <4> QED
        BY <1>2, <4>1, <4>2 DEF IInv, TypeOK
    <3> QED
      BY <1>2, <1>3, <1>4, <3>1 DEF Patient, Unsubscribing, Asks
  <2>4. Wanted'
    <3> SUFFICES ASSUME NEW c \in Channels, entry'[c] \in {"pending", "active"} PROVE c \in wanted'
      BY DEF Wanted
    <3>1. CASE cmd.own /\ cmd.of = c
      BY <1>2, <2>1, <3>1 DEF IInv, TypeOK, Patient, Wanted
    <3>2. CASE ~(cmd.own /\ cmd.of = c)
      BY <1>2, <3>2 DEF IInv, TypeOK, Patient, Wanted
    <3> QED
      BY <3>1, <3>2
  <2>5. Settled'
    BY <1>2, <1>3, <1>4 DEF Patient, Settled
  <2>6. ActiveIsHeld'
    <3> SUFFICES ASSUME NEW c \in Channels, entry'[c] = "active"
                 PROVE  c \in held \/ \E i \in DOMAIN down' : down'[i].kind = "revoked" /\ down'[i].of = c
      BY <1>2 DEF ActiveIsHeld
    <3>1. CASE cmd.own /\ cmd.of = c
      BY <1>1, <1>2, <3>1 DEF IInv, TypeOK
    <3>2. CASE ~(cmd.own /\ cmd.of = c)
      <4>1. entry[c] = "active"
        BY <1>2, <3>2 DEF IInv, TypeOK
      <4>2. c \in held \/ \E i \in DOMAIN down : down[i].kind = "revoked" /\ down[i].of = c
        BY <1>1, <4>1 DEF Patient, ActiveIsHeld
      <4> QED
        BY <1>1, <4>2, RevocationStays
    <3> QED
      BY <3>1, <3>2
  <2> QED
    BY <2>2, <2>3, <2>4, <2>5, <2>6 DEF Patient
<1> QED
  BY <1>4, <1>5, <1>6, <1>7 DEF IInv

LEMMA OnUnsubscribedKeeps == ASSUME IInv, OnUnsubscribed PROVE IInv'
<1> DEFINE c == Head(pending).of
           p == Tail(pending)
<1>1. /\ Typed /\ Wire /\ down # <<>> /\ down' = Tail(down) /\ Head(down).kind = "unsubscribe"
      /\ pending # <<>> /\ sock = "open" /\ ready /\ ~closed
      /\ 1 \in DOMAIN pending /\ Asks(1, "unsubscribe", c)
  BY FirstAnswered DEF OnUnsubscribed, Kinds, Asks
<1>2. /\ UNCHANGED <<sock, timer, ready, closed, late, disc, call, unread, held, told, wanted, hung>>
      /\ entry' = [entry EXCEPT ![c] = "absent"]
      /\ owed' = owed \ {c} /\ leaving' = leaving \ {c}
      /\ pending' = Disown(p, c)
  BY DEF OnUnsubscribed
<1>3. p \in Seq(Cmds)
  BY <1>1 DEF Typed
<1> HIDE DEF c, p
<1>4. /\ Weaker(pending', p)
      /\ \A i \in DOMAIN p :
           /\ pending'[i].own => ~(p[i].cmd = "subscribe" /\ p[i].of = c)
           /\ ~(p[i].cmd = "subscribe" /\ p[i].of = c /\ p[i].own) => pending'[i] = p[i]
  BY <1>2, <1>3, DisownShape
<1>5. /\ Wire' /\ Typed'
      /\ \A i \in DOMAIN pending' : /\ i + 1 \in DOMAIN pending /\ i \in DOMAIN p /\ i + 1 # 1
                                    /\ pending'[i].cmd = pending[i + 1].cmd
                                    /\ pending'[i].of = pending[i + 1].of
                                    /\ pending'[i].own => pending[i + 1].own
      /\ \A i, j \in DOMAIN pending' : i + 1 = j + 1 => i = j
  BY <1>1, <1>2, <1>4, TakesFirst DEF Kinds, p
<1>6. TypeOK'
  <2>1. /\ owed' \subseteq Channels /\ leaving' \subseteq Channels
        /\ entry' \in [Channels -> {"absent", "pending", "active", "unsubscribing"}]
    BY <1>2 DEF IInv, TypeOK
  <2> QED
    BY <1>2, <1>5, <2>1 DEF IInv, TypeOK
<1>7. Sockets' /\ Over' /\ ConnectFirst'
  BY <1>1, <1>2, <1>5 DEF IInv, Sockets, Over, ConnectFirst
<1>8. Impatient = FALSE => Patient'
  <2> SUFFICES ASSUME Impatient = FALSE, Patient PROVE Patient'
    BY DEF IInv
  <2>1. /\ c \in leaving /\ c \in Channels /\ c \notin owed
        /\ \A i \in DOMAIN pending : Asks(i, "unsubscribe", c) => i = 1
        /\ \A i \in DOMAIN pending : ~(Asks(i, "subscribe", c) /\ pending[i].own)
    BY <1>1 DEF Patient, Unsubscribing, Subscribing, Asks, IInv, TypeOK
  <2>2. \A i \in DOMAIN pending' : pending'[i] = pending[i + 1]
    <3>1. \A i \in DOMAIN p : p[i] = pending[i + 1]
      BY <1>1 DEF Typed, p
    <3> QED
      BY <1>4, <1>5, <2>1, <3>1 DEF Asks
  <2>3. Subscribing'
    <3> SUFFICES ASSUME NEW d \in Channels, NEW i \in DOMAIN pending',
                        Asks(i + 1, "subscribe", d), pending[i + 1].own
                 PROVE  /\ d \in owed' /\ entry'[d] = "pending"
                        /\ \A j \in DOMAIN pending' : Asks(j + 1, "subscribe", d) /\ pending[j + 1].own => i = j
                        /\ \A j \in DOMAIN pending' : ~Asks(j + 1, "unsubscribe", d)
      BY <2>2 DEF Subscribing, Asks
    <3>1. /\ d \in owed /\ entry[d] = "pending" /\ d # c
          /\ \A j \in DOMAIN pending : Asks(j, "subscribe", d) /\ pending[j].own => i + 1 = j
          /\ \A j \in DOMAIN pending : ~Asks(j, "unsubscribe", d)
      BY <1>5, <2>1 DEF Patient, Subscribing
    <3> QED
      BY <1>2, <1>5, <3>1 DEF IInv, TypeOK
  <2>4. Unsubscribing'
    <3>1. \A i \in DOMAIN pending' : pending'[i].cmd = "unsubscribe" => pending'[i].of \in leaving'
      BY <1>2, <1>5, <2>1, <2>2 DEF Patient, Unsubscribing, Asks
    <3>2. \A i, j \in DOMAIN pending' :
            pending'[i].cmd = "unsubscribe" /\ pending'[j].cmd = "unsubscribe"
            /\ pending'[j].of = pending'[i].of => i = j
      BY <1>5, <2>2 DEF Patient, Unsubscribing, Asks
    <3>3. \A d \in leaving' : d \notin owed' /\ entry'[d] \in {"unsubscribing", "absent"}
      BY <1>2, <2>1 DEF Patient, Unsubscribing, IInv, TypeOK
    <3> QED
      BY <3>1, <3>2, <3>3 DEF Unsubscribing, Asks
  <2>5. Wanted'
    BY <1>2 DEF Patient, Wanted, IInv, TypeOK
  <2>6. Settled'
    BY <1>2, <1>5, <2>2 DEF Patient, Settled
  <2>7. ActiveIsHeld'
    <3> SUFFICES ASSUME NEW d \in Channels, entry'[d] = "active"
                 PROVE  d \in held \/ \E i \in DOMAIN down' : down'[i].kind = "revoked" /\ down'[i].of = d
      BY <1>2 DEF ActiveIsHeld
    <3>1. entry[d] = "active"
      BY <1>2 DEF IInv, TypeOK
    <3>2. d \in held \/ \E i \in DOMAIN down : down[i].kind = "revoked" /\ down[i].of = d
      BY <1>1, <3>1 DEF Patient, ActiveIsHeld
    <3> QED
      BY <1>1, <3>2, RevocationStays
  <2> QED
    BY <2>3, <2>4, <2>5, <2>6, <2>7 DEF Patient
<1> QED
  BY <1>5, <1>6, <1>7, <1>8 DEF IInv

LEMMA OnRevokedKeeps == ASSUME IInv, OnRevoked PROVE IInv'
<1> DEFINE c == Head(down).of
<1>1. /\ Typed /\ Wire /\ down # <<>> /\ down' = Tail(down) /\ Head(down).kind = "revoked"
      /\ sock = "open"
  BY DEF OnRevoked, Arrives, IInv, TypeOK, Sockets
<1>2. /\ UNCHANGED <<sock, timer, ready, closed, late, disc, leaving, call, unread, held, told, hung>>
      /\ entry' = [d \in Channels |-> IF d \in {c} THEN "absent" ELSE entry[d]]
      /\ owed' = owed \ {c} /\ wanted' = wanted \ {c}
      /\ pending' = DisownSettled(pending, {c})
  BY DEF OnRevoked, Forget
<1> HIDE DEF c
<1>3. /\ Weaker(pending', pending)
      /\ \A i \in DOMAIN pending : /\ pending'[i].own => ~(pending[i].cmd = "subscribe" /\ pending[i].of = c)
                                   /\ pending'[i].owes => pending[i].owes
                                   /\ pending'[i].subs = pending[i].subs
  <2>1. pending \in Seq(Cmds)
    BY <1>1 DEF Typed
  <2>2. Disowned(DisownSettled(pending, {c}), pending, c)
    BY <2>1, DisownSettledShape
  <2>3. Disowned(pending', pending, c)
    BY <1>2, <2>2
  <2> QED
    BY <2>3 DEF Disowned
<1>4. /\ DOMAIN pending' = DOMAIN pending /\ Len(pending') = Len(pending)
      /\ \A i \in DOMAIN pending : /\ pending'[i].cmd = pending[i].cmd /\ pending'[i].of = pending[i].of
                                   /\ pending'[i].own => pending[i].own
  BY <1>1, <1>3 DEF Weaker, Typed
<1>5. Wire' /\ Typed'
  BY <1>1, <1>2, <1>3, TakesOther DEF Kinds
<1>6. TypeOK'
  BY <1>2, <1>5 DEF IInv, TypeOK
<1>7. Sockets' /\ ConnectFirst'
  <2>1. Sockets'
    BY <1>1, <1>2 DEF IInv, Sockets
  <2>2. ~ready => leaving' = {} /\ \A d \in Channels : entry'[d] \in {"absent", "pending"}
    BY <1>2 DEF IInv, ConnectFirst
  <2>3. ready => \A i \in DOMAIN pending' : pending'[i].cmd # "connect"
    BY <1>4 DEF IInv, ConnectFirst
  <2>4. ~ready => Len(pending') = 1 /\ pending'[1].cmd = "connect"
    <3>1. ~ready => Len(pending) = 1 /\ pending[1].cmd = "connect" /\ 1 \in DOMAIN pending
      BY <1>1 DEF IInv, ConnectFirst, Typed
    <3> QED
      BY <1>4, <3>1
  <2> QED
    BY <1>2, <2>1, <2>2, <2>3, <2>4 DEF ConnectFirst
<1>8. Over'
  BY <1>2, <1>3, <1>4 DEF IInv, Over
<1>9. Impatient = FALSE => Patient'
  <2> SUFFICES ASSUME Impatient = FALSE, Patient PROVE Patient'
    BY DEF IInv
  <2>1. Subscribing'
    <3> SUFFICES ASSUME NEW d \in Channels, NEW i \in DOMAIN pending,
                        Asks(i, "subscribe", d), pending'[i].own
                 PROVE  /\ d \in owed' /\ entry'[d] = "pending"
                        /\ \A j \in DOMAIN pending : Asks(j, "subscribe", d) /\ pending'[j].own => i = j
                        /\ \A j \in DOMAIN pending : ~Asks(j, "unsubscribe", d)
      BY <1>4 DEF Subscribing, Asks
    <3>1. d # c /\ pending[i].own
      BY <1>3, <1>4 DEF Asks
    <3>2. /\ d \in owed /\ entry[d] = "pending"
          /\ \A j \in DOMAIN pending : Asks(j, "subscribe", d) /\ pending[j].own => i = j
          /\ \A j \in DOMAIN pending : ~Asks(j, "unsubscribe", d)
      BY <3>1 DEF Patient, Subscribing
    <3> QED
      BY <1>2, <1>4, <3>1, <3>2
  <2>2. Unsubscribing'
    <3>1. \A d \in leaving' : d \notin owed' /\ entry'[d] \in {"unsubscribing", "absent"}
      BY <1>2 DEF Patient, Unsubscribing, IInv, TypeOK
    <3>2. \A i, j \in DOMAIN pending :
            pending[i].cmd = "unsubscribe" /\ pending[j].cmd = "unsubscribe"
            /\ pending[j].of = pending[i].of => i = j
      BY DEF Patient, Unsubscribing, Asks
    <3>3. \A i \in DOMAIN pending : pending[i].cmd = "unsubscribe" => pending[i].of \in leaving
      BY DEF Patient, Unsubscribing
    <3>4. /\ \A i \in DOMAIN pending' : pending'[i].cmd = "unsubscribe" => pending'[i].of \in leaving'
          /\ \A i, j \in DOMAIN pending' :
               pending'[i].cmd = "unsubscribe" /\ pending'[j].cmd = "unsubscribe"
               /\ pending'[j].of = pending'[i].of => i = j
      <4>1. leaving' = leaving /\ DOMAIN pending' = DOMAIN pending
        BY <1>2, <1>4
      <4>2. \A i \in DOMAIN pending : pending'[i].cmd = pending[i].cmd /\ pending'[i].of = pending[i].of
        BY <1>4
      <4> QED
        BY <3>2, <3>3, <4>1, <4>2
    <3> QED
      BY <3>1, <3>4 DEF Unsubscribing, Asks
  <2>3. Wanted'
    BY <1>2 DEF Patient, Wanted
  <2>4. Settled'
    BY <1>2, <1>3, <1>4 DEF Patient, Settled
  <2>5. ActiveIsHeld'
    <3> SUFFICES ASSUME ready, NEW d \in Channels, entry'[d] = "active"
                 PROVE  d \in held \/ \E i \in DOMAIN down' : down'[i].kind = "revoked" /\ down'[i].of = d
      BY <1>2 DEF ActiveIsHeld
    <3>1. d # c /\ entry[d] = "active"
      BY <1>2
    <3>2. d \in held \/ \E i \in DOMAIN down : down[i].kind = "revoked" /\ down[i].of = d
      BY <3>1 DEF Patient, ActiveIsHeld
    <3> QED
      BY <1>1, <3>1, <3>2, RevocationStays DEF c
  <2> QED
    BY <2>1, <2>2, <2>3, <2>4, <2>5 DEF Patient
<1> QED
  BY <1>5, <1>6, <1>7, <1>9, <1>8 DEF IInv

LEMMA OnDisconnectKeeps == ASSUME IInv, OnDisconnect PROVE IInv'
<1>1. /\ Typed /\ Wire /\ down # <<>> /\ down' = Tail(down) /\ Head(down).kind = "disconnect"
      /\ sock = "open"
  BY DEF OnDisconnect, Arrives, IInv, TypeOK, Sockets
<1>2. /\ UNCHANGED <<sock, timer, ready, closed, late, entry, owed, leaving, call, pending, unread, held,
                     told, wanted, hung>>
      /\ disc' = told
  BY DEF OnDisconnect
<1>3. Weaker(pending', pending)
  BY <1>1, <1>2 DEF Weaker, Typed
<1>4. Wire' /\ Typed'
  BY <1>1, <1>2, <1>3, TakesOther DEF Kinds
<1>5. TypeOK'
  BY <1>2, <1>4 DEF IInv, TypeOK
<1>6. Sockets' /\ Over' /\ ConnectFirst'
  BY <1>1, <1>2 DEF IInv, Sockets, Over, ConnectFirst
<1>7. Impatient = FALSE => Patient'
  <2> SUFFICES ASSUME Patient PROVE Patient'
    BY DEF IInv
  <2>1. Subscribing' /\ Unsubscribing' /\ Wanted' /\ Settled'
    BY <1>2 DEF Patient, Subscribing, Unsubscribing, Asks, Wanted, Settled
  <2>2. ActiveIsHeld'
    BY <1>1, <1>2, RevocationStays DEF Patient, ActiveIsHeld
  <2> QED
    BY <2>1, <2>2 DEF Patient
<1> QED
  BY <1>4, <1>5, <1>6, <1>7 DEF IInv

-----------------------------------------------------------------------------
(* The gateway's steps change nothing of the client's but the wire. *)

LEMMA GatewayKeeps ==
  ASSUME IInv, sock = "open", Wire', Typed', held' \subseteq Channels, told' \in {None, "later", "stop"},
         told = told' \/ told = None,
         UNCHANGED <<sock, timer, ready, closed, late, disc, entry, owed, leaving, call, pending, wanted, hung>>,
         closed => held' = {}, Impatient = FALSE => ActiveIsHeld'
  PROVE  IInv'
<1>1. TypeOK' /\ Sockets' /\ Over' /\ ConnectFirst'
  BY DEF IInv, TypeOK, Sockets, Over, ConnectFirst
<1>2. Impatient = FALSE => Patient'
  <2> SUFFICES ASSUME Impatient = FALSE, Patient PROVE Patient'
    BY DEF IInv
  <2>1. Subscribing' /\ Unsubscribing' /\ Wanted' /\ Settled'
    BY DEF Patient, Subscribing, Unsubscribing, Asks, Wanted, Settled
  <2> QED
    BY <2>1 DEF Patient
<1> QED
  BY <1>1, <1>2 DEF IInv

(* The command the gateway reads next is one of those that wait, and nothing of it *)
(* has been answered: a connect that is still to be read is alone.               *)
LEMMA NextRead ==
  ASSUME IInv, unread > 0
  PROVE  /\ Typed /\ Wire
         /\ Next1 \in Cmds
         /\ \E i \in DOMAIN pending : Next1 = pending[i]
         /\ Next1.cmd = "connect" => ~ready
         /\ closed => Next1.cmd = "connect" /\ Next1.subs = {} /\ held = {}
         /\ sock = "open" /\ Next1.cmd # "connect" => ready
<1>1. Typed /\ Wire
  BY DEF IInv, TypeOK
<1> DEFINE i == Len(pending) - unread + 1
<1>2. i \in DOMAIN pending /\ pending[i] = Next1 /\ pending[i] \in Cmds
  BY <1>1 DEF Typed, Next1
<1>3. pending[i].cmd = "connect" => ~ready
  BY <1>2 DEF IInv, ConnectFirst
<1>4. ASSUME sock = "open", ~ready PROVE pending[i].cmd = "connect"
  <2>1. DOMAIN pending = {1}
    BY <1>1, <1>4 DEF IInv, ConnectFirst, Typed
  <2> QED
    BY <1>2, <1>4, <2>1 DEF IInv, ConnectFirst
<1>5. closed => pending[i].cmd = "connect" /\ pending[i].subs = {} /\ held = {}
  BY <1>2 DEF IInv, Over
<1> HIDE DEF i
<1> QED
  BY <1>1, <1>2, <1>3, <1>4, <1>5

(* A connect reply is on its way only while its command waits. *)
LEMMA ConnectAnswered ==
  ASSUME Typed, Wire, ready, IInv
  PROVE  \A k \in DOMAIN down : down[k].kind # "connect"
<1> DEFINE n == Len(pending) - unread
<1>1. n \in 0..Len(pending) /\ 1..n \subseteq DOMAIN pending
  BY DEF Typed
<1>2. PICK f \in [1..n -> DOMAIN down] : Matches(f, pending, n, down, held)
  BY DEF Wire, Matched
<1> HIDE DEF n
<1>3. ASSUME NEW k \in DOMAIN down, down[k].kind = "connect" PROVE FALSE
  <2>1. PICK i \in 1..n : f[i] = k
    BY <1>2, <1>3 DEF Matches, Kinds
  <2>2. pending[i].cmd = "connect"
    BY <1>2, <1>3, <2>1 DEF Matches
  <2> QED
    BY <1>1, <2>1, <2>2 DEF IInv, ConnectFirst
<1> QED
  BY <1>3

(* And nothing is on its way that answers a command when none was read. *)
LEMMA ConnectUnread ==
  ASSUME Typed, Wire, sock = "open", ~ready, IInv, unread > 0
  PROVE  /\ \A k \in DOMAIN down : down[k].kind # "connect"
         /\ \A c \in held, i \in DOMAIN pending : ~Asks(i, "subscribe", c)
<1>1. Len(pending) = 1 /\ pending[1].cmd = "connect" /\ DOMAIN pending = {1}
  BY DEF IInv, ConnectFirst, Typed
<1>2. Len(pending) - unread = 0
  BY <1>1 DEF Typed
<1>3. PICK f \in [1..0 -> DOMAIN down] : Matches(f, pending, 0, down, held)
  BY <1>2 DEF Wire, Matched
<1>4. 1..0 = {}
  OBVIOUS
<1> QED
  BY <1>1, <1>3, <1>4 DEF Matches, Kinds, Asks

LEMMA GatewayConnectsKeeps ==
  ASSUME IInv, NEW G \in SUBSET Channels, GatewayConnects(G)
  PROVE  IInv'
<1> DEFINE fr == [kind |-> "connect", grants |-> G]
<1>1. /\ sock = "open" /\ unread > 0 /\ Next1.cmd = "connect"
      /\ down' = Append(down, fr) /\ held' = G /\ unread' = unread - 1
      /\ UNCHANGED <<sock, timer, ready, closed, late, disc, entry, owed, leaving, call, pending, told,
                     wanted, hung>>
  BY DEF GatewayConnects, Serving, Reads, Answers, Next1
<1>2. Typed /\ Wire /\ ~ready
  BY <1>1, NextRead
<1>3. fr \in Frames /\ fr.kind = "connect" /\ fr.grants = G
  BY DEF Frames, Replies
<1>4. /\ \A k \in DOMAIN down : down[k].kind # "connect"
      /\ \A c \in held, i \in DOMAIN pending : ~Asks(i, "subscribe", c)
  BY <1>1, <1>2, ConnectUnread
<1> HIDE DEF fr
<1>5. Wire' /\ Typed'
  BY <1>1, <1>2, <1>3, <1>4, AnswersReply
<1>6. ActiveIsHeld'
  BY <1>1, <1>2 DEF ActiveIsHeld
<1>7. closed => held' = {}
  BY <1>1, NextRead DEF GatewayConnects
<1>8. held' \subseteq Channels /\ told' \in {None, "later", "stop"}
  BY <1>1 DEF IInv, TypeOK
<1> QED
  BY <1>1, <1>5, <1>6, <1>8, <1>7, GatewayKeeps

(* What is held stays held or is revoked by a frame sent last. *)
LEMMA StillHeld ==
  ASSUME IInv, Impatient = FALSE, NEW fr \in Frames, down' = Append(down, fr),
         UNCHANGED <<ready, entry>>,
         \A c \in held : \/ c \in held' \/ (fr.kind = "revoked" /\ fr.of = c)
                         \/ entry[c] # "active"
  PROVE  ActiveIsHeld'
<1> SUFFICES ASSUME ready, NEW c \in Channels, entry[c] = "active", c \notin held'
             PROVE  \E i \in DOMAIN down' : down'[i].kind = "revoked" /\ down'[i].of = c
  BY DEF ActiveIsHeld
<1>1. c \in held \/ \E i \in DOMAIN down : down[i].kind = "revoked" /\ down[i].of = c
  BY DEF IInv, Patient, ActiveIsHeld
<1>2. /\ Len(down) + 1 \in DOMAIN down' /\ down'[Len(down) + 1] = fr
      /\ \A i \in DOMAIN down : i \in DOMAIN down' /\ down'[i] = down[i]
  BY DEF IInv, TypeOK, Typed
<1> QED
  BY <1>1, <1>2

LEMMA GatewaySubscribesKeeps ==
  ASSUME IInv, NEW grant \in BOOLEAN, GatewaySubscribes(grant)
  PROVE  IInv'
<1>1. /\ sock = "open" /\ unread > 0 /\ Next1.cmd = "subscribe" /\ unread' = unread - 1
      /\ UNCHANGED <<sock, timer, ready, closed, late, disc, entry, owed, leaving, call, pending, told,
                     wanted, hung>>
  BY DEF GatewaySubscribes, Serving, Reads, Answers, Next1
<1>2. PICK ok \in BOOLEAN : /\ down' = Append(down, [kind |-> "subscribe", ok |-> ok])
                            /\ held' = IF ok THEN held \cup {Next1.of} ELSE held
  <2>1. (grant /\ Next1.of \notin held) \in BOOLEAN
    OBVIOUS
  <2> QED
    BY <2>1, Zenon DEF GatewaySubscribes, Answers
<1> DEFINE fr == [kind |-> "subscribe", ok |-> ok]
<1>3. fr \in Frames /\ fr.kind = "subscribe" /\ fr.ok = ok
  BY DEF Frames, Replies
<1>4. Typed /\ Wire
  BY <1>1, NextRead
<1> HIDE DEF fr
<1>5. down' = Append(down, fr)
  BY <1>2 DEF fr
<1>6. Wire' /\ Typed'
  BY <1>1, <1>2, <1>3, <1>4, <1>5, AnswersReply
<1>7. Impatient = FALSE => ActiveIsHeld'
  BY <1>1, <1>2, <1>3, <1>5, StillHeld
<1>8. ~closed
  BY <1>1, NextRead
<1>9. held' \subseteq Channels /\ told' \in {None, "later", "stop"}
  <2>1. Next1.of \in Channels
    BY <1>1, NextRead DEF Cmds
  <2> QED
    BY <1>1, <1>2, <2>1 DEF IInv, TypeOK
<1> QED
  BY <1>1, <1>6, <1>7, <1>9, <1>8, GatewayKeeps

LEMMA GatewayUnsubscribesKeeps == ASSUME IInv, GatewayUnsubscribes PROVE IInv'
<1> DEFINE fr == [kind |-> "unsubscribe"]
<1>1. /\ sock = "open" /\ unread > 0 /\ Next1.cmd = "unsubscribe" /\ unread' = unread - 1
      /\ down' = Append(down, fr) /\ held' = held \ {Next1.of}
      /\ UNCHANGED <<sock, timer, ready, closed, late, disc, entry, owed, leaving, call, pending, told,
                     wanted, hung>>
  BY DEF GatewayUnsubscribes, Serving, Reads, Answers, Next1
<1>2. Typed /\ Wire /\ ready /\ \E i \in DOMAIN pending : Next1 = pending[i]
  BY <1>1, NextRead
<1>3. fr \in Frames /\ fr.kind = "unsubscribe"
  BY DEF Frames, Replies
<1>4. \A k \in DOMAIN down : down[k].kind # "connect"
  BY <1>2, ConnectAnswered
<1>5. Impatient = FALSE => Next1.of \in leaving
  BY <1>1, <1>2 DEF IInv, Patient, Unsubscribing
<1>6. Impatient = FALSE => /\ \A i \in DOMAIN pending : ~(Asks(i, "subscribe", Next1.of) /\ pending[i].own)
                           /\ entry[Next1.of] # "active"
  BY <1>5 DEF IInv, TypeOK, Patient, Subscribing, Unsubscribing
<1> HIDE DEF fr
<1>7. \A c \in held : \/ c \in held'
                      \/ \A i \in DOMAIN pending : Asks(i, "subscribe", c) /\ pending[i].own => Impatient
  BY <1>1, <1>6, ClientAssumption
<1>8. Wire' /\ Typed'
  BY <1>1, <1>2, <1>3, <1>4, <1>7, AnswersReply
<1>9. Impatient = FALSE => ActiveIsHeld'
  BY <1>1, <1>3, <1>6, StillHeld
<1>10. ~closed
  BY <1>1, NextRead
<1>11. held' \subseteq Channels /\ told' \in {None, "later", "stop"}
  BY <1>1 DEF IInv, TypeOK
<1> QED
  BY <1>1, <1>8, <1>9, <1>11, <1>10, GatewayKeeps

LEMMA GatewayRepliesKeeps == ASSUME IInv, GatewayReplies PROVE IInv'
<1> DEFINE fr == [kind |-> "call"]
<1>1. /\ sock = "open" /\ unread > 0 /\ Next1.cmd = "call" /\ unread' = unread - 1
      /\ down' = Append(down, fr)
      /\ UNCHANGED <<sock, timer, ready, closed, late, disc, entry, owed, leaving, call, pending, held,
                     told, wanted, hung>>
  BY DEF GatewayReplies, Serving, Reads, Answers, Next1
<1>2. Typed /\ Wire
  BY <1>1, NextRead
<1>3. fr \in Frames /\ fr.kind = "call"
  BY DEF Frames, Replies
<1> HIDE DEF fr
<1>4. Wire' /\ Typed'
  BY <1>1, <1>2, <1>3, AnswersReply
<1>5. Impatient = FALSE => ActiveIsHeld'
  BY <1>1, <1>3, StillHeld
<1>6. closed => held' = {}
  BY <1>1 DEF IInv, Over
<1>7. held' \subseteq Channels /\ told' \in {None, "later", "stop"}
  BY <1>1 DEF IInv, TypeOK
<1> QED
  BY <1>1, <1>4, <1>5, <1>7, <1>6, GatewayKeeps

LEMMA GatewayRevokesKeeps == ASSUME IInv, NEW c \in Channels, GatewayRevokes(c) PROVE IInv'
<1> DEFINE fr == [kind |-> "revoked", of |-> c]
<1>1. /\ sock = "open" /\ down' = Append(down, fr) /\ held' = held \ {c}
      /\ UNCHANGED <<sock, timer, ready, closed, late, disc, entry, owed, leaving, call, pending, unread,
                     told, wanted, hung>>
  BY DEF GatewayRevokes, Serving, Answers
<1>2. Typed /\ Wire
  BY DEF IInv, TypeOK
<1>3. fr \in Frames /\ fr.kind = "revoked" /\ fr.of = c /\ fr.kind \notin Kinds
  BY DEF Frames, Kinds
<1> HIDE DEF fr
<1>4. Wire' /\ Typed'
  BY <1>1, <1>2, <1>3, AnswersOther
<1>5. Impatient = FALSE => ActiveIsHeld'
  BY <1>1, <1>3, StillHeld
<1>6. closed => held' = {}
  BY <1>1 DEF IInv, Over
<1>7. held' \subseteq Channels /\ told' \in {None, "later", "stop"}
  BY <1>1 DEF IInv, TypeOK
<1> QED
  BY <1>1, <1>4, <1>5, <1>7, <1>6, GatewayKeeps

LEMMA GatewayDisconnectsKeeps ==
  ASSUME IInv, NEW what \in {"later", "stop"}, GatewayDisconnects(what)
  PROVE  IInv'
<1> DEFINE fr == [kind |-> "disconnect"]
<1>1. /\ sock = "open" /\ told = None /\ down' = Append(down, fr) /\ told' = what
      /\ UNCHANGED <<sock, timer, ready, closed, late, disc, entry, owed, leaving, call, pending, unread,
                     held, wanted, hung>>
  BY DEF GatewayDisconnects, Serving, Answers
<1>2. Typed /\ Wire
  BY DEF IInv, TypeOK
<1>3. fr \in Frames /\ fr.kind \notin Kinds
  BY DEF Frames, Kinds
<1> HIDE DEF fr
<1>4. Wire' /\ Typed'
  BY <1>1, <1>2, <1>3, AnswersOther
<1>5. Impatient = FALSE => ActiveIsHeld'
  BY <1>1, <1>3, StillHeld
<1>6. closed => held' = {}
  BY <1>1 DEF IInv, Over
<1>7. held' \subseteq Channels /\ told' \in {None, "later", "stop"}
  BY <1>1 DEF IInv, TypeOK
<1> QED
  BY <1>1, <1>4, <1>5, <1>7, <1>6, GatewayKeeps

-----------------------------------------------------------------------------
(* Every step, and the results. *)

LEMMA DropKeeps == ASSUME IInv, NEW code, Drop(code) PROVE IInv'
BY OnCloseKeeps DEF Drop

LEMMA OnFinishedKeeps == ASSUME IInv, OnFinished PROVE IInv'
<1>1. sock # "none" /\ OnClose("soft")
  BY DEF OnFinished
<1> QED
  BY <1>1, OnCloseKeeps

LEMMA NextKeeps == ASSUME IInv, [Next]_vars PROVE IInv'
<1>1. CASE Application
  <2>1. ASSUME NEW c \in Channels,
               SubscribeEarly(c) \/ Subscribe(c) \/ UnsubscribeEarly(c) \/ Unsubscribe(c)
        PROVE  IInv'
    BY <2>1, SubscribeEarlyKeeps, SubscribeKeeps, UnsubscribeEarlyKeeps, UnsubscribeKeeps
  <2>2. ASSUME NEW q \in Calls, Ask(q) PROVE IInv'
    BY <2>2, AskKeeps
  <2>3. CASE Close
    BY <2>3, CloseKeeps
  <2> QED
    BY <1>1, <2>1, <2>2, <2>3 DEF Application
<1>2. CASE Open \/ Dial
  BY <1>2, OpenKeeps, DialKeeps
<1>3. CASE Handlers
  BY <1>3, OnConnectedKeeps, OnSubscribedKeeps, OnUnsubscribedKeeps, OnReplyKeeps, OnRevokedKeeps,
     OnDisconnectKeeps, OnFinishedKeeps DEF Handlers
<1>4. CASE Network
  BY <1>4, DropKeeps DEF Network
<1>5. CASE Gateway
  BY <1>5, GatewayConnectsKeeps, GatewaySubscribesKeeps, GatewayUnsubscribesKeeps,
     GatewayRepliesKeeps DEF Gateway
<1>6. ASSUME NEW c \in Channels, GatewayRevokes(c) PROVE IInv'
  BY <1>6, GatewayRevokesKeeps
<1>7. ASSUME NEW what \in {"later", "stop"}, GatewayDisconnects(what) PROVE IInv'
  BY <1>7, GatewayDisconnectsKeeps
<1>8. CASE UNCHANGED vars
  BY <1>8 DEF vars, wire, IInv, TypeOK, Typed, Sockets, Over, ConnectFirst, Wire, Patient, Subscribing,
     Asks, Unsubscribing, Wanted, Settled, ActiveIsHeld
<1> QED
  BY <1>1, <1>2, <1>3, <1>4, <1>5, <1>6, <1>7, <1>8 DEF Next

(* The invariant, for any application, patient or not.                          *)
THEOREM Invariance == Spec => []IInv
<1>1. IInv /\ [Next]_vars => IInv'
  BY NextKeeps
<1> QED
  BY <1>1, InitOK, PTL DEF Spec

(* The client is well-typed, whatever the application does: the frames and the    *)
(* commands in flight are of the kinds sidecartunnel.js knows, and the gateway      *)
(* has read no more commands than were written.                                *)
THEOREM TypeCorrect == Spec => []TypeOK
<1>1. IInv => TypeOK
  BY DEF IInv
<1> QED
  BY <1>1, Invariance, PTL

(* A client never has two sockets.  One that is closed has no channel here or at    *)
(* the gateway, and neither a socket nor a timer that would dial one: except that    *)
(* an application which closes it from inside onStateChange (_scheduleReconnect and   *)
(* _openSocket go on after that callback) leaves the one that was on its way.      *)
THEOREM NeverTwoSockets == Spec => []OneSocketThenNone
<1>1. IInv => OneSocketThenNone
  BY DEF IInv, Sockets, Over, OneSocketThenNone, Known
<1> QED
  BY <1>1, Invariance, PTL

(* A disconnect frame decides only about the connection it came on: what _onClose   *)
(* reads was said by this gateway, or nothing was said.                         *)
THEOREM DecidedByThisConnection == Spec => []DecisionIsThisConnections
<1>1. IInv => DecisionIsThisConnections
  BY DEF IInv, Sockets, DecisionIsThisConnections
<1> QED
  BY <1>1, Invariance, PTL

(* For an application that awaits its calls on a channel: a channel it sees active  *)
(* is one the gateway holds for this connection, or its revocation is on the way.  *)
THEOREM ActiveMeansHeld == ASSUME Impatient = FALSE PROVE Spec => []ActiveIsHeld
<1>1. IInv => ActiveIsHeld
  BY DEF IInv, Patient
<1> QED
  BY <1>1, Invariance, PTL

(* And no promise is left that nobody would settle, across any number of           *)
(* connections, revocations and reconnects.                                     *)
THEOREM EveryPromiseHasAnOwner == ASSUME Impatient = FALSE PROVE Spec => []NoPromiseHangs
<1>1. IInv => NoPromiseHangs
  BY DEF IInv, Over, Patient, Settled, NoPromiseHangs
<1> QED
  BY <1>1, Invariance, PTL

(* And _sendConnect replays only what the application still wants.                *)
THEOREM ReplaysOnlyWanted == ASSUME Impatient = FALSE PROVE Spec => OnlyWantedReplayed
<1>1. ASSUME IInv, [Next]_vars, sock = "dialing", sock' = "open"
      PROVE  Last(pending').subs \subseteq wanted
  <2>1. Open
    <3>1. CASE Open
      BY <3>1
    <3>2. CASE UNCHANGED vars
      BY <1>1, <3>2 DEF vars
    <3>3. CASE Next /\ ~Open
      BY <1>1, <3>3 DEF Next, Application, Handlers, Network, Gateway, SubscribeEarly, Subscribe,
         UnsubscribeEarly, Unsubscribe, Ask, Close, Dial, OnConnected, OnSubscribed,
         OnUnsubscribed, OnReply, OnRevoked, OnDisconnect, OnFinished, OnClose, Drop,
         GatewayConnects, GatewaySubscribes, GatewayUnsubscribes, GatewayReplies,
         GatewayRevokes, GatewayDisconnects
    <3> QED
      BY <1>1, <3>1, <3>2, <3>3
  <2> DEFINE S == {c \in Known : entry[c] # "unsubscribing"}
             cmd == [Command("connect", None) EXCEPT !.subs = S]
  <2>2. pending = <<>> /\ cmd.subs = S
    BY <1>1, <2>1 DEF IInv, Sockets, Command
  <2>3. pending' = pending \o <<cmd>>
    BY <2>1 DEF Open, Send
  <2> HIDE DEF S, cmd
  <2>4. Last(pending') = cmd
    BY <2>2, <2>3 DEF Last
  <2>5. S \subseteq wanted
    BY <1>1 DEF S, Known, IInv, TypeOK, Patient, Wanted
  <2> QED
    BY <2>2, <2>4, <2>5
<1> QED
  BY <1>1, Invariance, PTL DEF Spec, OnlyWantedReplayed
=============================================================================
