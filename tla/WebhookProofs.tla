--------------------------- MODULE WebhookProofs ---------------------------
(***************************************************************************)
(* The webhook client for every number of calls and cookies, every pair of     *)
(* limits and every number of retries.                                       *)
(*                                                                         *)
(* What has to be carried along: what each phase of a call implies about its   *)
(* last answer and its result (Told), and that an authorization that is on      *)
(* its way to the cache for a revoked user is one the flush saw (WayIsRacing). *)
(***************************************************************************)
EXTENDS Webhook, FiniteSetTheorems, TLAPS

Holding  == Issuing \cup {"leaving with a slot"}
Unasked  == {"idle", "acquiring", "queueing", "waiting", "leaving with a slot"}
Hopeful  == {"nothing"} \cup Failures

(* What the result of a call owes to its last answer. *)
Owed(c) ==
  /\ result[c] \in {"authorized", "refused", "unavailable"}
  /\ result[c] = "refused" <=> said[c] \in {"refused", "malformed"}
  /\ said[c] = "authorized" => result[c] = "authorized"
  /\ result[c] = "authorized" => said[c] = "authorized" \/ tries[c] = 0

Known(c) ==
  /\ phase[c] \in Unasked => tries[c] = 0 /\ said[c] = "nothing" /\ result[c] = "none"
  /\ phase[c] \in {"calling", "asking"} => said[c] \in Hopeful
  /\ phase[c] = "calling" => tries[c] <= Retries
  /\ phase[c] = "answered" => said[c] # "nothing"
  /\ phase[c] = "keeping" => said[c] = "authorized"
  /\ phase[c] \in {"leaving without", "keeping", "releasing", "returned"} => Owed(c)

Told == \A c \in Calls : Known(c)

WayIsRacing == OnItsWay \cap revoked \subseteq racing

IInv == TypeOK /\ PoolFollows /\ Told /\ WayIsRacing /\ StaleOnlyIfRacing

USE DEF Phases, Issuing, Queued, Decisions, Failures

LEMMA InitInv == Init => IInv
<1> SUFFICES ASSUME Init PROVE IInv
  OBVIOUS
<1>1. TypeOK /\ Told
  BY WebhookAssumption DEF Init, TypeOK, Told, Known, Unasked
<1>2. InFlight = {} /\ InQueue = {}
  BY DEF Init, InFlight, InQueue
<1>3. PoolFollows
  BY <1>2, FS_EmptySet, WebhookAssumption DEF Init, PoolFollows
<1> QED
  BY <1>1, <1>3 DEF IInv, Init, WayIsRacing, StaleOnlyIfRacing

-----------------------------------------------------------------------------
(* The limits. *)

(* The calls whose phase is in S, before a step and after it. *)
Before(S) == {d \in Calls : phase[d] \in S}
After(S)  == {d \in Calls : phase'[d] \in S}

LEMMA Named ==
  /\ InFlight = Before(Holding) /\ InFlight' = After(Holding)
  /\ InQueue = Before(Queued) /\ InQueue' = After(Queued)
  BY DEF InFlight, InQueue, Before, After, Holding

(* How the number of calls in a set of phases changes when one moves. *)
LEMMA Counting ==
  ASSUME TypeOK, NEW c \in Calls, NEW p, NEW q, Moves(c, p, q), NEW S
  PROVE  /\ Cardinality(Before(S)) \in Nat /\ Cardinality(After(S)) \in Nat
         /\ (p \in S <=> q \in S) => After(S) = Before(S)
         /\ p \notin S /\ q \in S => Cardinality(After(S)) = Cardinality(Before(S)) + 1
         /\ p \in S /\ q \notin S => Cardinality(After(S)) = Cardinality(Before(S)) - 1
<1>1. phase[c] = p /\ \A d \in Calls : phase'[d] = IF d = c THEN q ELSE phase[d]
  BY DEF Moves, TypeOK
<1>2. IsFiniteSet(Before(S)) /\ IsFiniteSet(After(S))
  <2>1. Before(S) \in SUBSET Calls /\ After(S) \in SUBSET Calls
    BY DEF Before, After
  <2> QED
    BY <2>1, WebhookAssumption, FS_Subset
<1>3. Cardinality(Before(S)) \in Nat /\ Cardinality(After(S)) \in Nat
  BY <1>2, FS_CardinalityType
<1>4. ASSUME p \in S <=> q \in S PROVE After(S) = Before(S)
  BY <1>1, <1>4 DEF Before, After
<1>5. ASSUME p \notin S, q \in S PROVE Cardinality(After(S)) = Cardinality(Before(S)) + 1
  <2>1. c \notin Before(S) /\ After(S) = Before(S) \cup {c}
    BY <1>1, <1>5 DEF Before, After
  <2> QED
    BY <2>1, <1>2, FS_AddElement
<1>6. ASSUME p \in S, q \notin S PROVE Cardinality(After(S)) = Cardinality(Before(S)) - 1
  <2>1. c \in Before(S) /\ After(S) = Before(S) \ {c}
    BY <1>1, <1>6 DEF Before, After
  <2> QED
    BY <2>1, <1>2, FS_RemoveElement
<1> QED
  BY <1>3, <1>4, <1>5, <1>6

LEMMA CallKeepsPool ==
  ASSUME IInv, NEW c \in Calls, Call(c)
  PROVE  PoolFollows' /\ inflight' \in Nat /\ waiting' \in Nat
<1>0. TypeOK /\ inflight = Cardinality(Before(Holding)) /\ waiting = Cardinality(Before(Queued))
  BY Named DEF IInv, PoolFollows
<1>1. /\ inflight \in Nat /\ waiting \in Nat
      /\ inflight <= Concurrency /\ waiting <= QueueLength
      /\ Concurrency \in Nat /\ QueueLength \in Nat
  BY WebhookAssumption DEF IInv, PoolFollows, TypeOK
<1>2. ASSUME NEW p, NEW q, Moves(c, p, q),
             \/ (p \in Holding <=> q \in Holding) /\ inflight' = inflight
             \/ p \notin Holding /\ q \in Holding /\ inflight < Concurrency /\ inflight' = inflight + 1
             \/ p \in Holding /\ q \notin Holding /\ inflight' = inflight - 1,
             \/ (p \in Queued <=> q \in Queued) /\ waiting' = waiting
             \/ p \notin Queued /\ q \in Queued /\ waiting < QueueLength /\ waiting' = waiting + 1
             \/ p \in Queued /\ q \notin Queued /\ waiting' = waiting - 1
      PROVE  PoolFollows' /\ inflight' \in Nat /\ waiting' \in Nat
  <2>1. /\ (p \in Holding <=> q \in Holding) => After(Holding) = Before(Holding)
        /\ p \notin Holding /\ q \in Holding => Cardinality(After(Holding)) = Cardinality(Before(Holding)) + 1
        /\ p \in Holding /\ q \notin Holding => Cardinality(After(Holding)) = Cardinality(Before(Holding)) - 1
        /\ Cardinality(After(Holding)) \in Nat
    <3> HIDE DEF Queued
    <3> QED
      BY <1>0, <1>2, Counting
  <2>2. /\ (p \in Queued <=> q \in Queued) => After(Queued) = Before(Queued)
        /\ p \notin Queued /\ q \in Queued => Cardinality(After(Queued)) = Cardinality(Before(Queued)) + 1
        /\ p \in Queued /\ q \notin Queued => Cardinality(After(Queued)) = Cardinality(Before(Queued)) - 1
        /\ Cardinality(After(Queued)) \in Nat
    <3> HIDE DEF Queued
    <3> QED
      BY <1>0, <1>2, Counting
  <2> HIDE DEF Queued
  <2>3. inflight' = Cardinality(After(Holding)) /\ inflight' \in Nat /\ inflight' <= Concurrency
    BY <1>0, <1>1, <1>2, <2>1
  <2>4. waiting' = Cardinality(After(Queued)) /\ waiting' \in Nat /\ waiting' <= QueueLength
    BY <1>0, <1>1, <1>2, <2>2
  <2> QED
    BY <2>3, <2>4, Named DEF PoolFollows
<1>3. CASE Acquire(c)
  BY <1>2, <1>3 DEF Acquire, Holding
<1>4. CASE TakeSlot(c)
  BY <1>2, <1>4 DEF TakeSlot, Holding
<1>5. CASE Enqueue(c)
  BY <1>2, <1>5 DEF Enqueue, Holding
<1>6. CASE LeaveQueue(c)
  <2>1. CASE Moves(c, "leaving with a slot", "calling")
    BY <1>2, <1>6, <2>1 DEF LeaveQueue, Holding
  <2>2. CASE Moves(c, "leaving without", "returned")
    BY <1>2, <1>6, <2>2 DEF LeaveQueue, Holding
  <2> QED
    BY <1>6, <2>1, <2>2 DEF LeaveQueue
<1>7. CASE Release(c)
  BY <1>2, <1>7 DEF Release, Holding
<1>8. CASE \/ Hit(c) \/ Miss(c) \/ Overflow(c) \/ GiveUp(c)
           \/ Ask(c) \/ Abandon(c) \/ Answer(c) \/ Lose(c) \/ Classify(c) \/ Keep(c)
  <2>1. UNCHANGED pool
    BY <1>8 DEF Hit, Miss, Overflow, GiveUp, Ask, Abandon, Answer, Lose, Classify, Keep, pool
  <2>2. \/ \E p, q \in {"idle", "acquiring", "queueing", "returned"} : Moves(c, p, q)
        \/ \E p, q \in Issuing : Moves(c, p, q)
        \/ Moves(c, "waiting", "leaving without")
    BY <1>8 DEF Hit, Miss, Overflow, GiveUp, Ask, Abandon, Answer, Lose, Classify, Keep, Settles
  <2>3. PICK p, q : /\ Moves(c, p, q)
                    /\ p \in Holding <=> q \in Holding
                    /\ p \in Queued <=> q \in Queued
    BY <2>2 DEF Holding
  <2> QED
    BY <1>2, <2>1, <2>3 DEF pool
<1> QED
  BY <1>3, <1>4, <1>5, <1>6, <1>7, <1>8 DEF Call

-----------------------------------------------------------------------------
(* What a call has been told. *)

LEMMA CallKeepsTold ==
  ASSUME IInv, NEW c \in Calls, Call(c)
  PROVE  TypeOK' /\ Told'
<1> USE DEF IInv
<1>1. \A d \in Calls \ {c} : phase'[d] = phase[d] /\ tries'[d] = tries[d]
                              /\ said'[d] = said[d] /\ result'[d] = result[d]
  BY DEF Call, Hit, Miss, Acquire, Enqueue, Overflow, TakeSlot, GiveUp, LeaveQueue, Ask, Abandon,
     Answer, Lose, Classify, Keep, Release, Moves, Settles, TypeOK, answers
<1>2. Known(c)
  BY DEF Told
<1>3. ASSUME NEW d \in Calls \ {c} PROVE Known(d)'
  <2>1. Known(d)
    BY DEF Told
  <2>2. phase'[d] = phase[d] /\ tries'[d] = tries[d] /\ said'[d] = said[d] /\ result'[d] = result[d]
    BY <1>1
  <2> HIDE DEF IInv
  <2> QED
    BY <2>1, <2>2 DEF Known, Owed
<1>4. inflight' \in Nat /\ waiting' \in Nat
  BY CallKeepsPool
<1>5. CASE Hit(c) \/ Miss(c) \/ Acquire(c) \/ Enqueue(c) \/ Overflow(c) \/ TakeSlot(c) \/ GiveUp(c)
           \/ LeaveQueue(c) \/ Keep(c) \/ Release(c)
  <2>1. TypeOK'
    <3>1. phase' \in [Calls -> Phases]
      <4>1. PICK p, q \in Phases : Moves(c, p, q)
        BY <1>5 DEF Hit, Miss, Acquire, Enqueue, Overflow, TakeSlot, GiveUp, LeaveQueue, Keep,
           Release, Settles
      <4> QED
        BY <4>1 DEF Moves, TypeOK
    <3>2. UNCHANGED <<tries, said, suspended, revoked, racing>>
      BY <1>5 DEF Hit, Miss, Acquire, Enqueue, Overflow, TakeSlot, GiveUp, LeaveQueue, Keep,
         Release, answers, control
    <3>3. result' \in [Calls -> {"none", "authorized", "refused", "unavailable"}]
      BY <1>5 DEF Hit, Miss, Acquire, Enqueue, Overflow, TakeSlot, GiveUp, LeaveQueue, Keep,
         Release, Settles, TypeOK, answers
    <3>4. fresh' = fresh \/ fresh' = fresh \cup ({CookieOf[c]} \ Uncacheable)
      BY <1>5 DEF Hit, Miss, Acquire, Enqueue, Overflow, TakeSlot, GiveUp, LeaveQueue, Keep,
         Release, control
    <3>5. fresh' \subseteq Cookies
      <4>1. CookieOf[c] \in Cookies
        BY WebhookAssumption
      <4>2. fresh \subseteq Cookies
        BY DEF TypeOK
      <4> HIDE DEF IInv
      <4> QED
        BY <3>4, <4>1, <4>2
    <3> QED
      BY <1>4, <3>1, <3>2, <3>3, <3>5 DEF TypeOK
  <2>2. ASSUME Hit(c) \/ Overflow(c) \/ GiveUp(c) PROVE Known(c)'
    BY <1>2, <2>2 DEF Hit, Overflow, GiveUp, Moves, Settles, TypeOK, Known, Unasked, Hopeful, Owed
  <2>3. ASSUME Keep(c) \/ Release(c) PROVE Known(c)'
    BY <1>2, <2>3 DEF Keep, Release, Moves, TypeOK, answers, Known, Unasked, Hopeful, Owed
  <2>4. ASSUME Miss(c) \/ Acquire(c) \/ Enqueue(c) \/ TakeSlot(c) PROVE Known(c)'
    <3>1. tries[c] = 0 /\ said[c] = "nothing" /\ result[c] = "none"
      BY <1>2, <2>4 DEF Miss, Acquire, Enqueue, TakeSlot, Moves, Known, Unasked
    <3>2. UNCHANGED answers /\ phase'[c] \in {"acquiring", "calling", "queueing", "waiting",
                                              "leaving with a slot"}
      BY <2>4 DEF Miss, Acquire, Enqueue, TakeSlot, Moves, TypeOK
    <3>3. tries'[c] = 0 /\ said'[c] = "nothing" /\ result'[c] = "none"
      BY <3>1, <3>2 DEF answers
    <3>4. tries'[c] <= Retries
      BY <3>3, WebhookAssumption
    <3> HIDE DEF IInv
    <3> QED
      BY <3>2, <3>3, <3>4 DEF Known, Unasked, Hopeful
  <2>5. ASSUME LeaveQueue(c) PROVE Known(c)'
    <3>1. UNCHANGED answers
      BY <2>5 DEF LeaveQueue
    <3>2. \/ phase[c] = "leaving with a slot" /\ phase'[c] = "calling"
          \/ phase[c] = "leaving without" /\ phase'[c] = "returned"
      BY <2>5 DEF LeaveQueue, Moves, TypeOK
    <3>3. tries'[c] = tries[c] /\ said'[c] = said[c] /\ result'[c] = result[c]
      BY <3>1 DEF answers
    <3>4. CASE phase[c] = "leaving with a slot" /\ phase'[c] = "calling"
      <4>1. tries'[c] = 0 /\ said'[c] = "nothing"
        BY <1>2, <3>3, <3>4 DEF Known, Unasked
      <4>2. tries'[c] <= Retries
        BY <4>1, WebhookAssumption
      <4> QED
        BY <3>4, <4>1, <4>2 DEF Known, Unasked, Hopeful
    <3>5. CASE phase[c] = "leaving without" /\ phase'[c] = "returned"
      BY <1>2, <3>3, <3>5 DEF Known, Unasked, Hopeful, Owed
    <3> QED
      BY <3>2, <3>4, <3>5
  <2> QED
    BY <1>3, <1>5, <2>1, <2>2, <2>3, <2>4, <2>5 DEF Told
<1>6. CASE Ask(c)
  <2>1. tries[c] \in Nat /\ tries[c] <= Retries /\ phase[c] = "calling"
    <3>1. phase[c] = "calling"
      BY <1>6 DEF Ask, Moves
    <3>2. tries[c] \in 0..(Retries + 1)
      BY DEF TypeOK
    <3> HIDE DEF IInv
    <3> QED
      BY <1>2, <3>1, <3>2, WebhookAssumption DEF Known
  <2>2. tries[c] + 1 \in 0..(Retries + 1)
    BY <2>1, WebhookAssumption
  <2>3. TypeOK'
    BY <1>4, <1>6, <2>2 DEF Ask, Moves, TypeOK, control
  <2>4. Known(c)'
    BY <1>2, <1>6 DEF Ask, Moves, TypeOK, Known, Unasked, Hopeful
  <2> QED
    BY <1>3, <2>3, <2>4 DEF Told
<1>7. CASE Abandon(c)
  <2>1. TypeOK'
    BY <1>4, <1>7 DEF Abandon, Moves, Settles, TypeOK, control
  <2>2. Known(c)'
    BY <1>2, <1>7 DEF Abandon, Moves, Settles, TypeOK, Known, Unasked, Hopeful, Owed
  <2> QED
    BY <1>3, <2>1, <2>2 DEF Told
<1>8. CASE Answer(c) \/ Lose(c)
  <2>1. TypeOK'
    <3>1. phase' \in [Calls -> Phases] /\ UNCHANGED <<tries, result, control>>
      BY <1>8 DEF Answer, Lose, Moves, TypeOK
    <3>2. said' \in [Calls -> {"nothing", "rejected"} \cup Decisions \cup Failures]
      BY <1>8 DEF Answer, Lose, TypeOK
    <3> QED
      BY <1>4, <3>1, <3>2 DEF TypeOK, control
  <2>2. Known(c)'
    BY <1>2, <1>8 DEF Answer, Lose, Moves, TypeOK, Known, Unasked, Hopeful
  <2> QED
    BY <1>3, <2>1, <2>2 DEF Told
<1>9. CASE Classify(c)
  <2>1. \/ said[c] = "authorized" /\ Settles(c, "answered", "keeping", "authorized")
        \/ said[c] \in {"refused", "malformed"} /\ Settles(c, "answered", "releasing", "refused")
        \/ /\ said[c] \in Failures /\ tries[c] <= Retries
           /\ Moves(c, "answered", "calling") /\ UNCHANGED result
        \/ said[c] \notin Decisions /\ Settles(c, "answered", "releasing", "unavailable")
    BY <1>9 DEF Classify, Refuses, WorthRetry
  <2>2. TypeOK'
    BY <1>4, <1>9, <2>1 DEF Classify, Moves, Settles, TypeOK, control
  <2>3. Known(c)'
    BY <1>2, <1>9, <2>1 DEF Classify, Moves, Settles, TypeOK, Known, Unasked, Hopeful, Owed
  <2> QED
    BY <1>3, <2>2, <2>3 DEF Told
<1> QED
  BY <1>5, <1>6, <1>7, <1>8, <1>9 DEF Call

-----------------------------------------------------------------------------
(* The cache against the flush. *)

LEMMA CallKeepsCache ==
  ASSUME IInv, NEW c \in Calls, Call(c)
  PROVE  WayIsRacing' /\ StaleOnlyIfRacing'
<1> USE DEF IInv
<1>1. CASE Keep(c)
  <2>1. OnItsWay' \subseteq OnItsWay
    BY <1>1 DEF Keep, Moves, TypeOK, answers, OnItsWay
  <2>2. CookieOf[c] \in OnItsWay
    BY <1>1 DEF Keep, Moves, Told, Known, OnItsWay
  <2> QED
    BY <1>1, <2>1, <2>2 DEF Keep, WayIsRacing, StaleOnlyIfRacing
<1>2. CASE Answer(c)
  <2>1. OnItsWay' \subseteq OnItsWay \cup ({CookieOf[c]} \ suspended)
    <3>1. said'[c] = "authorized" => CookieOf[c] \notin suspended
      BY <1>2 DEF Answer, TypeOK
    <3>2. \A d \in Calls \ {c} : phase'[d] = phase[d] /\ said'[d] = said[d]
      BY <1>2 DEF Answer, Moves, TypeOK
    <3> QED
      BY <3>1, <3>2 DEF OnItsWay
  <2> QED
    BY <1>2, <2>1 DEF Answer, TypeOK, control, WayIsRacing, StaleOnlyIfRacing
<1>3. CASE ~Keep(c) /\ ~Answer(c)
  <2>1. UNCHANGED control
    BY <1>3 DEF Call, Hit, Miss, Acquire, Enqueue, Overflow, TakeSlot, GiveUp, LeaveQueue, Ask,
       Abandon, Lose, Classify, Release
  <2>2. OnItsWay' \subseteq OnItsWay
    <3>1. ASSUME NEW d \in Calls, phase'[d] \in {"answered", "keeping"}, said'[d] = "authorized"
          PROVE  phase[d] \in {"answered", "keeping"} /\ said[d] = "authorized"
      BY <1>3, <3>1 DEF Call, Hit, Miss, Acquire, Enqueue, Overflow, TakeSlot, GiveUp, LeaveQueue,
         Ask, Abandon, Lose, Classify, Release, Moves, Settles, TypeOK, answers
    <3> QED
      BY <3>1 DEF OnItsWay
  <2> QED
    BY <2>1, <2>2 DEF control, WayIsRacing, StaleOnlyIfRacing
<1> QED
  BY <1>1, <1>2, <1>3

LEMMA NextKeeps == IInv /\ [Next]_webVars => IInv'
<1> SUFFICES ASSUME IInv, [Next]_webVars PROVE IInv'
  OBVIOUS
<1>1. ASSUME NEW c \in Calls, Call(c) PROVE IInv'
  BY <1>1, CallKeepsPool, CallKeepsTold, CallKeepsCache DEF IInv
<1>2. CASE UNCHANGED webVars
  <2>1. TypeOK' /\ PoolFollows'
    BY <1>2 DEF IInv, webVars, TypeOK, PoolFollows, InFlight, InQueue
  <2>2. Told'
    BY <1>2 DEF IInv, webVars, Told, Known, Owed
  <2>3. WayIsRacing' /\ StaleOnlyIfRacing'
    BY <1>2 DEF IInv, webVars, WayIsRacing, StaleOnlyIfRacing, OnItsWay
  <2> QED
    BY <2>1, <2>2, <2>3 DEF IInv
<1>3. ASSUME NEW k \in Cookies, Lapse(k) \/ Suspend(k) \/ Flush(k) PROVE IInv'
  <2>1. UNCHANGED <<phase, pool, answers>>
    BY <1>3 DEF Lapse, Suspend, Flush
  <2>2. TypeOK'
    <3>1. OnItsWay \subseteq Cookies
      BY WebhookAssumption DEF OnItsWay
    <3> QED
      BY <1>3, <2>1, <3>1 DEF Lapse, Suspend, Flush, IInv, TypeOK, pool, answers
  <2>3. PoolFollows' /\ Told'
    BY <2>1 DEF IInv, pool, answers, PoolFollows, InFlight, InQueue, Told, Known, Owed
  <2>4. OnItsWay' = OnItsWay
    BY <2>1 DEF answers, OnItsWay
  <2>5. WayIsRacing' /\ StaleOnlyIfRacing'
    BY <1>3, <2>4 DEF Lapse, Suspend, Flush, IInv, WayIsRacing, StaleOnlyIfRacing
  <2> QED
    BY <2>2, <2>3, <2>5 DEF IInv
<1> QED
  BY <1>1, <1>2, <1>3 DEF Next

(* The invariant holds in every state of every behaviour of the webhook client.  *)
THEOREM Invariance == Spec => []IInv
<1> QED
  BY InitInv, NextKeeps, PTL DEF Spec

(* The client's state keeps its types: no call asks more than retries + 1 times.  *)
THEOREM TypeCorrect == Spec => []TypeOK
<1>1. IInv => TypeOK
  BY DEF IInv
<1> QED
  BY <1>1, Invariance, PTL

(* webhook.go, acquire: whatever ends a call gives back exactly what it took, and  *)
(* the application never has more than app.webhook_concurrency calls to answer.    *)
THEOREM LimitsAreKept == Spec => []PoolFollows
<1>1. IInv => PoolFollows
  BY DEF IInv
<1> QED
  BY <1>1, Invariance, PTL

(* webhook.go, classify and attempts: only the application refuses a user.       *)
THEOREM OnlyDecisionsRefuse == Spec => []OutcomeFollows
<1>1. IInv => OutcomeFollows
  BY DEF IInv, Told, Known, Owed, OutcomeFollows
<1> QED
  BY <1>1, Invariance, PTL

(* webhook.go, attempts: a refusal or a rejected request is never sent again.     *)
THEOREM NeverRetriesRefusal == Spec => RefusalIsFinal
<1>1. IInv /\ [Next]_webVars =>
        [\A c \in Calls : tries'[c] # tries[c] => said[c] \in {"nothing"} \cup Failures]_webVars
  <2> SUFFICES ASSUME IInv, Next, NEW c \in Calls, tries'[c] # tries[c]
               PROVE  said[c] \in {"nothing"} \cup Failures
    OBVIOUS
  <2>1. Ask(c)
    BY DEF Next, Call, Hit, Miss, Acquire, Enqueue, Overflow, TakeSlot, GiveUp, LeaveQueue, Ask,
       Abandon, Answer, Lose, Classify, Keep, Release, Lapse, Suspend, Flush, answers, IInv, TypeOK
  <2> QED
    BY <2>1 DEF Ask, Moves, IInv, Told, Known, Hopeful
<1> QED
  BY <1>1, Invariance, PTL DEF Spec, RefusalIsFinal

-----------------------------------------------------------------------------
(* Every step of a call is progress. *)

(* The ways a call may go without making a request. *)
Way(p, q) ==
  \/ p = "idle" /\ q \in {"returned", "acquiring"}
  \/ p = "acquiring" /\ q \in {"calling", "queueing"}
  \/ p = "queueing" /\ q \in {"waiting", "returned"}
  \/ p = "waiting" /\ q \in {"leaving with a slot", "leaving without"}
  \/ p = "leaving with a slot" /\ q = "calling"
  \/ p = "leaving without" /\ q = "returned"
  \/ p = "calling" /\ q = "releasing"
  \/ p = "asking" /\ q = "answered"
  \/ p = "answered" /\ q \in {"keeping", "releasing", "calling"}
  \/ p = "keeping" /\ q = "releasing"
  \/ p = "releasing" /\ q = "returned"

LEMMA WaysGoDown ==
  ASSUME NEW n \in 0..(Retries + 1), NEW p, NEW q, Way(p, q)
  PROVE  Remaining(q, n) < Remaining(p, n)
<1>1. /\ Remaining("returned", n) < Remaining("idle", n)
      /\ Remaining("acquiring", n) < Remaining("idle", n)
  BY WebhookAssumption DEF Remaining
<1>2. /\ Remaining("calling", n) < Remaining("acquiring", n)
      /\ Remaining("queueing", n) < Remaining("acquiring", n)
  BY WebhookAssumption DEF Remaining
<1>3. /\ Remaining("waiting", n) < Remaining("queueing", n)
      /\ Remaining("returned", n) < Remaining("queueing", n)
  BY WebhookAssumption DEF Remaining
<1>4. /\ Remaining("leaving with a slot", n) < Remaining("waiting", n)
      /\ Remaining("leaving without", n) < Remaining("waiting", n)
  BY WebhookAssumption DEF Remaining
<1>5. Remaining("calling", n) < Remaining("leaving with a slot", n)
  BY WebhookAssumption DEF Remaining
<1>6. Remaining("returned", n) < Remaining("leaving without", n)
  BY WebhookAssumption DEF Remaining
<1>7. Remaining("releasing", n) < Remaining("calling", n)
  BY WebhookAssumption DEF Remaining
<1>8. Remaining("answered", n) < Remaining("asking", n)
  BY WebhookAssumption DEF Remaining
<1>9. /\ Remaining("keeping", n) < Remaining("answered", n)
      /\ Remaining("releasing", n) < Remaining("answered", n)
      /\ Remaining("calling", n) < Remaining("answered", n)
  BY WebhookAssumption DEF Remaining
<1>10. Remaining("releasing", n) < Remaining("keeping", n)
  BY WebhookAssumption DEF Remaining
<1>11. Remaining("returned", n) < Remaining("releasing", n)
  BY WebhookAssumption DEF Remaining
<1> QED
  BY <1>1, <1>2, <1>3, <1>4, <1>5, <1>6, <1>7, <1>8, <1>9, <1>10, <1>11 DEF Way

(* A request is one of those that were left. *)
LEMMA OneFewer ==
  ASSUME NEW n \in 0..Retries
  PROVE  Remaining("asking", n + 1) < Remaining("calling", n)
BY WebhookAssumption DEF Remaining

LEMMA CallNears ==
  ASSUME IInv, NEW c \in Calls, Call(c)
  PROVE  Remaining(phase'[c], tries'[c]) < Remaining(phase[c], tries[c])
<1>1. tries[c] \in 0..(Retries + 1) /\ Known(c)
  BY DEF IInv, TypeOK, Told
<1>2. ASSUME NEW p, NEW q, Moves(c, p, q) PROVE phase[c] = p /\ phase'[c] = q
  BY <1>2 DEF Moves, IInv, TypeOK
<1>3. CASE Ask(c)
  <2>1. phase[c] = "calling" /\ phase'[c] = "asking"
    BY <1>2, <1>3 DEF Ask
  <2>2. tries[c] \in 0..Retries
    BY <1>1, <2>1, WebhookAssumption DEF Known
  <2>3. tries'[c] = tries[c] + 1
    BY <1>3 DEF Ask, IInv, TypeOK
  <2> QED
    BY <2>1, <2>2, <2>3, OneFewer
<1>4. CASE ~Ask(c)
  <2>1. tries' = tries
    BY <1>4 DEF Call, Hit, Miss, Acquire, Enqueue, Overflow, TakeSlot, GiveUp, LeaveQueue,
       Abandon, Answer, Lose, Classify, Settles, Keep, Release, answers
  <2>2. ASSUME NEW p, NEW q, Moves(c, p, q), Way(p, q)
        PROVE  Remaining(phase'[c], tries'[c]) < Remaining(phase[c], tries[c])
    <3>1. Remaining(q, tries[c]) < Remaining(p, tries[c])
      BY <1>1, <2>2, WaysGoDown
    <3> QED
      BY <1>2, <2>1, <2>2, <3>1
  <2>3. CASE Hit(c) \/ Miss(c)
    BY <2>2, <2>3 DEF Hit, Miss, Settles, Way
  <2>4. CASE Acquire(c)
    BY <2>2, <2>4 DEF Acquire, Way
  <2>5. CASE Enqueue(c) \/ Overflow(c)
    BY <2>2, <2>5 DEF Enqueue, Overflow, Settles, Way
  <2>6. CASE TakeSlot(c) \/ GiveUp(c)
    BY <2>2, <2>6 DEF TakeSlot, GiveUp, Settles, Way
  <2>7. CASE LeaveQueue(c)
    BY <2>2, <2>7 DEF LeaveQueue, Way
  <2>8. CASE Abandon(c)
    BY <2>2, <2>8 DEF Abandon, Settles, Way
  <2>9. CASE Answer(c) \/ Lose(c)
    BY <2>2, <2>9 DEF Answer, Lose, Way
  <2>10. CASE Classify(c)
    <3>1. \E q \in {"keeping", "releasing", "calling"} : Moves(c, "answered", q)
      BY <2>10 DEF Classify, Settles
    <3> QED
      BY <2>2, <3>1 DEF Way
  <2>11. CASE Keep(c) \/ Release(c)
    BY <2>2, <2>11 DEF Keep, Release, Way
  <2> QED
    BY <1>4, <2>3, <2>4, <2>5, <2>6, <2>7, <2>8, <2>9, <2>10, <2>11 DEF Call
<1> QED
  BY <1>3, <1>4

(* webhook.go, connect and attempts: whatever the application answers, every step *)
(* of a call brings it nearer to its return, so that a call takes at most          *)
(* 3 * Retries + 11 steps of its own.                                         *)
THEOREM EveryStepNears == Spec => NearsReturn
<1>1. IInv /\ [Next]_webVars =>
        [\A c \in Calls : phase'[c] # phase[c] =>
           Remaining(phase'[c], tries'[c]) < Remaining(phase[c], tries[c])]_webVars
  <2> SUFFICES ASSUME IInv, Next, NEW c \in Calls, phase'[c] # phase[c]
               PROVE  Remaining(phase'[c], tries'[c]) < Remaining(phase[c], tries[c])
    OBVIOUS
  <2>1. PICK d \in Calls : Call(d)
    BY DEF Next, Lapse, Suspend, Flush
  <2>2. phase \in [Calls -> Phases] /\ \E p, q \in Phases : Moves(d, p, q)
    BY <2>1 DEF Call, Hit, Miss, Acquire, Enqueue, Overflow, TakeSlot, GiveUp, LeaveQueue, Ask,
       Abandon, Answer, Lose, Classify, Keep, Release, Settles, IInv, TypeOK
  <2>3. c = d
    BY <2>2 DEF Moves
  <2> QED
    BY <2>1, <2>3, CallNears
<1> QED
  BY <1>1, Invariance, PTL DEF Spec, NearsReturn

(* webhook.go, Flush: what the cache still says of a revoked user it was told by  *)
(* a call that had its answer before the flush.                               *)
THEOREM FlushForgets == Spec => []StaleOnlyIfRacing
<1>1. IInv => StaleOnlyIfRacing
  BY DEF IInv
<1> QED
  BY <1>1, Invariance, PTL
=============================================================================
