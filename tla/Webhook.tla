------------------------------ MODULE Webhook ------------------------------
(***************************************************************************)
(* The connect webhook (internal/webhook): the two limits a call passes, the  *)
(* retry loop, the answer cache, and the control goroutine that flushes it    *)
(* when a user is disconnected.                                             *)
(*                                                                         *)
(* A call is the reader goroutine of one connection.  Both limits are          *)
(* channels used as semaphores, so a slot is taken and given back in steps of  *)
(* its own; the cache has its own mutex, and the flush runs on the control      *)
(* goroutine between any two of those steps.  The application is external: it   *)
(* suspends a user, publishes the disconnect, and from then on authorizes that  *)
(* user's cookie no more.  Time shows as an alarm or an expiry that may come.   *)
(***************************************************************************)
EXTENDS Naturals, FiniteSets

CONSTANTS
  Calls,        \* the connections that ask
  Cookies,      \* what they present; one session is one cookie
  CookieOf,     \* the cookie of each call
  Uncacheable,  \* cookies that give no cache key; all of them with the cache off
  Concurrency,  \* app.webhook_concurrency
  QueueLength,  \* app.connect_queue
  Retries       \* app.webhook_retries

ASSUME WebhookAssumption ==
  /\ IsFiniteSet(Calls)
  /\ CookieOf \in [Calls -> Cookies]
  /\ Uncacheable \subseteq Cookies
  /\ Concurrency \in Nat \ {0}
  /\ QueueLength \in Nat
  /\ Retries \in Nat

VARIABLES
  phase,      \* where each call is
  inflight,   \* len(Client.inflight)
  waiting,    \* len(Client.waiting)
  tries,      \* requests each call has made
  said,       \* what became of the last of them
  result,     \* what the call returns
  fresh,      \* the cookies the cache would answer for
  suspended,  \* the cookies the application authorizes no more
  revoked,    \* those whose disconnect this replica has applied, cache flushed
  racing      \* cookies with an authorization still on its way when it did

pool    == <<inflight, waiting>>
answers == <<tries, said, result>>
control == <<fresh, suspended, revoked, racing>>
webVars == <<phase, inflight, waiting, tries, said, result, fresh, suspended, revoked, racing>>

(* Phases that hold a slot of each limit.  A call that waited holds both while    *)
(* it leaves the queue.                                                     *)
Issuing == {"calling", "asking", "answered", "keeping", "releasing"}
Queued  == {"waiting", "leaving with a slot", "leaving without"}
Phases  == {"idle", "acquiring", "queueing", "returned"} \cup Issuing \cup Queued

Decisions == {"authorized", "refused", "malformed"}
Failures  == {"failed", "lost"}

Init ==
  /\ phase = [c \in Calls |-> "idle"]
  /\ inflight = 0
  /\ waiting = 0
  /\ tries = [c \in Calls |-> 0]
  /\ said = [c \in Calls |-> "nothing"]
  /\ result = [c \in Calls |-> "none"]
  /\ fresh = {}
  /\ suspended = {}
  /\ revoked = {}
  /\ racing = {}

Moves(c, from, to) ==
  /\ phase[c] = from
  /\ phase' = [phase EXCEPT ![c] = to]

(* A call moves on with the result it will return. *)
Settles(c, from, to, res) ==
  /\ Moves(c, from, to)
  /\ result' = [result EXCEPT ![c] = res]

-----------------------------------------------------------------------------
(* The cache, then the two limits.                                         *)

Hit(c) ==
  /\ CookieOf[c] \in fresh
  /\ Settles(c, "idle", "returned", "authorized")
  /\ UNCHANGED <<pool, tries, said, control>>

Miss(c) ==
  /\ CookieOf[c] \notin fresh
  /\ Moves(c, "idle", "acquiring")
  /\ UNCHANGED <<pool, answers, control>>

Acquire(c) ==
  /\ IF inflight < Concurrency
     THEN Moves(c, "acquiring", "calling") /\ inflight' = inflight + 1
     ELSE Moves(c, "acquiring", "queueing") /\ UNCHANGED inflight
  /\ UNCHANGED <<waiting, answers, control>>

Enqueue(c) ==
  /\ waiting < QueueLength
  /\ Moves(c, "queueing", "waiting")
  /\ waiting' = waiting + 1
  /\ UNCHANGED <<inflight, answers, control>>

Overflow(c) ==
  /\ waiting >= QueueLength
  /\ Settles(c, "queueing", "returned", "unavailable")
  /\ UNCHANGED <<pool, tries, said, control>>

TakeSlot(c) ==
  /\ inflight < Concurrency
  /\ Moves(c, "waiting", "leaving with a slot")
  /\ inflight' = inflight + 1
  /\ UNCHANGED <<waiting, answers, control>>

(* app.connect_timeout, or the connection went away. *)
GiveUp(c) ==
  /\ Settles(c, "waiting", "leaving without", "unavailable")
  /\ UNCHANGED <<pool, tries, said, control>>

(* Mutant: only a call that got its slot leaves the queue. *)
LeaveQueueWithSlot(c) ==
  /\ \/ Moves(c, "leaving with a slot", "calling") /\ waiting' = waiting - 1
     \/ Moves(c, "leaving without", "returned") /\ UNCHANGED waiting
  /\ UNCHANGED <<inflight, answers, control>>

LeaveQueue(c) ==
  /\ Moves(c, "leaving with a slot", "calling") \/ Moves(c, "leaving without", "returned")
  /\ waiting' = waiting - 1
  /\ UNCHANGED <<inflight, answers, control>>

-----------------------------------------------------------------------------
(* The retry loop.                                                         *)

Ask(c) ==
  /\ Moves(c, "calling", "asking")
  /\ tries' = [tries EXCEPT ![c] = @ + 1]
  /\ UNCHANGED <<pool, said, result, control>>

(* The connection went away, or app.connect_timeout is spent. *)
Abandon(c) ==
  /\ Settles(c, "calling", "releasing", "unavailable")
  /\ UNCHANGED <<pool, tries, said, control>>

(* The application processes the request: a 2xx, a 401, a 2xx with an unusable    *)
(* body, a 403, any other status.  It may refuse whom it likes.                 *)
Answer(c) ==
  /\ Moves(c, "asking", "answered")
  /\ \E answer \in {"authorized", "refused", "malformed", "rejected", "failed"} :
       /\ answer = "authorized" => CookieOf[c] \notin suspended
       /\ said' = [said EXCEPT ![c] = answer]
  /\ UNCHANGED <<pool, tries, result, control>>

(* Mutant: the last request has no timeout. *)
LoseButLast(c) ==
  /\ Moves(c, "asking", "answered")
  /\ tries[c] <= Retries
  /\ said' = [said EXCEPT ![c] = "lost"]
  /\ UNCHANGED <<pool, tries, result, control>>

(* app.webhook_timeout, a transport error, or a body that stopped half way. *)
Lose(c) ==
  /\ Moves(c, "asking", "answered")
  /\ said' = [said EXCEPT ![c] = "lost"]
  /\ UNCHANGED <<pool, tries, result, control>>

(* Mutant: a 403 is a refusal of the user. *)
RefusesForbidden(c) == said[c] \in {"refused", "malformed", "rejected"}

(* A 401, and an unusable 2xx, which would be as unusable the next time. *)
Refuses(c) == said[c] \in {"refused", "malformed"}

(* A rejected request carries the same signature the next time. *)
WorthRetry(c) == said[c] \in Failures /\ tries[c] <= Retries

Classify(c) ==
  /\ CASE said[c] = "authorized" -> Settles(c, "answered", "keeping", "authorized")
       [] Refuses(c)             -> Settles(c, "answered", "releasing", "refused")
       [] WorthRetry(c)          -> Moves(c, "answered", "calling") /\ UNCHANGED result
       [] OTHER                  -> Settles(c, "answered", "releasing", "unavailable")
  /\ UNCHANGED <<pool, tries, said, control>>

-----------------------------------------------------------------------------
(* An authorization is cached before its slot is given back.               *)

Keep(c) ==
  /\ Moves(c, "keeping", "releasing")
  /\ fresh' = fresh \cup ({CookieOf[c]} \ Uncacheable)
  /\ UNCHANGED <<pool, answers, suspended, revoked, racing>>

Release(c) ==
  /\ Moves(c, "releasing", "returned")
  /\ inflight' = inflight - 1
  /\ UNCHANGED <<waiting, answers, control>>

(* app.cache_ttl has passed. *)
Lapse(k) ==
  /\ k \in fresh
  /\ fresh' = fresh \ {k}
  /\ UNCHANGED <<phase, pool, answers, suspended, revoked, racing>>

-----------------------------------------------------------------------------
(* A user is suspended, and disconnected.                                  *)

Suspend(k) ==
  /\ k \notin suspended
  /\ suspended' = suspended \cup {k}
  /\ UNCHANGED <<phase, pool, answers, fresh, revoked, racing>>

(* An authorization the application gave and that is not in the cache yet. *)
OnItsWay == {CookieOf[c] : c \in {d \in Calls : /\ phase[d] \in {"answered", "keeping"}
                                                /\ said[d] = "authorized"}}

(* Mutant: a flush only sweeps what has expired anyway. *)
FlushExpired(k) ==
  /\ k \in suspended \ revoked
  /\ revoked' = revoked \cup {k}
  /\ racing' = racing \cup OnItsWay
  /\ UNCHANGED fresh
  /\ UNCHANGED <<phase, pool, answers, suspended>>

(* The control goroutine has applied the disconnect and flushes the whole cache. *)
Flush(k) ==
  /\ k \in suspended \ revoked
  /\ revoked' = revoked \cup {k}
  /\ racing' = racing \cup OnItsWay
  /\ fresh' = {}
  /\ UNCHANGED <<phase, pool, answers, suspended>>

-----------------------------------------------------------------------------
Call(c) ==
  \/ Hit(c) \/ Miss(c)
  \/ Acquire(c) \/ Enqueue(c) \/ Overflow(c) \/ TakeSlot(c) \/ GiveUp(c) \/ LeaveQueue(c)
  \/ Ask(c) \/ Abandon(c) \/ Answer(c) \/ Lose(c) \/ Classify(c)
  \/ Keep(c) \/ Release(c)

Next ==
  \/ \E c \in Calls : Call(c)
  \/ \E k \in Cookies : Lapse(k) \/ Suspend(k) \/ Flush(k)

Spec == Init /\ [][Next]_webVars

(* A goroutine runs and its alarms go off.  That the application ever answers is  *)
(* not relied upon, nor that a connection asks.                               *)
Fairness ==
  \A c \in Calls :
    /\ WF_webVars(/\ phase[c] \notin {"idle", "asking"}
                  /\ Call(c))
    /\ WF_webVars(Lose(c))

FairSpec == Spec /\ Fairness

-----------------------------------------------------------------------------
(* Correctness.                                                            *)

TypeOK ==
  /\ phase \in [Calls -> Phases]
  /\ inflight \in Nat
  /\ waiting \in Nat
  /\ tries \in [Calls -> 0..(Retries + 1)]
  /\ said \in [Calls -> {"nothing", "rejected"} \cup Decisions \cup Failures]
  /\ result \in [Calls -> {"none", "authorized", "refused", "unavailable"}]
  /\ fresh \subseteq Cookies
  /\ suspended \subseteq Cookies
  /\ revoked \subseteq suspended
  /\ racing \subseteq Cookies

InFlight == {c \in Calls : phase[c] \in Issuing \cup {"leaving with a slot"}}
InQueue  == {c \in Calls : phase[c] \in Queued}

(* NFR-4: both limits count exactly the calls that hold them, on every path out   *)
(* of a call, and neither is passed; a leaked slot would starve every later one. *)
PoolFollows ==
  /\ inflight = Cardinality(InFlight) /\ inflight <= Concurrency
  /\ waiting = Cardinality(InQueue) /\ waiting <= QueueLength

(* FR-6: a user is refused only if the application itself decided so in answer    *)
(* to this call, after whatever retries; an overflow, a timeout, a 403 or a        *)
(* failure never locks anybody out, and a decision is never lost.               *)
OutcomeFollows ==
  \A c \in Calls : phase[c] = "returned" =>
    /\ result[c] = "refused" <=> said[c] \in {"refused", "malformed"}
    /\ said[c] = "authorized" => result[c] = "authorized"
    /\ result[c] = "authorized" => said[c] = "authorized" \/ tries[c] = 0

(* FR-6: nothing but a failure is tried again, never a refusal or a 403. *)
RefusalIsFinal ==
  [][\A c \in Calls : tries'[c] # tries[c] => said[c] \in {"nothing"} \cup Failures]_webVars

(* After a disconnect's flush the cache answers for that user only if a call       *)
(* already had its authorization when the flush ran.                           *)
StaleOnlyIfRacing == fresh \cap revoked \subseteq racing

(* What a call has left to do, as a number, from where it is and the requests it   *)
(* has made: the way to its first request, three steps for each request it may     *)
(* still make, the way out.                                                  *)
Remaining(where, made) ==
  LET requests == 3 * (Retries + 1 - made)
  IN  CASE where = "idle"                -> requests + 8
        [] where = "acquiring"           -> requests + 7
        [] where = "queueing"            -> requests + 6
        [] where = "waiting"             -> requests + 5
        [] where = "leaving with a slot" -> requests + 4
        [] where = "calling"             -> requests + 3
        [] where = "asking"              -> requests + 5
        [] where = "answered"            -> requests + 4
        [] where = "keeping"             -> 2
        [] where \in {"leaving without", "releasing"} -> 1
        [] where = "returned"            -> 0

(* NFR-4, FR-6: whatever the application answers, every step of a call brings it  *)
(* nearer to its return; no failure, however often it comes, makes it go round.   *)
NearsReturn ==
  [][\A c \in Calls : phase'[c] # phase[c] =>
       Remaining(phase'[c], tries'[c]) < Remaining(phase[c], tries[c])]_webVars

(* NFR-4: a call that has begun returns, though the application never answers    *)
(* and other calls hold every slot.                                           *)
CallsReturn == \A c \in Calls : phase[c] # "idle" ~> phase[c] = "returned"
=============================================================================
