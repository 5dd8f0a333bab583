------------------------------ MODULE Session ------------------------------
(***************************************************************************)
(* What one connection may do: the grants the connect webhook's answer        *)
(* compiles to (internal/glob, webhook.parse) and their lifetime, then the     *)
(* client events it publishes, judged by the grants (conn.doPublish), by the   *)
(* namespace and by the rate limiter (server.registry, server.limiter).       *)
(*                                                                         *)
(* A name is a sequence of characters, because what `*` matches is about       *)
(* characters.  Time is discrete; the limiter's `now - start` is an age that    *)
(* stops counting once past the span it is compared with.  `log` is history the code   *)
(* does not keep: the events of the last ViolationWindow, to judge the judge.   *)
(* Seconds and durations are integers of Width bits, a second is Second units.  *)
(***************************************************************************)
EXTENDS Integers, SequencesExt

CONSTANTS
  Characters,       \* what names and patterns are made of
  Answers,          \* the application's answers: grant patterns and expires_in
  Names,            \* the channel names grants are tried on
  Separator,        \* channels.separator, a character
  Namespaces,       \* namespaces[]: name -> its client_events, count and per
  Blocks,           \* which of them a configuration may have
  Targets,          \* the channels the client publishes on
  MaxViolations, ViolationWindow,
  MinExpiry, MaxExpiry, Second, Width,
  MaxLog            \* bound: events remembered

ASSUME SessionAssumption ==
  /\ {MaxViolations, ViolationWindow, MinExpiry, MaxExpiry, Second, Width} \subseteq Nat \ {0}
  /\ MinExpiry <= MaxExpiry
  /\ MaxViolations >= 2
  /\ Names \subseteq Seq(Characters)
  /\ \A a \in Answers : a.channels \in Seq(Seq(Characters))
  /\ Blocks \subseteq SUBSET DOMAIN Namespaces
  /\ \A n \in DOMAIN Namespaces :
       Namespaces[n].count \in Nat \ {0} /\ Namespaces[n].per \in 1..ViolationWindow

VARIABLES
  blocks,      \* Hub.namespaces
  phase,       \* "connecting", "answered", "open", "refused", "rate limited"
  answer,      \* the application's answer, until Attach
  grants,      \* the compiled Set, until Attach
  lifetime,    \* Authorized.ExpiresIn
  may,         \* of Targets, those the grants allow
  reply,       \* what the last publish was answered
  windows,     \* limiter.windows: absent, or its age and its count
  violations, since,
  log          \* the events of the last ViolationWindow: age, namespace, allowed

connected == <<blocks, phase, answer, grants, lifetime, may>>
limits    == <<windows, violations, since>>
vars      == <<blocks, phase, answer, grants, lifetime, may, reply, windows, violations,
               since, log>>

None   == "none"
Absent == [age |-> 0, count |-> -1]
Spaces == DOMAIN Namespaces

Min2(a, b) == IF a < b THEN a ELSE b

-----------------------------------------------------------------------------
(* Globs. *)

Star     == "*"
Reserved == "_"

(* What strings.Split(p, "*") gives for each beginning of p: a star ends a segment. *)
Cut(segs, ch) ==
  IF ch = Star THEN Append(segs, <<>>) ELSE [segs EXCEPT ![Len(segs)] = Append(@, ch)]

Splits(p) ==
  LET segs[n \in 0..Len(p)] == IF n = 0 THEN <<<<>>>> ELSE Cut(segs[n - 1], p[n])
  IN  segs

(* The segments of q that are not empty, for each beginning of q: `**` says what  *)
(* `*` says.                                                                 *)
Keep(kept, seg) == IF seg = <<>> THEN kept ELSE Append(kept, seg)

Nonempties(q) ==
  LET kept[n \in 0..Len(q)] == IF n = 0 THEN <<>> ELSE Keep(kept[n - 1], q[n])
  IN  kept

Inner(segs)   == SubSeq(segs, 2, Len(segs) - 1)
Middles(segs) == Nonempties(Inner(segs))[Len(Inner(segs))]

Pattern(k, h, t, ps) == [kind |-> k, head |-> h, tail |-> t, parts |-> ps]

(* Compile, for a pattern that does not begin with the reserved character.  One    *)
(* without a star is its only segment.                                        *)
Compile(p) ==
  LET segs    == Splits(p)[Len(p)]
      head    == segs[1]
      tail    == segs[Len(segs)]
      middles == Middles(segs)
  IN  IF Len(segs) = 1 THEN Pattern("literal", head, <<>>, <<>>)
      ELSE CASE head = <<>> /\ tail = <<>> /\ middles = <<>>
                                         -> Pattern("any", <<>>, <<>>, <<>>)
             [] head = <<>> /\ tail = <<>> /\ Len(middles) = 1
                                         -> Pattern("contains", middles[1], <<>>, <<>>)
             [] head = <<>> /\ tail # <<>> /\ middles = <<>>
                                         -> Pattern("suffix", <<>>, tail, <<>>)
             [] head # <<>> /\ tail = <<>> /\ middles = <<>>
                                         -> Pattern("prefix", head, <<>>, <<>>)
             [] OTHER                    -> Pattern("segments", head, tail, middles)

(* Where seg occurs in s: the number of characters before it.                   *)
Occurrences(seg, s) ==
  {i \in 0..(Len(s) - Len(seg)) : SubSeq(s, i + 1, i + Len(seg)) = seg}

Fits(from, seg, s, to) == {i \in Occurrences(seg, s) : from <= i /\ i + Len(seg) <= to}

(* Mutant: each middle segment is taken at its last occurrence. *)
AfterLast(from, seg, s, to) ==
  LET at == Fits(from, seg, s, to)
  IN  IF at = {} THEN Len(s) + 1 ELSE Max(at) + Len(seg)

(* Where to go on after the leftmost occurrence of a middle segment between two    *)
(* places of s: past its end if there is none, where there is none for the next    *)
(* either.                                                                  *)
After(from, seg, s, to) ==
  LET at == Fits(from, seg, s, to)
  IN  IF at = {} THEN Len(s) + 1 ELSE Min(at) + Len(seg)

Nexts(parts, s, from, to) ==
  LET next[k \in 0..Len(parts)] ==
        IF k = 0 THEN from ELSE After(next[k - 1], parts[k], s, to)
  IN  next

(* Head and tail are anchored and may not overlap; the middles are taken in     *)
(* order, each at its leftmost place, with no backtracking.                   *)
MatchSegments(p, s) ==
  LET to == Len(s) - Len(p.tail)
  IN  /\ 0 \in Occurrences(p.head, s)
      /\ Len(p.head) <= to /\ to \in Occurrences(p.tail, s)
      /\ Nexts(p.parts, s, Len(p.head), to)[Len(p.parts)] <= to

Match(p, s) ==
  \/ p.kind = "literal" /\ s = p.head
  \/ p.kind = "any"
  \/ p.kind = "prefix" /\ 0 \in Occurrences(p.head, s)
  \/ p.kind = "suffix" /\ Len(s) - Len(p.tail) \in Occurrences(p.tail, s)
  \/ p.kind = "contains" /\ Occurrences(p.head, s) # {}
  \/ p.kind = "segments" /\ MatchSegments(p, s)

BeginsReserved(s) == Len(s) > 0 /\ s[1] = Reserved

(* NewSet compiles the whole list or nothing.                                *)
Compiles(list) == \A i \in DOMAIN list : ~BeginsReserved(list[i])
NewSet(list)   == {Compile(list[i]) : i \in DOMAIN list}
SetMatch(set, s) == \E p \in set : Match(p, s)

-----------------------------------------------------------------------------
(* The answer. *)

Wrap(x) == ((x + 2^(Width - 1)) % 2^Width) - 2^(Width - 1)

ClampExpiry(seconds) ==
  IF seconds > MaxExpiry \div Second THEN MaxExpiry
  ELSE LET d == Wrap(seconds * Second) IN IF d > MinExpiry THEN d ELSE MinExpiry

Init ==
  /\ blocks \in Blocks
  /\ phase = "connecting"
  /\ answer = None
  /\ grants = {}
  /\ lifetime = 0
  /\ may = {}
  /\ reply = None
  /\ windows = [n \in Spaces |-> Absent]
  /\ violations = 0
  /\ since = 0
  /\ log = <<>>

(* Client.parse: one grant that does not compile refuses the connection.       *)
Answer(a) ==
  /\ phase = "connecting"
  /\ answer' = a
  /\ IF Compiles(a.channels)
     THEN /\ phase' = "answered"
          /\ grants' = NewSet(a.channels)
          /\ lifetime' = ClampExpiry(a.expires)
     ELSE phase' = "refused" /\ UNCHANGED <<grants, lifetime>>
  /\ UNCHANGED <<blocks, may, reply, limits, log>>

(* checkChannel, but for the shape: the prefix is refused before the grants are  *)
(* asked.                                                                   *)
CheckChannel(set, ch) == ~BeginsReserved(ch) /\ SetMatch(set, ch)

Attach ==
  /\ phase = "answered"
  /\ phase' = "open"
  /\ may' = {ch \in Targets : CheckChannel(grants, ch)}
  /\ answer' = None
  /\ grants' = {}
  /\ lifetime' = 0
  /\ UNCHANGED <<blocks, reply, limits, log>>

-----------------------------------------------------------------------------
(* Client events. *)

(* Hub.Namespace: the block named by what precedes the first separator, or by the  *)
(* whole name; without such a block, the reserved one, if there is one.         *)
NameOf(ch) ==
  LET at == {i \in DOMAIN ch : ch[i] = Separator}
  IN  IF at = {} THEN ch ELSE SubSeq(ch, 1, (CHOOSE i \in at : \A j \in at : i <= j) - 1)

Resolve(ch) == IF NameOf(ch) \in blocks THEN NameOf(ch) ELSE <<>>

(* Mutant: a window lasts one instant longer than its span. *)
WindowLate(n) ==
  LET w == windows[n]
  IN  IF w = Absent \/ w.age > Namespaces[n].per
      THEN [age |-> 0, count |-> 1]
      ELSE [w EXCEPT !.count = Min2(@, Namespaces[n].count) + 1]

(* Mutant: a window that is over starts again without being dated. *)
WindowUndated(n) ==
  LET w == windows[n]
  IN  IF w = Absent THEN [age |-> 0, count |-> 1]
      ELSE IF w.age >= Namespaces[n].per THEN [w EXCEPT !.count = 1]
      ELSE [w EXCEPT !.count = Min2(@, Namespaces[n].count) + 1]

(* limiter.allow: the namespace's fixed window, begun anew when its span is over, *)
(* with this event counted.  The count is not needed past the first refusal.    *)
Window(n) ==
  LET w == windows[n]
  IN  IF w = Absent \/ w.age >= Namespaces[n].per
      THEN [age |-> 0, count |-> 1]
      ELSE [w EXCEPT !.count = Min2(@, Namespaces[n].count) + 1]

Within(n) == Window(n).count <= Namespaces[n].count

Event(n, ok) == log' = Append(log, [age |-> 0, ns |-> n, ok |-> ok])

(* The event is within the limit.  The bus may still fail it.                 *)
Allowed(n) ==
  /\ Within(n)
  /\ reply' \in {"published", "internal"}
  /\ Event(n, TRUE)
  /\ UNCHANGED <<phase, violations, since>>

(* Mutant: violations are never forgotten. *)
RefusedForEver(n) ==
  /\ ~Within(n)
  /\ reply' = "limited"
  /\ violations' = violations + 1
  /\ since' = since
  /\ phase' = IF violations' >= MaxViolations THEN "rate limited" ELSE phase
  /\ Event(n, FALSE)

(* It is not; violations are counted over a window of their own.              *)
Refused(n) ==
  /\ ~Within(n)
  /\ reply' = "limited"
  /\ IF violations = 0 \/ since >= ViolationWindow
     THEN since' = 0 /\ violations' = 1
     ELSE since' = since /\ violations' = violations + 1
  /\ phase' = IF violations' >= MaxViolations THEN "rate limited" ELSE phase
  /\ Event(n, FALSE)

(* doPublish and registry.Publish, in their order: grants, namespace, its        *)
(* client_events, the limiter.  What is turned away before the limiter costs     *)
(* the client nothing.                                                      *)
Publish(ch) ==
  /\ phase = "open"
  /\ LET n == Resolve(ch)
     IN  CASE ch \notin may -> reply' = "denied" /\ UNCHANGED <<phase, limits, log>>
           [] n \notin blocks -> reply' = "unknown" /\ UNCHANGED <<phase, limits, log>>
           [] ~Namespaces[n].events -> reply' = "denied" /\ UNCHANGED <<phase, limits, log>>
           [] OTHER -> /\ Len(log) < MaxLog
                       /\ windows' = [windows EXCEPT ![n] = Window(n)]
                       /\ Allowed(n) \/ Refused(n)
  /\ UNCHANGED <<blocks, answer, grants, lifetime, may>>

Aged(w, span) == IF w = Absent THEN w ELSE [w EXCEPT !.age = Min2(@ + 1, span)]

(* An instant passes.  The log is in order, so what is forgotten is its front. *)
Tick ==
  /\ phase = "open"
  /\ windows' = [n \in Spaces |-> Aged(windows[n], Namespaces[n].per + 1)]
  /\ since' = IF violations = 0 THEN 0 ELSE Min2(since + 1, ViolationWindow)
  /\ LET old == Cardinality({i \in DOMAIN log : log[i].age + 1 >= ViolationWindow})
     IN  log' = [i \in 1..(Len(log) - old) |-> [log[i + old] EXCEPT !.age = @ + 1]]
  /\ reply' = None
  /\ UNCHANGED <<connected, violations>>

Next == (\E a \in Answers : Answer(a)) \/ Attach \/ (\E ch \in Targets : Publish(ch)) \/ Tick

Spec == Init /\ [][Next]_vars

-----------------------------------------------------------------------------
(* What a pattern says, by definition: where in the name its first i characters   *)
(* may end.                                                                 *)
Onward(ends, ch, s) ==
  IF ch = Star THEN {j \in 0..Len(s) : \E k \in ends : k <= j}
  ELSE {j \in 1..Len(s) : s[j] = ch /\ j - 1 \in ends}

Ends(p, s) ==
  LET ends[i \in 0..Len(p)] == IF i = 0 THEN {0} ELSE Onward(ends[i - 1], p[i], s)
  IN  ends

Covers(p, s) == Len(s) \in Ends(p, s)[Len(p)]

(* FR-8, FR-9: the compiled set, whichever of its cheap forms each grant took,   *)
(* allows exactly the names one of the patterns covers.                       *)
GrantsAreExact ==
  phase = "answered" =>
    \A s \in Names : SetMatch(grants, s) <=> \E i \in DOMAIN answer.channels : Covers(answer.channels[i], s)

Recent(span, n, ok) == {i \in DOMAIN log : log[i].age < span /\ log[i].ns = n /\ log[i].ok \in ok}

(* A client that keeps to a namespace's rate over every span of its length is    *)
(* never refused: a refusal has more events than the rate in the span it ends.   *)
CompliantServed ==
  \A i \in DOMAIN log : ~log[i].ok /\ log[i].age = 0 /\ i = Len(log) =>
    LET n == log[i].ns
    IN  Cardinality(Recent(Namespaces[n].per, n, BOOLEAN)) > Namespaces[n].count

(* No span of a namespace's length lets more than two windows' worth through.     *)
BurstBounded ==
  \A n \in Spaces : Cardinality(Recent(Namespaces[n].per, n, {TRUE})) <= 2 * Namespaces[n].count

Refusals == Cardinality({i \in DOMAIN log : ~log[i].ok})

(* A connection is ended for its refusals only if MaxViolations of them came       *)
(* within one ViolationWindow.  The converse is weaker than what section 4.4 of     *)
(* the protocol says, as the window is fixed: a connection that stays open had       *)
(* fewer than two windows' worth, less the one that dated the first.              *)
AbuseJudged ==
  /\ phase = "rate limited" => Refusals >= MaxViolations
  /\ phase = "open" => Refusals <= 2 * MaxViolations - 3

(* webhook.go, clampExpiry: it "bounds the application's expires_in to           *)
(* [app.min_expiry, app.max_expiry]".                                       *)
LifetimeClamped == phase = "answered" => lifetime \in MinExpiry..MaxExpiry
=============================================================================
