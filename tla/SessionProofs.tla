--------------------------- MODULE SessionProofs ---------------------------
(***************************************************************************)
(* The rate limiter's promises for every set of namespaces, every rate, every *)
(* span and every window of violations.                                      *)
(*                                                                         *)
(* The code keeps an age and a count for each namespace, the properties speak  *)
(* of the events themselves.  What ties them is where in the log a window      *)
(* began: for each namespace some event is the last one before its window      *)
(* (WindowFits), and one refusal is the one that dated the violations          *)
(* (Judged).  Appending an event and forgetting old ones moves those places;   *)
(* the lemmas on counting say what that does to the numbers.                  *)
(*                                                                         *)
(* After the limiter, the grants: for every answer and every name, whichever of    *)
(* its six forms a pattern compiles to, it matches what the glob it is written as   *)
(* covers.  Both are put in terms of the pattern's segments and the places these     *)
(* can take in the name.                                                     *)
(***************************************************************************)
EXTENDS Session, FiniteSetTheorems, TLAPS

Entry == [age : Nat, ns : Spaces, ok : BOOLEAN]

(* The oldest events come first. *)
Ordered(l) ==
  /\ l \in Seq(Entry)
  /\ \A i, j \in 1..Len(l) : i <= j => l[j].age <= l[i].age

Of(n, l)     == {i \in 1..Len(l) : l[i].ns = n}
Passed(n, l) == {i \in 1..Len(l) : l[i].ns = n /\ l[i].ok}
Refusing(l)  == {i \in 1..Len(l) : ~l[i].ok}

(* Where the window of n began: after s.  Of what went before, nothing is      *)
(* younger than the window and no more than the rate was let through in the     *)
(* span before it; while the window lasts, everything after s is in it.        *)
BeganAfter(s, n, w, l) ==
  /\ \A i \in Of(n, l) : i <= s => w.age <= l[i].age
  /\ w.age < Namespaces[n].per =>
       /\ \A i \in 1..Len(l) : s < i => l[i].age <= w.age
       /\ w.count <= Cardinality({i \in Of(n, l) : s < i})
  /\ Cardinality({i \in Passed(n, l) : s < i}) <= w.count
  /\ Cardinality({i \in Passed(n, l) : s < i}) <= Namespaces[n].count
  /\ Cardinality({i \in Passed(n, l) : i <= s /\ l[i].age < w.age + Namespaces[n].per})
       <= Namespaces[n].count

WindowFits(n, w, l) ==
  IF w = Absent THEN Of(n, l) = {}
  ELSE /\ w.count \in 1..(Namespaces[n].count + 1)
       /\ \E s \in 0..Len(l) : BeganAfter(s, n, w, l)

(* The refusal at s dated the violations. *)
Dated(s, v, g, l) ==
  /\ l[s].age = g
  /\ Cardinality({i \in Refusing(l) : s < i}) <= v - 1
  /\ Cardinality({i \in Refusing(l) : i < s}) <= MaxViolations - 2

(* What v violations of age g say of the refusals. *)
Judged(v, g, l) ==
  /\ v = 0 => Refusing(l) = {}
  /\ v > 0 /\ g < ViolationWindow =>
       /\ v <= Cardinality({i \in Refusing(l) : l[i].age <= g})
       /\ \E s \in Refusing(l) : Dated(s, v, g, l)
  /\ v > 0 /\ ViolationWindow <= g => Cardinality(Refusing(l)) <= v - 1

TypeOK ==
  /\ blocks \subseteq Spaces
  /\ phase \in {"connecting", "answered", "open", "refused", "rate limited"}
  /\ windows \in [Spaces -> [age : Nat, count : Int]]
  /\ violations \in Nat
  /\ since \in Nat

PhaseFollows ==
  /\ phase # "rate limited" => violations < MaxViolations
  /\ phase = "rate limited" => MaxViolations <= violations /\ since < ViolationWindow

IInv ==
  /\ TypeOK
  /\ Ordered(log)
  /\ \A n \in Spaces : WindowFits(n, windows[n], log)
  /\ Judged(violations, since, log)
  /\ PhaseFollows
  /\ CompliantServed

-----------------------------------------------------------------------------
LEMMA Parameters ==
  /\ MaxViolations \in Nat /\ 2 <= MaxViolations
  /\ ViolationWindow \in Nat /\ 1 <= ViolationWindow
  /\ \A n \in Spaces : /\ Namespaces[n].count \in Nat /\ 1 <= Namespaces[n].count
                       /\ Namespaces[n].per \in Nat /\ 1 <= Namespaces[n].per
                       /\ Namespaces[n].per <= ViolationWindow
  /\ \A w : w = Absent => w.count = -1
BY SessionAssumption DEF Spaces, Absent

(* The lesser of two. *)
LEMMA Lesser ==
  ASSUME NEW a \in Int, NEW b \in Int
  PROVE  /\ Min2(a, b) = a \/ Min2(a, b) = b
         /\ Min2(a, b) \in Int /\ Min2(a, b) <= a /\ Min2(a, b) <= b
BY DEF Min2

(* Counting. *)

LEMMA Finite ==
  ASSUME NEW m \in Nat, NEW S \in SUBSET (1..m) PROVE IsFiniteSet(S) /\ Cardinality(S) \in Nat
<1>1. IsFiniteSet(1..m)
  BY FS_Interval
<1>2. IsFiniteSet(S)
  BY <1>1, FS_Subset, Zenon
<1> QED
  BY <1>2, FS_CardinalityType, Zenon

(* A set that fits into another when its members are moved by d is no larger. *)
LEMMA Moved ==
  ASSUME NEW m \in Nat, NEW S \in SUBSET (1..m), NEW T \in SUBSET Nat, NEW d \in Int,
         \A j \in T : j + d \in S
  PROVE  Cardinality(T) \in Nat /\ Cardinality(S) \in Nat /\ Cardinality(T) <= Cardinality(S)
<1> DEFINE f == [j \in T |-> j + d]
<1>1. f \in Injection(T, S)
  BY DEF Injection, IsInjective
<1>2. IsFiniteSet(S)
  BY Finite
<1> QED
  BY <1>1, <1>2, FS_Injection, FS_CardinalityType

LEMMA Fewer ==
  ASSUME NEW m \in Nat, NEW S \in SUBSET (1..m), NEW T \in SUBSET S
  PROVE  Cardinality(T) \in Nat /\ Cardinality(S) \in Nat /\ Cardinality(T) <= Cardinality(S)
<1>1. IsFiniteSet(S)
  BY Finite
<1>2. IsFiniteSet(T)
  BY <1>1, FS_Subset
<1> QED
  BY <1>1, <1>2, FS_Subset, FS_CardinalityType

LEMMA OneMore ==
  ASSUME NEW m \in Nat, NEW S \in SUBSET (1..m)
  PROVE  /\ Cardinality(S \cup {m + 1}) = Cardinality(S) + 1
         /\ Cardinality(S) \in Nat
<1>1. IsFiniteSet(S) /\ Cardinality(S) \in Nat
  BY Finite
<1>2. m + 1 \notin S
  OBVIOUS
<1> QED
  BY <1>1, <1>2, FS_AddElement

LEMMA Together ==
  ASSUME NEW m \in Nat, NEW S \in SUBSET (1..m), NEW T \in SUBSET (1..m), NEW U \in SUBSET (S \cup T)
  PROVE  /\ Cardinality(U) \in Nat /\ Cardinality(S) \in Nat /\ Cardinality(T) \in Nat
         /\ Cardinality(U) <= Cardinality(S) + Cardinality(T)
<1>1. IsFiniteSet(S) /\ IsFiniteSet(T) /\ IsFiniteSet(S \cap T)
  BY Finite
<1>2. Cardinality(S \cup T) = Cardinality(S) + Cardinality(T) - Cardinality(S \cap T)
  BY <1>1, FS_Union
<1>3. /\ Cardinality(S) \in Nat /\ Cardinality(T) \in Nat
      /\ Cardinality(S \cap T) \in Nat /\ Cardinality(S \cup T) \in Nat
  BY Finite
<1>4. Cardinality(U) \in Nat /\ Cardinality(U) <= Cardinality(S \cup T)
  <2>1. S \cup T \in SUBSET (1..m)
    OBVIOUS
  <2> QED
    BY <2>1, Fewer
<1> QED
  BY <1>2, <1>3, <1>4

(* A set of positions that has every position before one of its own is a prefix. *)
LEMMA Prefix ==
  ASSUME NEW m \in Nat, NEW S \in SUBSET (1..m), \A i, j \in 1..m : i <= j /\ j \in S => i \in S
  PROVE  /\ Cardinality(S) \in 0..m
         /\ \A i \in 1..m : i \in S <=> i <= Cardinality(S)
<1>1. Cardinality(S) \in 0..m
  <2>1. Cardinality(1..m) = m
    BY FS_Interval
  <2>2. Cardinality(S) \in Nat /\ Cardinality(S) <= Cardinality(1..m)
    <3>1. 1..m \in SUBSET (1..m)
      OBVIOUS
    <3> QED
      BY <3>1, Fewer
  <2> QED
    BY <2>1, <2>2
<1>2. ASSUME NEW i \in 1..m, i \in S PROVE i <= Cardinality(S)
  <2>1. Cardinality(1..i) = i
    BY FS_Interval
  <2>2. 1..i \in SUBSET S
    BY <1>2
  <2> QED
    BY <2>1, <2>2, Fewer
<1>3. ASSUME NEW i \in 1..m, i \notin S PROVE ~(i <= Cardinality(S))
  <2>1. S \in SUBSET (1..(i - 1)) /\ i - 1 \in Nat
    BY <1>3
  <2>2. Cardinality(1..(i - 1)) = i - 1
    BY <2>1, FS_Interval
  <2>3. 1..(i - 1) \in SUBSET (1..(i - 1))
    OBVIOUS
  <2>4. Cardinality(S) <= Cardinality(1..(i - 1))
    BY <2>1, <2>3, Fewer
  <2> QED
    BY <2>1, <2>2, <2>4, <1>1
<1> QED
  BY <1>1, <1>2, <1>3

-----------------------------------------------------------------------------
(* The log. *)

LEMMA Appended ==
  ASSUME NEW l, Ordered(l), NEW e \in Entry, e.age = 0
  PROVE  LET l2 == Append(l, e)
         IN  /\ Ordered(l2)
             /\ Len(l) \in Nat /\ Len(l2) = Len(l) + 1
             /\ l2[Len(l) + 1] = e
             /\ \A i \in 1..Len(l) : l2[i] = l[i]
             /\ \A i \in 1..Len(l) : l[i] \in Entry
<1>1. /\ Len(l) \in Nat
      /\ \A i \in 1..Len(l) : l[i] \in Entry
      /\ Append(l, e) \in Seq(Entry)
      /\ Len(Append(l, e)) = Len(l) + 1
      /\ \A i \in 1..(Len(l) + 1) : Append(l, e)[i] = IF i = Len(l) + 1 THEN e ELSE l[i]
  BY DEF Ordered
<1>2. Ordered(Append(l, e))
  BY <1>1 DEF Ordered, Entry
<1> QED
  BY <1>1, <1>2

(* l2 is l an instant later, the first k of it forgotten. *)
Forgotten(k, l, l2) ==
  /\ k \in 0..Len(l)
  /\ Len(l2) = Len(l) - k
  /\ \A i \in 1..Len(l2) : l2[i] = [l[i + k] EXCEPT !.age = @ + 1]
  /\ \A i \in 1..Len(l) : i <= k <=> ViolationWindow <= l[i].age + 1

LEMMA TickForgets ==
  ASSUME Ordered(log), Tick PROVE Ordered(log') /\ \E k \in Nat : Forgotten(k, log, log')
<1> DEFINE D == {i \in DOMAIN log : log[i].age + 1 >= ViolationWindow}
           k == Cardinality(D)
<1>1. /\ Len(log) \in Nat /\ DOMAIN log = 1..Len(log) /\ ViolationWindow \in Nat
      /\ \A i \in 1..Len(log) : log[i] \in Entry
  BY SessionAssumption DEF Ordered
<1>2. /\ k \in 0..Len(log)
      /\ \A i \in 1..Len(log) : i \in D <=> i <= k
  <2>1. \A i, j \in 1..Len(log) : i <= j /\ j \in D => i \in D
    BY <1>1 DEF Ordered, Entry
  <2> QED
    BY <1>1, <2>1, Prefix
<1>3. log' = [i \in 1..(Len(log) - k) |-> [log[i + k] EXCEPT !.age = @ + 1]]
  BY DEF Tick
<1> HIDE DEF k, D
<1>4. /\ Len(log) - k \in Nat
      /\ \A i \in 1..(Len(log) - k) : i + k \in 1..Len(log)
      /\ \A i \in 1..(Len(log) - k) : [log[i + k] EXCEPT !.age = @ + 1] \in Entry
  <2>1. \A e \in Entry : [e EXCEPT !.age = @ + 1] \in Entry
    BY DEF Entry
  <2> QED
    BY <1>1, <1>2, <2>1
<1>5. log' \in Seq(Entry) /\ Len(log') = Len(log) - k
  BY <1>3, <1>4
<1>6. Ordered(log')
  <2>1. \A i \in 1..Len(log') : log'[i].age = log[i + k].age + 1 /\ log[i + k].age \in Nat
    BY <1>1, <1>3, <1>4, <1>5 DEF Entry
  <2>2. \A i, j \in 1..Len(log') : i <= j => log[j + k].age <= log[i + k].age
    BY <1>1, <1>2, <1>4, <1>5 DEF Ordered
  <2>3. ASSUME NEW i \in 1..Len(log'), NEW j \in 1..Len(log'), i <= j
        PROVE  log'[j].age <= log'[i].age
    <3>1. log[j + k].age <= log[i + k].age
      BY <2>2, <2>3
    <3>2. /\ log'[i].age = log[i + k].age + 1 /\ log[i + k].age \in Nat
          /\ log'[j].age = log[j + k].age + 1 /\ log[j + k].age \in Nat
      BY <2>1
    <3> QED
      BY <3>1, <3>2
  <2> QED
    BY <1>5, <2>3 DEF Ordered
<1>7. Forgotten(k, log, log')
  BY <1>1, <1>2, <1>3, <1>5 DEF Forgotten, D
<1>8. k \in Nat
  BY <1>1, <1>2
<1> QED
  BY <1>6, <1>7, <1>8

LEMMA AppendedSets ==
  ASSUME NEW l, Ordered(l), NEW e \in Entry, e.age = 0, NEW n \in Spaces
  PROVE  /\ Of(n, Append(l, e)) = IF e.ns = n THEN Of(n, l) \cup {Len(l) + 1} ELSE Of(n, l)
         /\ Passed(n, Append(l, e)) = IF e.ns = n /\ e.ok THEN Passed(n, l) \cup {Len(l) + 1}
                                      ELSE Passed(n, l)
         /\ Refusing(Append(l, e)) = IF e.ok THEN Refusing(l) ELSE Refusing(l) \cup {Len(l) + 1}
         /\ Of(n, l) \in SUBSET (1..Len(l))
         /\ Passed(n, l) \in SUBSET (1..Len(l))
         /\ Refusing(l) \in SUBSET (1..Len(l))
BY Appended DEF Of, Passed, Refusing

(* Every event of l2 is one of l, k places on and an instant younger. *)
Recalls(k, l, l2) ==
  /\ Len(l) \in Nat /\ Len(l2) \in Nat
  /\ \A i \in 1..Len(l) : l[i].age \in Nat
  /\ \A i \in Nat : i \in 1..Len(l2) <=> i > 0 /\ i + k \in 1..Len(l)
  /\ \A i \in 1..Len(l2) : /\ i + k \in 1..Len(l)
                           /\ l2[i].age = l[i + k].age + 1
                           /\ l2[i].ns = l[i + k].ns
                           /\ l2[i].ok = l[i + k].ok

LEMMA ForgottenEvents ==
  ASSUME NEW l, Ordered(l), NEW l2, Ordered(l2), NEW k \in Nat, Forgotten(k, l, l2)
  PROVE  Recalls(k, l, l2)
<1>1. /\ Len(l) \in Nat /\ Len(l2) \in Nat
      /\ \A i \in 1..Len(l) : l[i] \in Entry
      /\ \A i \in 1..Len(l2) : i + k \in 1..Len(l)
  BY DEF Ordered, Forgotten
<1>2. \A i \in 1..Len(l2) : /\ l2[i].age = l[i + k].age + 1
                            /\ l2[i].ns = l[i + k].ns
                            /\ l2[i].ok = l[i + k].ok
  BY <1>1 DEF Forgotten, Entry
<1>3. \A i \in Nat : i \in 1..Len(l2) <=> i > 0 /\ i + k \in 1..Len(l)
  BY <1>1 DEF Forgotten
<1> QED
  BY <1>1, <1>2, <1>3 DEF Entry, Recalls

LEMMA ForgottenSets ==
  ASSUME NEW l, Ordered(l), NEW l2, Ordered(l2), NEW k \in Nat, Forgotten(k, l, l2), NEW n \in Spaces
  PROVE  /\ \A i \in Nat : i \in Of(n, l2) <=> i > 0 /\ i + k \in Of(n, l)
         /\ \A i \in Nat : i \in Passed(n, l2) <=> i > 0 /\ i + k \in Passed(n, l)
         /\ Of(n, l) \in SUBSET (1..Len(l)) /\ Of(n, l2) \in SUBSET (1..Len(l2))
         /\ Passed(n, l) \in SUBSET (1..Len(l)) /\ Passed(n, l2) \in SUBSET (1..Len(l2))
<1> Recalls(k, l, l2)
  BY ForgottenEvents
<1>1. \A i \in Nat : i \in Of(n, l2) <=> i > 0 /\ i + k \in Of(n, l)
  BY DEF Recalls, Of
<1>2. \A i \in Nat : i \in Passed(n, l2) <=> i > 0 /\ i + k \in Passed(n, l)
  BY DEF Recalls, Passed
<1> QED
  BY <1>1, <1>2 DEF Of, Passed

LEMMA ForgottenRefusals ==
  ASSUME NEW l, Ordered(l), NEW l2, Ordered(l2), NEW k \in Nat, Forgotten(k, l, l2)
  PROVE  /\ \A i \in Nat : i \in Refusing(l2) <=> i > 0 /\ i + k \in Refusing(l)
         /\ Refusing(l) \in SUBSET (1..Len(l)) /\ Refusing(l2) \in SUBSET (1..Len(l2))
<1> Recalls(k, l, l2)
  BY ForgottenEvents
<1> QED
  BY DEF Recalls, Refusing

-----------------------------------------------------------------------------
(* The windows. *)

(* An event of another namespace leaves a window as it was. *)
LEMMA OtherSpace ==
  ASSUME NEW n \in Spaces, NEW w \in [age : Nat, count : Int],
         NEW l, Ordered(l), WindowFits(n, w, l),
         NEW e \in Entry, e.age = 0, e.ns # n
  PROVE  WindowFits(n, w, Append(l, e))
<1> DEFINE l2 == Append(l, e)
<1>1. Of(n, l2) = Of(n, l) /\ Passed(n, l2) = Passed(n, l)
  BY AppendedSets
<1>2. /\ Of(n, l) \in SUBSET (1..Len(l)) /\ Passed(n, l) \in SUBSET (1..Len(l))
      /\ Len(l) \in Nat /\ Len(l2) = Len(l) + 1
      /\ \A i \in 1..Len(l) : l2[i] = l[i]
      /\ l2[Len(l) + 1] = e
  BY Appended, AppendedSets
<1>3. CASE w = Absent
  BY <1>1, <1>3 DEF WindowFits
<1>4. CASE w # Absent
  <2>1. PICK s \in 0..Len(l) : BeganAfter(s, n, w, l)
    BY <1>4 DEF WindowFits
  <2>2. {i \in Passed(n, l2) : i <= s /\ l2[i].age < w.age + Namespaces[n].per}
          = {i \in Passed(n, l) : i <= s /\ l[i].age < w.age + Namespaces[n].per}
    BY <1>1, <1>2
  <2>3. \A i \in Of(n, l2) : l2[i] = l[i]
    BY <1>1, <1>2
  <2>4. ASSUME \A i \in 1..Len(l) : s < i => l[i].age <= w.age
        PROVE  \A i \in 1..Len(l2) : s < i => l2[i].age <= w.age
    BY <1>2, <2>4
  <2>5. BeganAfter(s, n, w, l2)
    BY <1>1, <2>1, <2>2, <2>3, <2>4 DEF BeganAfter
  <2>6. s \in 0..Len(l2)
    BY <1>2
  <2> QED
    BY <1>4, <2>5, <2>6 DEF WindowFits
<1> QED
  BY <1>3, <1>4

(* An event in its window is one more of them. *)
LEMMA SameWindow ==
  ASSUME NEW n \in Spaces, NEW w \in [age : Nat, count : Int], w # Absent, w.age < Namespaces[n].per,
         NEW l, Ordered(l), WindowFits(n, w, l),
         NEW e \in Entry, e.age = 0, e.ns = n,
         NEW w2, w2 = [w EXCEPT !.count = Min2(@, Namespaces[n].count) + 1],
         e.ok => w2.count <= Namespaces[n].count
  PROVE  WindowFits(n, w2, Append(l, e))
<1> DEFINE l2 == Append(l, e)
           rate == Namespaces[n].count
           last == Len(l) + 1
<1>1. /\ rate \in Nat \ {0} /\ w.count \in 1..(rate + 1)
      /\ w2.age = w.age /\ w2.age \in Nat /\ Namespaces[n].per \in Nat
      /\ w2.count = Min2(w.count, rate) + 1 /\ w2.count \in 1..(rate + 1) /\ w2.count <= w.count + 1
      /\ w2 # Absent
  <2>1. rate \in Nat \ {0} /\ Namespaces[n].per \in Nat
    BY Parameters
  <2>2. w.count \in 1..(rate + 1)
    BY DEF WindowFits
  <2>3. w2.age = w.age /\ w2.age \in Nat /\ w2.count = Min2(w.count, rate) + 1
    OBVIOUS
  <2> HIDE DEF rate
  <2>4. Min2(w.count, rate) + 1 \in 1..(rate + 1) /\ Min2(w.count, rate) + 1 <= w.count + 1
    BY <2>1, <2>2, Lesser
  <2>5. w2 # Absent
    <3>1. w2.count # -1
      BY <2>1, <2>3, <2>4
    <3> QED
      BY <3>1, Parameters
  <2> QED
    BY <2>1, <2>2, <2>3, <2>4, <2>5
<1>2. /\ Of(n, l) \in SUBSET (1..Len(l)) /\ Passed(n, l) \in SUBSET (1..Len(l))
      /\ Len(l) \in Nat /\ Len(l2) = last
      /\ \A i \in 1..Len(l) : l2[i] = l[i]
      /\ l2[last] = e
      /\ Of(n, l2) = Of(n, l) \cup {last}
      /\ Passed(n, l2) = IF e.ok THEN Passed(n, l) \cup {last} ELSE Passed(n, l)
  <2>1. /\ Len(l) \in Nat /\ Len(l2) = last /\ l2[last] = e
        /\ \A i \in 1..Len(l) : l2[i] = l[i]
    BY Appended
  <2> QED
    BY <2>1, AppendedSets
<1>3. PICK s \in 0..Len(l) : BeganAfter(s, n, w, l)
  BY DEF WindowFits
<1> DEFINE A == {i \in Of(n, l) : s < i}
           P == {i \in Passed(n, l) : s < i}
           B == {i \in Passed(n, l) : i <= s /\ l[i].age < w.age + Namespaces[n].per}
<1>4. /\ \A i \in Of(n, l) : i <= s => w.age <= l[i].age
      /\ \A i \in 1..Len(l) : s < i => l[i].age <= w.age
      /\ w.count <= Cardinality(A)
      /\ Cardinality(P) <= w.count /\ Cardinality(P) <= rate
      /\ Cardinality(B) <= rate
  BY <1>1, <1>3 DEF BeganAfter
<1> DEFINE A2 == {i \in Of(n, l2) : s < i}
           P2 == {i \in Passed(n, l2) : s < i}
           B2 == {i \in Passed(n, l2) : i <= s /\ l2[i].age < w2.age + Namespaces[n].per}
<1>5. /\ A2 = A \cup {last}
      /\ P2 = IF e.ok THEN P \cup {last} ELSE P
      /\ B2 = B
  BY <1>1, <1>2
<1>6. /\ Cardinality(A \cup {last}) = Cardinality(A) + 1 /\ Cardinality(A) \in Nat
      /\ Cardinality(P \cup {last}) = Cardinality(P) + 1 /\ Cardinality(P) \in Nat
  BY <1>2, OneMore
<1> HIDE DEF A, P, B, A2, P2, B2, l2, last, rate
<1>7. w2.count <= Cardinality(A2)
  BY <1>1, <1>4, <1>5, <1>6
<1>8. Cardinality(P2) <= w2.count /\ Cardinality(P2) <= rate
  <2>1. CASE e.ok
    <3>1. w2.count <= rate /\ w2.count = w.count + 1
      BY <2>1, <1>1 DEF Min2, rate
    <3> QED
      BY <2>1, <3>1, <1>1, <1>4, <1>5, <1>6
  <2>2. CASE ~e.ok
    <3>1. w.count <= w2.count \/ w2.count = rate + 1
      BY <1>1 DEF Min2
    <3> QED
      BY <2>2, <3>1, <1>1, <1>4, <1>5, <1>6
  <2> QED
    BY <2>1, <2>2
<1>9. /\ \A i \in Of(n, l2) : i <= s => w2.age <= l2[i].age
      /\ \A i \in 1..Len(l2) : s < i => l2[i].age <= w2.age
  <2>1. \A i \in Of(n, l2) : i <= s => i \in Of(n, l) /\ l2[i] = l[i]
    BY <1>2 DEF last
  <2>2. \A i \in 1..Len(l2) : (i \in 1..Len(l) /\ l2[i] = l[i]) \/ l2[i].age = 0
    BY <1>2 DEF last
  <2>3. \A i \in Of(n, l2) : i <= s => w2.age <= l2[i].age
    BY <2>1, <1>1, <1>4
  <2>4. ASSUME NEW i \in 1..Len(l2), s < i PROVE l2[i].age <= w2.age
    <3>1. CASE l2[i].age = 0
      BY <1>1, <3>1
    <3>2. CASE i \in 1..Len(l) /\ l2[i] = l[i]
      BY <1>1, <1>4, <2>4, <3>2
    <3> QED
      BY <2>2, <3>1, <3>2
  <2> QED
    BY <2>3, <2>4
<1>10. BeganAfter(s, n, w2, l2)
  BY <1>4, <1>5, <1>7, <1>8, <1>9 DEF BeganAfter, rate, A2, P2, B2
<1> QED
  BY <1>1, <1>2, <1>10 DEF WindowFits, l2, last, rate

(* The first event of a window is let through; what it follows is either out of *)
(* its span's reach or of the one window before.                             *)
LEMMA NewWindow ==
  ASSUME NEW n \in Spaces, NEW w \in [age : Nat, count : Int],
         w = Absent \/ Namespaces[n].per <= w.age,
         NEW l, Ordered(l), WindowFits(n, w, l),
         NEW e \in Entry, e.age = 0, e.ns = n
  PROVE  WindowFits(n, [age |-> 0, count |-> 1], Append(l, e))
<1> DEFINE l2 == Append(l, e)
           w2 == [age |-> 0, count |-> 1]
           rate == Namespaces[n].count
           per == Namespaces[n].per
           last == Len(l) + 1
           s2 == Len(l)
           B == {i \in Passed(n, l) : l[i].age < per}
           A == {i \in Of(n, l2) : s2 < i}
           C == {i \in Passed(n, l2) : s2 < i}
<1>1. rate \in Nat \ {0} /\ per \in Nat /\ w2 # Absent
  BY Parameters
<1>2. /\ Of(n, l) \in SUBSET (1..Len(l)) /\ Passed(n, l) \in SUBSET (1..Len(l))
      /\ Passed(n, l) \subseteq Of(n, l)
      /\ Len(l) \in Nat /\ Len(l2) = last
      /\ \A i \in 1..Len(l) : l2[i] = l[i] /\ l[i].age \in Nat
      /\ l2[last] = e
      /\ Of(n, l2) = Of(n, l) \cup {last}
      /\ Passed(n, l2) \subseteq Passed(n, l) \cup {last}
      /\ Passed(n, l) \subseteq Passed(n, l2)
  <2>1. /\ Len(l) \in Nat /\ Len(l2) = last /\ l2[last] = e
        /\ \A i \in 1..Len(l) : l2[i] = l[i] /\ l[i] \in Entry
    BY Appended
  <2>2. \A i \in 1..Len(l) : l[i].age \in Nat
    BY <2>1 DEF Entry
  <2>3. /\ Of(n, l) \in SUBSET (1..Len(l)) /\ Passed(n, l) \in SUBSET (1..Len(l))
        /\ Of(n, l2) = Of(n, l) \cup {last}
        /\ Passed(n, l2) = IF e.ok THEN Passed(n, l) \cup {last} ELSE Passed(n, l)
    BY AppendedSets
  <2>4. Passed(n, l) \subseteq Of(n, l)
    BY DEF Of, Passed
  <2> QED
    BY <2>1, <2>2, <2>3, <2>4
<1>3. Cardinality(B) <= rate
  <2>1. CASE w = Absent
    <3>1. B = {}
      BY <1>2, <2>1 DEF WindowFits
    <3>2. Cardinality({}) = 0
      BY FS_EmptySet
    <3> HIDE DEF B
    <3> QED
      BY <3>1, <3>2, <1>1
  <2>2. CASE w # Absent
    <3>1. PICK s \in 0..Len(l) : BeganAfter(s, n, w, l)
      BY <2>2 DEF WindowFits
    <3> DEFINE P == {i \in Passed(n, l) : s < i}
    <3>2. B \in SUBSET P
      BY <1>1, <1>2, <2>2, <3>1 DEF BeganAfter
    <3>3. P \in SUBSET (1..Len(l)) /\ Cardinality(P) <= rate
      BY <1>2, <3>1 DEF BeganAfter
    <3>4. Cardinality(B) <= Cardinality(P) /\ Cardinality(B) \in Nat /\ Cardinality(P) \in Nat
      BY <1>2, <3>2, <3>3, Fewer
    <3> QED
      BY <1>1, <3>3, <3>4
  <2> QED
    BY <2>1, <2>2
<1>4. {i \in Passed(n, l2) : i <= s2 /\ l2[i].age < w2.age + per} = B
  BY <1>1, <1>2
<1>5. A = {last}
  BY <1>2
<1>6. Cardinality({last}) = 1
  BY FS_Singleton
<1>7. Cardinality(C) <= 1 /\ Cardinality(C) <= rate
  <2>1. C = {} \/ C = {last}
    BY <1>2
  <2>2. Cardinality({}) = 0
    BY FS_EmptySet
  <2>3. 1 <= rate /\ rate \in Nat
    BY <1>1
  <2> HIDE DEF C, rate, last
  <2> QED
    BY <2>1, <2>2, <2>3, <1>6
<1>8. /\ \A i \in Of(n, l2) : i <= s2 => w2.age <= l2[i].age
      /\ \A i \in 1..Len(l2) : s2 < i => l2[i].age <= w2.age
  BY <1>2
<1>9. BeganAfter(s2, n, w2, l2)
  <2> HIDE DEF l2, s2
  <2>1. w2.age = 0 /\ w2.count = 1
    OBVIOUS
  <2>2. w2.count <= Cardinality(A)
    <3> HIDE DEF A
    <3> QED
      BY <2>1, <1>5, <1>6
  <2>3. Cardinality({i \in Passed(n, l2) : i <= s2 /\ l2[i].age < w2.age + per}) <= rate
    BY <1>3, <1>4
  <2> HIDE DEF w2
  <2> QED
    BY <2>1, <2>2, <2>3, <1>7, <1>8 DEF BeganAfter
<1>10. s2 \in 0..Len(l2)
  BY <1>2
<1> QED
  BY <1>1, <1>9, <1>10 DEF WindowFits

(* An instant passes: the window ages with its events, and what is forgotten is  *)
(* older than any window that lasts.                                         *)
LEMMA OlderWindow ==
  ASSUME NEW n \in Spaces, NEW w \in [age : Nat, count : Int],
         NEW l, Ordered(l), WindowFits(n, w, l),
         NEW l2, Ordered(l2), NEW k \in Nat, Forgotten(k, l, l2)
  PROVE  WindowFits(n, Aged(w, Namespaces[n].per + 1), l2)
<1> DEFINE rate == Namespaces[n].count
           per == Namespaces[n].per
           w2 == Aged(w, per + 1)
<1>1. rate \in Nat /\ per \in Nat /\ per <= ViolationWindow /\ ViolationWindow \in Nat
  BY Parameters
<1>2. /\ k \in 0..Len(l) /\ Len(l2) = Len(l) - k
      /\ \A i \in 1..Len(l) : i <= k <=> ViolationWindow <= l[i].age + 1
  BY DEF Forgotten
<1>3. /\ \A i \in 1..Len(l2) : i + k \in 1..Len(l) /\ l2[i].age = l[i + k].age + 1
      /\ \A i \in 1..Len(l) : l[i].age \in Nat
      /\ \A i \in Nat : i \in Of(n, l2) <=> i > 0 /\ i + k \in Of(n, l)
      /\ \A i \in Nat : i \in Passed(n, l2) <=> i > 0 /\ i + k \in Passed(n, l)
      /\ Of(n, l) \in SUBSET (1..Len(l)) /\ Of(n, l2) \in SUBSET (1..Len(l2))
      /\ Passed(n, l) \in SUBSET (1..Len(l)) /\ Passed(n, l2) \in SUBSET (1..Len(l2))
      /\ Len(l) \in Nat /\ Len(l2) \in Nat
  <2>1. Recalls(k, l, l2)
    BY ForgottenEvents
  <2> QED
    BY <2>1, ForgottenSets DEF Recalls
<1>4. CASE w = Absent
  <2>1. Of(n, l2) = {}
    BY <1>3, <1>4 DEF WindowFits
  <2> QED
    BY <2>1, <1>4 DEF WindowFits, Aged
<1>5. CASE w # Absent
  <2>1. PICK s \in 0..Len(l) : BeganAfter(s, n, w, l)
    BY <1>5 DEF WindowFits
  <2>2. /\ w.count \in 1..(rate + 1) /\ w2.count = w.count
        /\ w.age \in Nat /\ w2.age \in Nat /\ w2.age <= w.age + 1
        /\ w2.age < per => w2.age = w.age + 1 /\ w.age < per
        /\ w2 # Absent
    <3>1. w2 = [w EXCEPT !.age = Min2(w.age + 1, per + 1)]
      BY <1>5 DEF Aged
    <3> HIDE DEF w2
    <3>2. w2.count = w.count /\ w2.age = Min2(w.age + 1, per + 1) /\ w.age \in Nat
      BY <3>1
    <3>3. w.count \in 1..(rate + 1)
      BY <1>5 DEF WindowFits
    <3> HIDE DEF rate, per
    <3>4. /\ Min2(w.age + 1, per + 1) \in Nat /\ Min2(w.age + 1, per + 1) <= w.age + 1
          /\ Min2(w.age + 1, per + 1) = w.age + 1 \/ Min2(w.age + 1, per + 1) = per + 1
      <4> DEFINE a == w.age + 1
                 b == per + 1
      <4>1. a \in Nat /\ b \in Nat
        BY <1>1, <3>2
      <4> HIDE DEF a, b
      <4>2. (Min2(a, b) = a \/ Min2(a, b) = b) /\ Min2(a, b) <= a
        BY <4>1 DEF Min2
      <4>3. Min2(a, b) \in Nat
        BY <4>1, <4>2
      <4> QED
        BY <4>2, <4>3 DEF a, b
    <3>5. w2 # Absent
      <4>1. w2.count # -1
        BY <1>1, <3>2, <3>3
      <4> QED
        BY <4>1, Parameters
    <3> QED
      BY <1>1, <3>2, <3>3, <3>4, <3>5
  <2> DEFINE s2 == IF s <= k THEN 0 ELSE s - k
             A  == {i \in Of(n, l) : s < i}
             A2 == {i \in Of(n, l2) : s2 < i}
             P  == {i \in Passed(n, l) : s < i}
             P2 == {i \in Passed(n, l2) : s2 < i}
             B  == {i \in Passed(n, l) : i <= s /\ l[i].age < w.age + per}
             B2 == {i \in Passed(n, l2) : i <= s2 /\ l2[i].age < w2.age + per}
  <2>3. s2 \in 0..Len(l2) /\ \A i \in 1..Len(l2) : i <= s2 <=> i + k <= s
    BY <1>2, <1>3
  <2> HIDE DEF w2, s2, per
  <2>4. /\ \A i \in Of(n, l) : i <= s => w.age <= l[i].age
        /\ w.age < per => (\A i \in 1..Len(l) : s < i => l[i].age <= w.age) /\ w.count <= Cardinality(A)
        /\ Cardinality(P) <= w.count /\ Cardinality(P) <= rate
        /\ Cardinality(B) <= rate
    BY <2>1 DEF BeganAfter, per
  <2>5. A \in SUBSET (1..Len(l)) /\ P \in SUBSET (1..Len(l)) /\ B \in SUBSET (1..Len(l))
    BY <1>3
  <2>6. A2 \in SUBSET (1..Len(l2)) /\ P2 \in SUBSET (1..Len(l2)) /\ B2 \in SUBSET (1..Len(l2))
    BY <1>3
  <2>7. \A i \in Of(n, l2) : i <= s2 => w2.age <= l2[i].age
    <3> SUFFICES ASSUME NEW i \in Of(n, l2), i <= s2 PROVE w2.age <= l2[i].age
      OBVIOUS
    <3>1. i \in 1..Len(l2) /\ i + k \in Of(n, l) /\ i + k <= s /\ i + k \in 1..Len(l)
      BY <1>3, <2>3
    <3>2. l2[i].age = l[i + k].age + 1 /\ l[i + k].age \in Nat /\ w.age <= l[i + k].age
      BY <1>3, <2>4, <3>1
    <3> QED
      BY <2>2, <3>2
  <2>8. ASSUME w2.age < per
        PROVE  (\A i \in 1..Len(l2) : s2 < i => l2[i].age <= w2.age) /\ w2.count <= Cardinality(A2)
    <3>1. \A i \in 1..Len(l2) : s2 < i => l2[i].age <= w2.age
      <4> SUFFICES ASSUME NEW i \in 1..Len(l2), s2 < i PROVE l2[i].age <= w2.age
        OBVIOUS
      <4>1. i + k \in 1..Len(l) /\ s < i + k
        BY <1>2, <1>3, <2>3
      <4>2. w.age < per /\ w2.age = w.age + 1 /\ w.age \in Nat
        BY <2>2, <2>8
      <4>3. l2[i].age = l[i + k].age + 1 /\ l[i + k].age \in Nat /\ l[i + k].age <= w.age
        BY <1>3, <2>4, <4>1, <4>2
      <4> HIDE DEF w2
      <4> QED
        BY <4>2, <4>3
    <3>2. \A i \in A : i - k \in A2
      <4> SUFFICES ASSUME NEW i \in A PROVE i - k \in A2
        OBVIOUS
      <4>1. i \in 1..Len(l) /\ i \in Of(n, l) /\ s < i /\ l[i].age <= w.age
        BY <1>3, <2>2, <2>4, <2>8
      <4>2. k < i
        <5>1. w.age + 1 < per /\ w.age \in Nat
          BY <2>2, <2>8
        <5>2. l[i].age \in Nat /\ (i <= k <=> ViolationWindow <= l[i].age + 1) /\ i \in Nat
          BY <1>2, <1>3, <4>1
        <5>3. ~(ViolationWindow <= l[i].age + 1)
          BY <1>1, <4>1, <5>1, <5>2
        <5> QED
          BY <5>2, <5>3
      <4>3. i - k \in Nat /\ i - k > 0 /\ (i - k) + k = i /\ i - k \in 1..Len(l2)
        BY <1>2, <4>1, <4>2
      <4>4. i - k \in Of(n, l2)
        BY <1>3, <4>1, <4>3
      <4>5. s2 < i - k
        BY <2>3, <4>1, <4>3
      <4> QED
        BY <4>4, <4>5
    <3>3. \A i \in A : i + (0 - k) \in A2
      BY <3>2, <2>5
    <3>4. Cardinality(A) <= Cardinality(A2) /\ Cardinality(A) \in Nat /\ Cardinality(A2) \in Nat
      <4>1. A \in SUBSET Nat /\ 0 - k \in Int
        BY <2>5
      <4> HIDE DEF A, A2
      <4> QED
        BY <1>3, <2>6, <3>3, <4>1, Moved
    <3> HIDE DEF A, A2
    <3> QED
      BY <2>2, <2>4, <2>8, <3>1, <3>4
  <2>9. Cardinality(P2) <= Cardinality(P) /\ Cardinality(P2) \in Nat /\ Cardinality(P) \in Nat
    <3>1. ASSUME NEW i \in P2 PROVE i + k \in P
      <4>1. i \in 1..Len(l2) /\ i \in Passed(n, l2) /\ s2 < i
        BY <2>6
      <4>2. i + k \in Passed(n, l)
        BY <1>3, <4>1
      <4>3. s < i + k
        BY <1>2, <2>3, <4>1
      <4> QED
        BY <4>2, <4>3
    <3>2. P2 \in SUBSET Nat /\ k \in Int
      BY <2>6
    <3> HIDE DEF P, P2
    <3> QED
      BY <1>3, <2>5, <3>1, <3>2, Moved
  <2>10. Cardinality(B2) <= Cardinality(B) /\ Cardinality(B2) \in Nat /\ Cardinality(B) \in Nat
    <3>1. \A i \in B2 : i + k \in B
      <4> SUFFICES ASSUME NEW i \in B2 PROVE i + k \in B
        OBVIOUS
      <4>1. i \in 1..Len(l2) /\ i \in Passed(n, l2) /\ i <= s2 /\ l2[i].age < w2.age + per
        BY <2>6
      <4>2. /\ i + k \in Passed(n, l) /\ i + k <= s
            /\ l2[i].age = l[i + k].age + 1 /\ l[i + k].age \in Nat
        BY <1>3, <2>3, <4>1
      <4>3. l[i + k].age < w.age + per
        <5> DEFINE a == l[i + k].age
        <5>1. a + 1 < w2.age + per /\ a \in Nat
          BY <4>1, <4>2
        <5>2. w2.age <= w.age + 1 /\ w2.age \in Nat /\ w.age \in Nat
          BY <2>2
        <5> HIDE DEF a
        <5>3. a < w.age + per
          BY <1>1, <5>1, <5>2
        <5> QED
          BY <5>3 DEF a
      <4> QED
        BY <4>2, <4>3
    <3>2. B2 \in SUBSET Nat /\ k \in Int
      BY <2>6
    <3> HIDE DEF B, B2
    <3> QED
      BY <1>3, <2>5, <3>1, <3>2, Moved
  <2>11. BeganAfter(s2, n, w2, l2)
    <3>1. Cardinality(P2) <= w2.count /\ Cardinality(P2) <= rate /\ Cardinality(B2) <= rate
      <4> HIDE DEF P, P2, B, B2, rate
      <4>1. rate \in Nat /\ w2.count = w.count /\ w.count \in Int
        BY <1>1, <2>2
      <4> QED
        BY <2>4, <2>9, <2>10, <4>1
    <3> QED
      BY <2>7, <2>8, <3>1 DEF BeganAfter, per
  <2> QED
    BY <2>2, <2>3, <2>11 DEF WindowFits, w2, per
<1> QED
  BY <1>4, <1>5

-----------------------------------------------------------------------------
(* The violations. *)

(* An event that is let through says nothing of the refusals. *)
LEMMA AllowedJudged ==
  ASSUME NEW v \in Nat, NEW g \in Nat, NEW l, Ordered(l), Judged(v, g, l),
         NEW e \in Entry, e.age = 0, e.ok
  PROVE  Judged(v, g, Append(l, e))
<1> DEFINE l2 == Append(l, e)
<1>1. \A i \in 1..Len(l) : l2[i] = l[i]
  BY Appended
<1>2. Refusing(l2) = Refusing(l) /\ Refusing(l) \in SUBSET (1..Len(l))
  <2>1. e.ns \in Spaces
    BY DEF Entry
  <2> QED
    BY <2>1, AppendedSets
<1> DEFINE N  == {i \in Refusing(l) : l[i].age <= g}
           N2 == {i \in Refusing(l2) : l2[i].age <= g}
<1>3. N2 = N
  BY <1>1, <1>2
<1>4. \A s \in Refusing(l) : Dated(s, v, g, l) => Dated(s, v, g, l2)
  BY <1>1, <1>2 DEF Dated
<1> HIDE DEF l2, N2, N
<1>5. ASSUME v > 0, g < ViolationWindow
      PROVE  v <= Cardinality(N2) /\ \E s \in Refusing(l2) : Dated(s, v, g, l2)
  <2>1. v <= Cardinality(N) /\ \E s \in Refusing(l) : Dated(s, v, g, l)
    BY <1>5 DEF Judged, N
  <2> QED
    BY <2>1, <1>2, <1>3, <1>4
<1>6. /\ v = 0 => Refusing(l2) = {}
      /\ v > 0 /\ ViolationWindow <= g => Cardinality(Refusing(l2)) <= v - 1
  BY <1>2 DEF Judged
<1> QED
  BY <1>5, <1>6 DEF Judged, N2, l2

(* The first violation of a window dates it: what was refused before is what is  *)
(* left of the window before, which was not enough to end the connection.       *)
LEMMA FirstRefusalJudged ==
  ASSUME NEW v \in Nat, NEW g \in Nat, v < MaxViolations, v = 0 \/ ViolationWindow <= g,
         NEW l, Ordered(l), Judged(v, g, l),
         NEW e \in Entry, e.age = 0, ~e.ok
  PROVE  Judged(1, 0, Append(l, e))
<1> DEFINE l2 == Append(l, e)
           last == Len(l) + 1
           N == {i \in Refusing(l2) : l2[i].age <= 0}
           Later == {i \in Refusing(l2) : last < i}
           Earlier == {i \in Refusing(l2) : i < last}
<1>1. /\ Len(l) \in Nat /\ l2[last].age = 0
      /\ Refusing(l2) = Refusing(l) \cup {last}
      /\ Refusing(l) \in SUBSET (1..Len(l))
  <2>1. e.ns \in Spaces
    BY DEF Entry
  <2> QED
    BY <2>1, Appended, AppendedSets
<1>2. MaxViolations \in Nat /\ 2 <= MaxViolations /\ ViolationWindow \in Nat /\ 1 <= ViolationWindow
  BY Parameters
<1>3. 1 <= Cardinality(N)
  <2>1. {last} \in SUBSET N /\ N \in SUBSET (1..last) /\ last \in Nat
    BY <1>1
  <2>2. Cardinality({last}) = 1
    BY FS_Singleton
  <2> HIDE DEF N
  <2>3. Cardinality({last}) <= Cardinality(N)
    BY <2>1, Fewer
  <2> QED
    BY <2>2, <2>3
<1>4. Later = {} /\ Earlier = Refusing(l) /\ last \in Refusing(l2)
  BY <1>1
<1>5. Cardinality(Later) <= 0
  <2>1. Cardinality({}) = 0
    BY FS_EmptySet
  <2> HIDE DEF Later
  <2> QED
    BY <1>4, <2>1
<1>6. Cardinality(Earlier) <= MaxViolations - 2
  <2>1. Cardinality(Refusing(l)) <= MaxViolations - 2
    <3>1. CASE v = 0
      <4>1. Refusing(l) = {} /\ Cardinality({}) = 0
        BY <3>1, FS_EmptySet DEF Judged
      <4> QED
        BY <4>1, <1>2
    <3>2. CASE v > 0
      <4>1. Cardinality(Refusing(l)) <= v - 1
        BY <3>2 DEF Judged
      <4>2. Cardinality(Refusing(l)) \in Nat
        BY <1>1, Finite
      <4> QED
        BY <4>1, <4>2, <1>2
    <3> QED
      BY <3>1, <3>2
  <2> HIDE DEF Earlier
  <2> QED
    BY <1>4, <2>1
<1>7. Dated(last, 1, 0, l2)
  BY <1>1, <1>5, <1>6 DEF Dated
<1>8. \E s \in Refusing(l2) : Dated(s, 1, 0, l2)
  BY <1>4, <1>7
<1>9. ~(ViolationWindow <= 0) /\ 1 # 0
  BY <1>2
<1> QED
  BY <1>3, <1>8, <1>9, Zenon DEF Judged

(* A further one is counted. *)
LEMMA NextRefusalJudged ==
  ASSUME NEW v \in Nat, NEW g \in Nat, v > 0, g < ViolationWindow,
         NEW l, Ordered(l), Judged(v, g, l),
         NEW e \in Entry, e.age = 0, ~e.ok
  PROVE  Judged(v + 1, g, Append(l, e))
<1> DEFINE l2 == Append(l, e)
           last == Len(l) + 1
           N  == {i \in Refusing(l) : l[i].age <= g}
           N2 == {i \in Refusing(l2) : l2[i].age <= g}
<1>1. /\ Len(l) \in Nat /\ l2[last].age = 0
      /\ \A i \in 1..Len(l) : l2[i] = l[i]
      /\ Refusing(l2) = Refusing(l) \cup {last}
      /\ Refusing(l) \in SUBSET (1..Len(l))
  <2>1. e.ns \in Spaces
    BY DEF Entry
  <2> QED
    BY <2>1, Appended, AppendedSets
<1>2. PICK s \in Refusing(l) : Dated(s, v, g, l)
  BY DEF Judged
<1> DEFINE A  == {i \in Refusing(l) : s < i}
           A2 == {i \in Refusing(l2) : s < i}
           B  == {i \in Refusing(l) : i < s}
           B2 == {i \in Refusing(l2) : i < s}
<1>3. /\ v <= Cardinality(N)
      /\ l[s].age = g /\ Cardinality(A) <= v - 1 /\ Cardinality(B) <= MaxViolations - 2
  BY <1>2 DEF Judged, Dated
<1>4. N2 = N \cup {last} /\ A2 = A \cup {last} /\ B2 = B
  BY <1>1
<1>5. /\ N \in SUBSET (1..Len(l)) /\ A \in SUBSET (1..Len(l))
      /\ s \in Refusing(l2) /\ l2[s] = l[s]
  BY <1>1
<1> HIDE DEF N, N2, A, A2, B, B2, l2, last
<1>6. /\ Cardinality(N2) = Cardinality(N) + 1 /\ Cardinality(N) \in Nat
      /\ Cardinality(A2) = Cardinality(A) + 1 /\ Cardinality(A) \in Nat
  BY <1>1, <1>4, <1>5, OneMore DEF last
<1>7. v + 1 <= Cardinality(N2) /\ Cardinality(A2) <= (v + 1) - 1 /\ Cardinality(B2) <= MaxViolations - 2
  BY <1>3, <1>4, <1>6
<1>8. Dated(s, v + 1, g, l2)
  BY <1>3, <1>5, <1>7 DEF Dated, A2, B2
<1>9. \E s2 \in Refusing(l2) : Dated(s2, v + 1, g, l2)
  BY <1>5, <1>8
<1>10. v + 1 # 0 /\ ~(ViolationWindow <= g)
  BY Parameters
<1> QED
  BY <1>7, <1>9, <1>10 DEF Judged, N2, l2

(* An instant passes: when the violations are a window old, the one that dated   *)
(* them is forgotten and with it all before it.                              *)
LEMMA OlderJudged ==
  ASSUME NEW v \in Nat, NEW g \in Nat, NEW g2,
         g2 = IF v = 0 THEN 0 ELSE Min2(g + 1, ViolationWindow),
         NEW l, Ordered(l), Judged(v, g, l),
         NEW l2, Ordered(l2), NEW k \in Nat, Forgotten(k, l, l2)
  PROVE  Judged(v, g2, l2)
<1>1. ViolationWindow \in Nat /\ 1 <= ViolationWindow /\ MaxViolations \in Nat
  BY Parameters
<1>2. /\ k \in 0..Len(l) /\ Len(l2) = Len(l) - k
      /\ \A i \in 1..Len(l) : i <= k <=> ViolationWindow <= l[i].age + 1
  BY DEF Forgotten
<1>3. /\ \A i \in 1..Len(l2) : i + k \in 1..Len(l) /\ l2[i].age = l[i + k].age + 1
      /\ \A i \in 1..Len(l) : l[i].age \in Nat
      /\ \A i \in Nat : i \in Refusing(l2) <=> i > 0 /\ i + k \in Refusing(l)
      /\ Refusing(l) \in SUBSET (1..Len(l)) /\ Refusing(l2) \in SUBSET (1..Len(l2))
      /\ Len(l) \in Nat /\ Len(l2) \in Nat
  <2>1. Recalls(k, l, l2)
    BY ForgottenEvents
  <2> QED
    BY <2>1, ForgottenRefusals DEF Recalls
<1>4. CASE v = 0
  BY <1>1, <1>3, <1>4 DEF Judged
<1>5. CASE v > 0 /\ g2 < ViolationWindow
  <2>1. g2 = g + 1 /\ g < ViolationWindow /\ g2 \in Nat
    BY <1>1, <1>5 DEF Min2
  <2>2. PICK s \in Refusing(l) : Dated(s, v, g, l)
    BY <1>5, <2>1 DEF Judged
  <2> DEFINE N  == {i \in Refusing(l) : l[i].age <= g}
             N2 == {i \in Refusing(l2) : l2[i].age <= g2}
             A  == {i \in Refusing(l) : s < i}
             A2 == {i \in Refusing(l2) : s - k < i}
             B  == {i \in Refusing(l) : i < s}
             B2 == {i \in Refusing(l2) : i < s - k}
  <2>3. /\ v <= Cardinality(N)
        /\ l[s].age = g /\ Cardinality(A) <= v - 1 /\ Cardinality(B) <= MaxViolations - 2
    BY <1>5, <2>1, <2>2 DEF Judged, Dated
  <2>4. /\ N \in SUBSET (1..Len(l)) /\ N2 \in SUBSET (1..Len(l2)) /\ N \in SUBSET Nat
        /\ A \in SUBSET (1..Len(l)) /\ A2 \in SUBSET Nat
        /\ B \in SUBSET (1..Len(l)) /\ B2 \in SUBSET Nat
        /\ k \in Int /\ 0 - k \in Int
    BY <1>3
  <2>5. \A i \in Refusing(l) : l[i].age <= g => /\ i - k \in Nat /\ i - k \in Refusing(l2)
                                               /\ l2[i - k].age = l[i].age + 1
    <3> SUFFICES ASSUME NEW i \in Refusing(l), l[i].age <= g
                 PROVE  /\ i - k \in Nat /\ i - k \in Refusing(l2)
                        /\ l2[i - k].age = l[i].age + 1
      OBVIOUS
    <3>1. i \in 1..Len(l) /\ l[i].age \in Nat
      BY <1>3
    <3>3. ~(ViolationWindow <= l[i].age + 1)
      BY <1>1, <1>5, <2>1, <3>1
    <3>4. ~(i <= k)
      BY <1>2, <3>1, <3>3
    <3>2. i - k \in Nat /\ i - k > 0 /\ (i - k) + k = i /\ i - k \in 1..Len(l2)
      BY <1>2, <3>1, <3>4
    <3> QED
      BY <1>3, <3>2
  <2>6. \A i \in N : i + (0 - k) \in N2
    <3> SUFFICES ASSUME NEW i \in N PROVE i - k \in N2
      BY <2>4
    <3>1. i \in Refusing(l) /\ l[i].age <= g /\ l[i].age \in Nat
      BY <1>3
    <3> QED
      BY <2>1, <2>5, <3>1
  <2>7. \A i \in A2 : i + k \in A
    BY <1>3, <2>4
  <2>8. \A i \in B2 : i + k \in B
    BY <1>3, <2>4
  <2>9. s - k \in Refusing(l2) /\ l2[s - k].age = g2
    BY <2>1, <2>3, <2>5
  <2> HIDE DEF N, N2, A, A2, B, B2
  <2>10. Cardinality(N) <= Cardinality(N2) /\ Cardinality(N) \in Nat /\ Cardinality(N2) \in Nat
    BY <1>3, <2>4, <2>6, Moved
  <2>11. Cardinality(A2) <= Cardinality(A) /\ Cardinality(A) \in Nat /\ Cardinality(A2) \in Nat
    BY <1>3, <2>4, <2>7, Moved
  <2>12. Cardinality(B2) <= Cardinality(B) /\ Cardinality(B) \in Nat /\ Cardinality(B2) \in Nat
    BY <1>3, <2>4, <2>8, Moved
  <2>13. v <= Cardinality(N2) /\ Cardinality(A2) <= v - 1 /\ Cardinality(B2) <= MaxViolations - 2
    BY <1>1, <2>3, <2>10, <2>11, <2>12
  <2>14. Dated(s - k, v, g2, l2)
    BY <2>9, <2>13 DEF Dated, A2, B2
  <2> QED
    BY <1>1, <1>5, <2>1, <2>9, <2>13, <2>14 DEF Judged, N2
<1>6. CASE v > 0 /\ ViolationWindow <= g2
  <2>1. Cardinality(Refusing(l2)) <= v - 1
    <3>1. CASE g < ViolationWindow
      <4>1. ViolationWindow <= g + 1
        BY <1>1, <1>6, <3>1 DEF Min2
      <4>2. PICK s \in Refusing(l) : Dated(s, v, g, l)
        BY <1>6, <3>1 DEF Judged
      <4> DEFINE A == {i \in Refusing(l) : s < i}
      <4>3. l[s].age = g /\ Cardinality(A) <= v - 1 /\ s \in 1..Len(l)
        BY <1>3, <4>2 DEF Dated
      <4>4. s <= k
        BY <1>2, <4>1, <4>3
      <4>5. \A i \in Refusing(l2) : i + k \in A
        BY <1>3, <4>3, <4>4
      <4>6. A \in SUBSET (1..Len(l)) /\ Refusing(l2) \in SUBSET Nat /\ k \in Int
        BY <1>3
      <4> HIDE DEF A
      <4>7. /\ Cardinality(Refusing(l2)) <= Cardinality(A)
            /\ Cardinality(A) \in Nat /\ Cardinality(Refusing(l2)) \in Nat
        BY <1>3, <4>5, <4>6, Moved
      <4> QED
        BY <4>3, <4>7
    <3>2. CASE ViolationWindow <= g
      <4>1. Cardinality(Refusing(l)) <= v - 1
        BY <1>6, <3>2 DEF Judged
      <4>2. \A i \in Refusing(l2) : i + k \in Refusing(l)
        BY <1>3
      <4>3. Refusing(l2) \in SUBSET Nat /\ k \in Int
        BY <1>3
      <4>4. /\ Cardinality(Refusing(l2)) <= Cardinality(Refusing(l))
            /\ Cardinality(Refusing(l)) \in Nat /\ Cardinality(Refusing(l2)) \in Nat
        BY <1>3, <4>2, <4>3, Moved
      <4> QED
        BY <4>1, <4>4
    <3> QED
      BY <1>1, <3>1, <3>2
  <2> QED
    BY <1>1, <1>6, <2>1 DEF Judged, Min2
<1>7. g2 \in Nat
  BY <1>1 DEF Min2
<1> QED
  BY <1>1, <1>4, <1>5, <1>6, <1>7

-----------------------------------------------------------------------------
(* The steps. *)

LEMMA InitInv == Init => IInv
<1> SUFFICES ASSUME Init PROVE IInv
  OBVIOUS
<1>1. TypeOK
  BY SessionAssumption DEF Init, TypeOK, Absent, Spaces
<1>2. Ordered(log) /\ Len(log) = 0
  BY DEF Init, Ordered
<1>3. \A n \in Spaces : WindowFits(n, windows[n], log)
  BY <1>2 DEF Init, WindowFits, Of
<1>4. Judged(violations, since, log)
  BY <1>2 DEF Init, Judged, Refusing
<1>5. PhaseFollows /\ CompliantServed
  BY Parameters DEF Init, PhaseFollows, CompliantServed
<1> QED
  BY <1>1, <1>2, <1>3, <1>4, <1>5 DEF IInv

(* What does not touch the limiter and its log.                              *)
LEMMA Untouched ==
  ASSUME IInv, UNCHANGED <<limits, log>>, TypeOK', PhaseFollows' PROVE IInv'
<1>1. UNCHANGED <<windows, violations, since, log>>
  BY DEF limits
<1>2. CompliantServed'
  BY <1>1 DEF IInv, CompliantServed, Recent
<1> QED
  BY <1>1, <1>2 DEF IInv

LEMMA AnswerKeeps == ASSUME IInv, NEW a, Answer(a) PROVE IInv'
<1>1. TypeOK' /\ PhaseFollows' /\ UNCHANGED <<limits, log>>
  BY DEF Answer, IInv, TypeOK, PhaseFollows, limits
<1> QED
  BY <1>1, Untouched

LEMMA AttachKeeps == ASSUME IInv, Attach PROVE IInv'
<1>1. TypeOK' /\ PhaseFollows' /\ UNCHANGED <<limits, log>>
  BY DEF Attach, IInv, TypeOK, PhaseFollows, limits
<1> QED
  BY <1>1, Untouched

(* The limiter's own step, for an event of namespace n. *)
LEMMA WindowKeeps ==
  ASSUME IInv, NEW n \in Spaces, NEW ok \in BOOLEAN, Event(n, ok), ok <=> Within(n),
         windows' = [windows EXCEPT ![n] = Window(n)]
  PROVE  /\ Ordered(log')
         /\ windows' \in [Spaces -> [age : Nat, count : Int]]
         /\ \A m \in Spaces : WindowFits(m, windows'[m], log')
<1> DEFINE e == [age |-> 0, ns |-> n, ok |-> ok]
           w == windows[n]
           rate == Namespaces[n].count
           per == Namespaces[n].per
<1>1. e \in Entry /\ e.age = 0 /\ e.ns = n /\ e.ok = ok /\ log' = Append(log, e)
  BY DEF Entry, Event
<1>2. /\ Ordered(log) /\ windows \in [Spaces -> [age : Nat, count : Int]]
      /\ \A m \in Spaces : WindowFits(m, windows[m], log)
  BY DEF IInv, TypeOK
<1>3. Ordered(log')
  BY <1>1, <1>2, Appended
<1>4. rate \in Nat /\ 1 <= rate /\ per \in Nat
  BY Parameters
<1>5. w \in [age : Nat, count : Int] /\ WindowFits(n, w, log)
  BY <1>2
<1>6. Window(n) \in [age : Nat, count : Int] /\ WindowFits(n, Window(n), log')
  <2>1. CASE w = Absent \/ per <= w.age
    <3>1. Window(n) = [age |-> 0, count |-> 1]
      BY <2>1, <1>4, <1>5 DEF Window
    <3> HIDE DEF e
    <3>2. WindowFits(n, [age |-> 0, count |-> 1], Append(log, e))
      BY <1>1, <1>2, <1>5, <2>1, NewWindow
    <3> QED
      BY <1>1, <3>1, <3>2
  <2>2. CASE w # Absent /\ w.age < per
    <3>1. Window(n) = [w EXCEPT !.count = Min2(@, rate) + 1]
      BY <2>2, <1>4, <1>5 DEF Window
    <3>2. Window(n) \in [age : Nat, count : Int]
      BY <1>4, <1>5, <3>1 DEF Min2
    <3>3. ok => Window(n).count <= rate
      BY DEF Within
    <3> HIDE DEF e
    <3>4. WindowFits(n, Window(n), Append(log, e))
      BY <1>1, <1>2, <1>5, <2>2, <3>1, <3>3, SameWindow
    <3> QED
      BY <1>1, <3>2, <3>4
  <2> QED
    BY <1>4, <1>5, <2>1, <2>2
<1>7. ASSUME NEW m \in Spaces, m # n PROVE WindowFits(m, windows'[m], log')
  <2>1. windows'[m] = windows[m] /\ windows[m] \in [age : Nat, count : Int]
    BY <1>2, <1>7
  <2> HIDE DEF e
  <2> QED
    BY <1>1, <1>2, <1>7, <2>1, OtherSpace
<1>8. windows' \in [Spaces -> [age : Nat, count : Int]] /\ windows'[n] = Window(n)
  BY <1>2, <1>6
<1> QED
  BY <1>3, <1>6, <1>7, <1>8

(* An event that is let through. *)
LEMMA AllowedKeeps ==
  ASSUME IInv, NEW n \in Spaces, phase = "open", Allowed(n), UNCHANGED blocks,
         windows' = [windows EXCEPT ![n] = Window(n)]
  PROVE  IInv'
<1> DEFINE e == [age |-> 0, ns |-> n, ok |-> TRUE]
<1>1. Event(n, TRUE) /\ Within(n) /\ UNCHANGED <<phase, violations, since, blocks>>
  BY DEF Allowed
<1>2. /\ Ordered(log') /\ \A m \in Spaces : WindowFits(m, windows'[m], log')
      /\ windows' \in [Spaces -> [age : Nat, count : Int]]
  BY <1>1, WindowKeeps
<1>3. log' = Append(log, e) /\ e \in Entry /\ e.age = 0 /\ e.ok /\ Ordered(log)
  BY <1>1 DEF Event, Entry, IInv
<1>4. TypeOK' /\ PhaseFollows'
  BY <1>1, <1>2 DEF IInv, TypeOK, PhaseFollows
<1>5. Judged(violations, since, log) /\ violations \in Nat /\ since \in Nat
  BY DEF IInv, TypeOK
<1>6. Judged(violations', since', log')
  <2> HIDE DEF e
  <2>1. Judged(violations, since, Append(log, e))
    BY <1>3, <1>5, AllowedJudged
  <2> QED
    BY <1>1, <1>3, <2>1
<1>7. CompliantServed'
  <2>1. Len(log') = Len(log) + 1 /\ log'[Len(log) + 1] = e
    BY <1>3, Appended
  <2>2. log'[Len(log')].ok
    BY <2>1
  <2> HIDE DEF e
  <2> QED
    BY <2>2 DEF CompliantServed
<1> QED
  BY <1>2, <1>4, <1>6, <1>7 DEF IInv

(* One that is not: its window has more than the rate in it. *)
LEMMA RefusedKeeps ==
  ASSUME IInv, NEW n \in Spaces, phase = "open", Refused(n), UNCHANGED blocks,
         windows' = [windows EXCEPT ![n] = Window(n)]
  PROVE  IInv'
<1> DEFINE e == [age |-> 0, ns |-> n, ok |-> FALSE]
           w == windows[n]
           rate == Namespaces[n].count
           per == Namespaces[n].per
<1>1. Event(n, FALSE) /\ ~Within(n) /\ UNCHANGED blocks
  BY DEF Refused
<1>2. /\ Ordered(log') /\ \A m \in Spaces : WindowFits(m, windows'[m], log')
      /\ windows' \in [Spaces -> [age : Nat, count : Int]]
  BY <1>1, WindowKeeps
<1>3. log' = Append(log, e) /\ e \in Entry /\ e.age = 0 /\ ~e.ok /\ Ordered(log)
  BY <1>1 DEF Event, Entry, IInv
<1>4. /\ Judged(violations, since, log) /\ violations \in Nat /\ since \in Nat
      /\ violations < MaxViolations
  BY DEF IInv, TypeOK, PhaseFollows
<1>5. /\ Judged(violations', since', log')
      /\ violations' \in Nat /\ since' \in Nat /\ since' < ViolationWindow
  <2>1. CASE violations = 0 \/ ViolationWindow <= since
    <3>1. violations' = 1 /\ since' = 0
      BY <2>1, <1>4, Parameters DEF Refused
    <3> HIDE DEF e
    <3>2. Judged(1, 0, Append(log, e))
      BY <1>3, <1>4, <2>1, FirstRefusalJudged
    <3> QED
      BY <1>3, <3>1, <3>2, Parameters
  <2>2. CASE violations > 0 /\ since < ViolationWindow
    <3>1. violations' = violations + 1 /\ since' = since
      <4>1. ~(violations = 0 \/ since >= ViolationWindow)
        BY <2>2, <1>4, Parameters
      <4> QED
        BY <4>1 DEF Refused
    <3> HIDE DEF e
    <3>2. Judged(violations + 1, since, Append(log, e))
      BY <1>3, <1>4, <2>2, NextRefusalJudged
    <3> QED
      BY <1>3, <1>4, <2>2, <3>1, <3>2
  <2> QED
    BY <1>4, <2>1, <2>2, Parameters
<1>6. phase' = IF violations' >= MaxViolations THEN "rate limited" ELSE phase
  BY DEF Refused
<1>7. TypeOK' /\ PhaseFollows'
  <2>1. /\ phase' \in {"open", "rate limited"}
        /\ phase' = "rate limited" => MaxViolations <= violations'
        /\ phase' # "rate limited" => violations' < MaxViolations
    <3>1. MaxViolations \in Nat /\ violations' \in Nat
      BY <1>5, Parameters
    <3>2. CASE violations' >= MaxViolations
      BY <1>6, <3>1, <3>2
    <3>3. CASE ~(violations' >= MaxViolations)
      <4>1. phase' = "open"
        BY <1>6, <3>3
      <4> QED
        BY <3>1, <3>3, <4>1
    <3> QED
      BY <3>2, <3>3
  <2>2. TypeOK'
    BY <1>1, <1>2, <1>5, <2>1 DEF IInv, TypeOK
  <2> QED
    BY <1>5, <2>1, <2>2 DEF PhaseFollows
<1>8. CompliantServed'
  <2> DEFINE R == {i \in DOMAIN log' : log'[i].age < per /\ log'[i].ns = n /\ log'[i].ok \in BOOLEAN}
  <2>1. /\ Len(log) \in Nat /\ Len(log') = Len(log) + 1 /\ log'[Len(log')] = e
        /\ DOMAIN log' = 1..Len(log') /\ Len(log') \in Nat
        /\ \A i \in 1..Len(log') : log'[i].ok \in BOOLEAN /\ log'[i].age \in Nat
    <3>1. /\ Len(log) \in Nat /\ Len(log') = Len(log) + 1 /\ log'[Len(log) + 1] = e
      BY <1>3, Appended
    <3>2. DOMAIN log' = 1..Len(log') /\ \A i \in 1..Len(log') : log'[i] \in Entry
      BY <1>2 DEF Ordered
    <3> QED
      BY <3>1, <3>2 DEF Entry
  <2>2. rate \in Nat /\ 1 <= rate /\ per \in Nat
    BY Parameters
  <2>3. /\ w # Absent /\ w.age < per /\ Window(n).age = w.age /\ w.age \in Nat
        /\ rate < Window(n).count /\ Window(n).count \in Int
        /\ WindowFits(n, Window(n), log')
    <3>1. w \in [age : Nat, count : Int]
      BY DEF IInv, TypeOK
    <3>2. w # Absent /\ w.age < per
      BY <1>1, <2>2, <3>1 DEF Window, Within
    <3>3. Window(n) = [w EXCEPT !.count = Min2(@, rate) + 1]
      BY <2>2, <3>1, <3>2 DEF Window
    <3>4. windows'[n] = Window(n)
      BY DEF IInv, TypeOK
    <3> QED
      BY <1>1, <1>2, <2>2, <3>1, <3>2, <3>3, <3>4 DEF Within, Min2
  <2>4. Window(n) # Absent
    BY <2>2, <2>3, Parameters
  <2>5. PICK s \in 0..Len(log') : BeganAfter(s, n, Window(n), log')
    BY <2>3, <2>4 DEF WindowFits
  <2> DEFINE A == {i \in Of(n, log') : s < i}
  <2>6. /\ \A i \in 1..Len(log') : s < i => log'[i].age <= w.age
        /\ Window(n).count <= Cardinality(A)
    BY <2>2, <2>3, <2>5 DEF BeganAfter
  <2>7. A \in SUBSET R /\ R \in SUBSET (1..Len(log'))
    <3>1. R \subseteq 1..Len(log')
      BY <2>1
    <3>2. ASSUME NEW i \in A PROVE i \in R
      <4>1. i \in 1..Len(log') /\ log'[i].ns = n /\ log'[i].age <= w.age
        BY <2>1, <2>6 DEF Of
      <4>2. log'[i].age < per /\ log'[i].ok \in BOOLEAN
        BY <2>1, <2>2, <2>3, <4>1
      <4> QED
        BY <2>1, <4>1, <4>2
    <3> QED
      BY <3>1, <3>2
  <2>8. rate < Cardinality(R)
    <3> HIDE DEF A, R
    <3>1. Cardinality(A) <= Cardinality(R) /\ Cardinality(A) \in Nat /\ Cardinality(R) \in Nat
      BY <2>1, <2>7, Fewer
    <3> QED
      BY <2>2, <2>3, <2>6, <3>1
  <2>9. log'[Len(log')].ns = n
    BY <2>1
  <2> HIDE DEF e
  <2> QED
    BY <2>8, <2>9 DEF CompliantServed, Recent
<1> QED
  BY <1>2, <1>5, <1>7, <1>8 DEF IInv

LEMMA PublishKeeps == ASSUME IInv, NEW ch \in Targets, Publish(ch) PROVE IInv'
<1> DEFINE n == Resolve(ch)
<1>1. phase = "open" /\ UNCHANGED blocks
  BY DEF Publish
<1>2. CASE UNCHANGED <<phase, limits, log>>
  <2>1. TypeOK' /\ PhaseFollows'
    BY <1>1, <1>2 DEF IInv, TypeOK, PhaseFollows, limits
  <2> QED
    BY <1>2, <2>1, Untouched
<1>3. CASE /\ n \in blocks
           /\ windows' = [windows EXCEPT ![n] = Window(n)]
           /\ Allowed(n) \/ Refused(n)
  <2>1. n \in Spaces
    BY <1>3 DEF IInv, TypeOK
  <2> QED
    BY <1>1, <1>3, <2>1, AllowedKeeps, RefusedKeeps
<1> QED
  BY <1>2, <1>3 DEF Publish

LEMMA TickKeeps == ASSUME IInv, Tick PROVE IInv'
<1>1. /\ Ordered(log) /\ Judged(violations, since, log)
      /\ violations \in Nat /\ since \in Nat
      /\ windows \in [Spaces -> [age : Nat, count : Int]]
      /\ \A n \in Spaces : WindowFits(n, windows[n], log)
  BY DEF IInv, TypeOK
<1>2. Ordered(log') /\ \E k \in Nat : Forgotten(k, log, log')
  BY <1>1, TickForgets
<1>3. PICK k \in Nat : Forgotten(k, log, log')
  BY <1>2
<1>4. \A n \in Spaces : /\ windows'[n] = Aged(windows[n], Namespaces[n].per + 1)
                        /\ windows'[n] \in [age : Nat, count : Int]
  <2> SUFFICES ASSUME NEW n \in Spaces
               PROVE  /\ windows'[n] = Aged(windows[n], Namespaces[n].per + 1)
                      /\ windows'[n] \in [age : Nat, count : Int]
    OBVIOUS
  <2>1. windows'[n] = Aged(windows[n], Namespaces[n].per + 1)
    BY DEF Tick
  <2>2. windows[n] \in [age : Nat, count : Int] /\ Namespaces[n].per \in Nat
    BY <1>1, Parameters
  <2> QED
    BY <2>1, <2>2 DEF Aged, Min2
<1>5. \A n \in Spaces : WindowFits(n, windows'[n], log')
  <2> SUFFICES ASSUME NEW n \in Spaces PROVE WindowFits(n, windows'[n], log')
    OBVIOUS
  <2>1. windows[n] \in [age : Nat, count : Int] /\ WindowFits(n, windows[n], log)
    BY <1>1
  <2>2. WindowFits(n, Aged(windows[n], Namespaces[n].per + 1), log')
    BY <1>1, <1>2, <1>3, <2>1, OlderWindow
  <2> QED
    BY <1>4, <2>2
<1>6. UNCHANGED <<blocks, phase, violations>> /\ phase = "open"
  BY DEF Tick, connected
<1>7. since' = (IF violations = 0 THEN 0 ELSE Min2(since + 1, ViolationWindow))
  BY DEF Tick
<1>8. Judged(violations', since', log')
  <2>1. Judged(violations, since', log')
    BY <1>1, <1>2, <1>3, <1>7, OlderJudged
  <2> QED
    BY <1>6, <2>1
<1>9. TypeOK' /\ PhaseFollows'
  <2>1. since' \in Nat
    BY <1>1, <1>7, Parameters DEF Min2
  <2>2. windows' \in [Spaces -> [age : Nat, count : Int]]
    BY <1>4 DEF Tick
  <2> QED
    BY <1>6, <2>1, <2>2 DEF IInv, TypeOK, PhaseFollows
<1>10. CompliantServed'
  <2>1. \A i \in 1..Len(log') : log'[i].age # 0
    <3>1. Recalls(k, log, log')
      BY <1>1, <1>2, <1>3, ForgottenEvents
    <3> QED
      BY <3>1 DEF Recalls
  <2>2. DOMAIN log' = 1..Len(log')
    BY <1>2 DEF Ordered
  <2> QED
    BY <2>1, <2>2 DEF CompliantServed
<1> QED
  BY <1>2, <1>5, <1>8, <1>9, <1>10 DEF IInv

(* Every reachable state satisfies IInv. *)
THEOREM Invariance == Spec => []IInv
<1>1. IInv /\ [Next]_vars => IInv'
  <2>1. ASSUME IInv, UNCHANGED vars PROVE IInv'
    <3>1. UNCHANGED <<limits, log>> /\ TypeOK' /\ PhaseFollows'
      BY <2>1 DEF vars, limits, IInv, TypeOK, PhaseFollows
    <3> QED
      BY <2>1, <3>1, Untouched
  <2>2. ASSUME IInv, Next PROVE IInv'
    BY <2>2, AnswerKeeps, AttachKeeps, PublishKeeps, TickKeeps DEF Next
  <2> QED
    BY <2>1, <2>2
<1> QED
  BY <1>1, InitInv, PTL DEF Spec

-----------------------------------------------------------------------------
(* What the invariant says of the code.                                     *)

(* server/registry.go, limiter.allow: a client event is refused only when the   *)
(* span it ends has more events of its namespace than the rate allows, so a      *)
(* client that keeps to the rate is served wherever its window happens to begin. *)
THEOREM CompliantIsServed == Spec => []CompliantServed
<1>1. IInv => CompliantServed
  BY DEF IInv
<1> QED
  BY <1>1, Invariance, PTL

(* The price of a fixed window: a span of its length that lies across two lets   *)
(* at most twice the rate through.                                           *)
THEOREM BurstIsBounded == Spec => []BurstBounded
<1>1. ASSUME IInv PROVE BurstBounded
  <2> SUFFICES ASSUME NEW n \in Spaces
               PROVE  Cardinality(Recent(Namespaces[n].per, n, {TRUE})) <= 2 * Namespaces[n].count
    BY DEF BurstBounded
  <2> DEFINE w == windows[n]
             rate == Namespaces[n].count
             per == Namespaces[n].per
             R == Recent(per, n, {TRUE})
  <2>1. /\ rate \in Nat /\ per \in Nat
        /\ w \in [age : Nat, count : Int] /\ WindowFits(n, w, log)
    BY <1>1, Parameters DEF IInv, TypeOK
  <2>2. /\ Len(log) \in Nat /\ DOMAIN log = 1..Len(log)
        /\ \A i \in 1..Len(log) : log[i].age \in Nat /\ log[i].ok \in BOOLEAN
    <3>1. Len(log) \in Nat /\ DOMAIN log = 1..Len(log) /\ \A i \in 1..Len(log) : log[i] \in Entry
      BY <1>1 DEF IInv, Ordered
    <3> QED
      BY <3>1 DEF Entry
  <2>3. R \subseteq Passed(n, log) /\ Passed(n, log) \subseteq Of(n, log) /\ Passed(n, log) \subseteq 1..Len(log)
    BY <2>2 DEF Recent, Passed, Of
  <2>4. CASE w = Absent
    <3>1. R = {} /\ Cardinality({}) = 0
      BY <2>1, <2>3, <2>4, FS_EmptySet DEF WindowFits
    <3>2. Cardinality(R) <= 2 * rate
      <4> HIDE DEF R, rate
      <4> QED
        BY <2>1, <3>1
    <3> QED
      BY <3>2
  <2>5. CASE w # Absent
    <3>1. PICK s \in 0..Len(log) : BeganAfter(s, n, w, log)
      BY <2>1, <2>5 DEF WindowFits
    <3> DEFINE P == {i \in Passed(n, log) : s < i}
               B == {i \in Passed(n, log) : i <= s /\ log[i].age < w.age + per}
    <3>2. Cardinality(P) <= rate /\ Cardinality(B) <= rate
      BY <3>1 DEF BeganAfter
    <3>3. P \in SUBSET (1..Len(log)) /\ B \in SUBSET (1..Len(log))
      BY <2>3
    <3>4. R \in SUBSET (P \cup B)
      <4> SUFFICES ASSUME NEW i \in R PROVE i \in P \cup B
        OBVIOUS
      <4>1. i \in Passed(n, log) /\ i \in 1..Len(log) /\ log[i].age < per
        BY <2>3 DEF Recent
      <4>2. log[i].age \in Nat /\ w.age \in Nat
        BY <2>1, <2>2, <4>1
      <4>3. log[i].age < w.age + per
        BY <2>1, <4>1, <4>2
      <4> QED
        BY <4>1, <4>3
    <3> HIDE DEF P, B, R
    <3>5. /\ Cardinality(R) <= Cardinality(P) + Cardinality(B)
          /\ Cardinality(R) \in Nat /\ Cardinality(P) \in Nat /\ Cardinality(B) \in Nat
      BY <2>2, <3>3, <3>4, Together
    <3> QED
      BY <2>1, <3>2, <3>5 DEF R
  <2> QED
    BY <2>4, <2>5
<1> QED
  BY <1>1, Invariance, PTL

(* server/registry.go: a connection is ended for its refusals only when         *)
(* MaxViolations of them came within one ViolationWindow, and one that stays     *)
(* open had fewer than two windows' worth.                                   *)
THEOREM AbuseIsJudged == Spec => []AbuseJudged
<1>1. ASSUME IInv PROVE AbuseJudged
  <2> DEFINE v == violations
             g == since
             M == MaxViolations
             Bad == Refusing(log)
  <2>1. /\ Judged(v, g, log) /\ v \in Nat /\ g \in Nat
        /\ M \in Nat /\ 2 <= M /\ ViolationWindow \in Nat
        /\ PhaseFollows
    BY <1>1, Parameters DEF IInv, TypeOK
  <2>2. Len(log) \in Nat /\ Bad \in SUBSET (1..Len(log)) /\ Refusals = Cardinality(Bad)
    <3>1. Len(log) \in Nat /\ DOMAIN log = 1..Len(log)
      BY <1>1 DEF IInv, Ordered
    <3>2. Refusals = Cardinality(Bad)
      BY <3>1, Zenon DEF Refusals, Refusing
    <3> QED
      BY <3>1, <3>2 DEF Refusing
  <2>3. ASSUME phase = "rate limited" PROVE Refusals >= M
    <3> DEFINE N == {i \in Bad : log[i].age <= g}
    <3>1. M <= v /\ v <= Cardinality(N)
      <4>1. M <= v /\ v > 0 /\ g < ViolationWindow
        <5>1. MaxViolations <= violations /\ since < ViolationWindow
          BY <2>1, <2>3, Zenon DEF PhaseFollows
        <5> QED
          BY <2>1, <5>1
      <4> QED
        BY <2>1, <4>1, Zenon DEF Judged
    <3>2. N \in SUBSET Bad
      OBVIOUS
    <3> HIDE DEF N, Bad
    <3>3. Cardinality(N) <= Cardinality(Bad) /\ Cardinality(N) \in Nat /\ Cardinality(Bad) \in Nat
      BY <2>2, <3>2, Fewer
    <3> QED
      BY <2>1, <2>2, <3>1, <3>3
  <2>4. ASSUME phase = "open" PROVE Refusals <= 2 * M - 3
    <3>1. v <= M - 1
      BY <2>1, <2>4 DEF PhaseFollows
    <3>2. CASE v = 0
      <4>1. Bad = {} /\ Cardinality({}) = 0
        BY <2>1, <3>2, FS_EmptySet DEF Judged
      <4> HIDE DEF Bad
      <4> QED
        BY <2>1, <2>2, <4>1
    <3>3. CASE v > 0 /\ g < ViolationWindow
      <4>1. PICK s \in Bad : Dated(s, v, g, log)
        BY <2>1, <3>3 DEF Judged
      <4> DEFINE A == {i \in Bad : s < i}
                 B == {i \in Bad : i < s}
                 S == {s}
      <4>2. Cardinality(A) <= v - 1 /\ Cardinality(B) <= M - 2 /\ Cardinality(S) = 1
        BY <4>1, FS_Singleton DEF Dated
      <4>3. /\ A \in SUBSET (1..Len(log)) /\ B \in SUBSET (1..Len(log)) /\ S \in SUBSET (1..Len(log))
            /\ B \cup S \in SUBSET (1..Len(log)) /\ B \cup S \in SUBSET (B \cup S)
            /\ Bad \in SUBSET (A \cup (B \cup S))
        BY <2>2
      <4> HIDE DEF A, B, S, Bad
      <4>4. /\ Cardinality(B \cup S) <= Cardinality(B) + Cardinality(S)
            /\ Cardinality(B \cup S) \in Nat /\ Cardinality(B) \in Nat /\ Cardinality(S) \in Nat
        BY <2>2, <4>3, Together
      <4>5. /\ Cardinality(Bad) <= Cardinality(A) + Cardinality(B \cup S)
            /\ Cardinality(Bad) \in Nat /\ Cardinality(A) \in Nat
        BY <2>2, <4>3, Together
      <4> QED
        BY <2>1, <2>2, <3>1, <4>2, <4>4, <4>5
    <3>4. CASE v > 0 /\ ViolationWindow <= g
      <4>1. Cardinality(Bad) <= v - 1
        BY <2>1, <3>4 DEF Judged
      <4>2. Cardinality(Bad) \in Nat
        BY <2>2, Finite
      <4> QED
        BY <2>1, <2>2, <3>1, <4>1, <4>2
    <3> QED
      BY <2>1, <3>2, <3>3, <3>4
  <2> QED
    BY <2>3, <2>4 DEF AbuseJudged
<1> QED
  BY <1>1, Invariance, PTL

-----------------------------------------------------------------------------
(* Globs.  Segments and places are computed by recursive functions, so what they  *)
(* give is proved by induction: a set of numbers that holds 0 and the next of       *)
(* each of its members up to m holds all of 0..m, for the least one it missed         *)
(* would have a predecessor.                                                 *)

(* A set of numbers has a least one. *)
LEMMA Least ==
  ASSUME NEW T, T \subseteq Nat, T # {}
  PROVE  \E x \in T : \A y \in T : x <= y
<1> DEFINE R == {ss \in Nat \X Nat : ss[1] < ss[2]}
<1>1. PICK x \in T : \A y \in T : ~ (<<y, x>> \in R)
  <2>1. IsWellFoundedOn(R, Nat)
    BY NatLessThanWellFounded DEF OpToRel
  <2> HIDE DEF R
  <2> QED
    BY <2>1, WFMin
<1>2. \A y \in T : x <= y
  <2> SUFFICES ASSUME NEW y \in T, y < x PROVE FALSE
    OBVIOUS
  <2>1. <<y, x>> \in R
    OBVIOUS
  <2> QED
    BY <1>1, <2>1
<1> QED
  BY <1>2

(* Induction up to m, on a set. *)
LEMMA UpTo ==
  ASSUME NEW m \in Nat, NEW T, 0 \in T, \A n \in 0..(m - 1) : n \in T => n + 1 \in T
  PROVE  0..m \subseteq T
<1> SUFFICES ASSUME NEW k \in 0..m, k \notin T PROVE FALSE
  OBVIOUS
<1>1. PICK x \in (0..m) \ T : \A y \in (0..m) \ T : x <= y
  <2> DEFINE U == (0..m) \ T
  <2>1. U \subseteq Nat /\ U # {}
    OBVIOUS
  <2> HIDE DEF U
  <2>2. \E x \in U : \A y \in U : x <= y
    BY <2>1, Least
  <2> QED
    BY <2>2 DEF U
<1>2. x - 1 \in 0..(m - 1) /\ x - 1 \in T
  BY <1>1
<1> QED
  BY <1>1, <1>2

(* step[n] stays in D; f takes each of the m steps in turn. *)
Closed(m, D, step) == \A n \in 1..m : \A x \in D : step[n][x] \in D

Iterates(f, m, D, base, step) ==
  f \in [0..m -> D] /\ f[0] = base /\ \A n \in 1..m : f[n] = step[n][f[n - 1]]

(* A step that stays in D can be taken m times. *)
LEMMA Recursion ==
  ASSUME NEW m \in Nat, NEW D, NEW base \in D, NEW step, Closed(m, D, step)
  PROVE  \E f : Iterates(f, m, D, base, step)
<1> DEFINE Works(k, f) == f[0] = base /\ \A n \in 1..k : f[n] = step[n][f[n - 1]]
           T == {k \in 0..m : \E f \in [0..k -> D] : Works(k, f)}
<1>1. 0 \in T
  <2> DEFINE f == [i \in 0..0 |-> base]
  <2>1. f \in [0..0 -> D] /\ Works(0, f)
    OBVIOUS
  <2> HIDE DEF f
  <2> QED
    BY <2>1
<1>2. ASSUME NEW k \in 0..(m - 1), k \in T
      PROVE  k + 1 \in T
  <2> PICK f \in [0..k -> D] : Works(k, f)
    BY <1>2
  <2> DEFINE last == step[k + 1][f[k]]
             g == [i \in 0..(k + 1) |-> IF i <= k THEN f[i] ELSE last]
  <2>1. last \in D
    BY DEF Closed
  <2> HIDE DEF last
  <2>2. g \in [0..(k + 1) -> D]
    BY <2>1
  <2>3. g[0] = base
    OBVIOUS
  <2>4. ASSUME NEW n \in 1..(k + 1) PROVE g[n] = step[n][g[n - 1]]
    <3>1. CASE n = k + 1
      BY <3>1 DEF last
    <3>2. CASE n \in 1..k
      BY <3>2
    <3> QED
      BY <3>1, <3>2
  <2> HIDE DEF g
  <2> QED
    BY <2>2, <2>3, <2>4
<1>3. m \in T
  <2>1. \A k \in 0..(m - 1) : k \in T => k + 1 \in T
    BY <1>2
  <2> HIDE DEF T
  <2>2. 0..m \subseteq T
    BY <1>1, <2>1, UpTo
  <2> QED
    BY <2>2
<1> QED
  BY <1>3 DEF Iterates

(* Names and patterns. *)
Strings == Seq(Characters)

(* Sequences with the same members are equal. *)
LEMMA Same ==
  ASSUME NEW A, NEW x \in Seq(A), NEW y \in Seq(A), Len(x) = Len(y), \A k \in 1..Len(x) : x[k] = y[k]
  PROVE  x = y
<1>1. x = [k \in 1..Len(x) |-> x[k]] /\ y = [k \in 1..Len(y) |-> y[k]]
  OBVIOUS
<1> QED
  BY <1>1

(* An occurrence, character by character. *)
LEMMA Occurs ==
  ASSUME NEW x \in Strings, NEW s \in Strings, NEW i \in Int
  PROVE  i \in Occurrences(x, s) <=>
           i \in 0..(Len(s) - Len(x)) /\ \A k \in 1..Len(x) : s[i + k] = x[k]
<1> SUFFICES ASSUME i \in 0..(Len(s) - Len(x))
             PROVE  SubSeq(s, i + 1, i + Len(x)) = x <=> \A k \in 1..Len(x) : s[i + k] = x[k]
  BY DEF Occurrences
<1> DEFINE y == SubSeq(s, i + 1, i + Len(x))
<1>1. y \in Strings /\ Len(y) = Len(x) /\ \A k \in 1..Len(x) : y[k] = s[i + k]
  BY DEF Strings
<1> HIDE DEF y
<1>2. y = x <=> \A k \in 1..Len(x) : y[k] = x[k]
  BY <1>1, Same DEF Strings
<1> QED
  BY <1>1, <1>2 DEF y

(* The empty segment occurs everywhere. *)
LEMMA OccursNothing ==
  ASSUME NEW s \in Strings, NEW i \in Int
  PROVE  i \in Occurrences(<<>>, s) <=> i \in 0..Len(s)
<1>1. <<>> \in Strings /\ Len(<<>>) = 0 /\ Len(s) \in Nat
  BY DEF Strings
<1>2. i \in Occurrences(<<>>, s) <=>
        i \in 0..(Len(s) - Len(<<>>)) /\ \A k \in 1..Len(<<>>) : s[i + k] = <<>>[k]
  BY <1>1, Occurs
<1> QED
  BY <1>1, <1>2

(* A longer segment occurs where the shorter one does and is followed by c. *)
LEMMA OccursMore ==
  ASSUME NEW x \in Strings, NEW c \in Characters, NEW s \in Strings, NEW i \in Int
  PROVE  i \in Occurrences(Append(x, c), s) <=>
           /\ i \in Occurrences(x, s)
           /\ i + Len(x) + 1 <= Len(s)
           /\ s[i + Len(x) + 1] = c
<1> DEFINE y == Append(x, c)
<1>1. y \in Strings /\ Len(y) = Len(x) + 1 /\ y[Len(x) + 1] = c /\ Len(x) \in Nat /\ Len(s) \in Nat
      /\ \A k \in 1..Len(x) : y[k] = x[k]
  BY DEF Strings
<1> HIDE DEF y
<1>2. i \in Occurrences(y, s) <=>
        i \in 0..(Len(s) - Len(y)) /\ \A k \in 1..Len(y) : s[i + k] = y[k]
  BY <1>1, Occurs
<1>3. i \in Occurrences(x, s) <=>
        i \in 0..(Len(s) - Len(x)) /\ \A k \in 1..Len(x) : s[i + k] = x[k]
  BY Occurs
<1>4. (\A k \in 1..Len(y) : s[i + k] = y[k]) <=>
        (\A k \in 1..Len(x) : s[i + k] = x[k]) /\ s[i + Len(x) + 1] = c
  <2>1. \A k : k \in 1..Len(y) <=> k \in 1..Len(x) \/ k = Len(x) + 1
    BY <1>1
  <2>2. i + (Len(x) + 1) = i + Len(x) + 1
    BY <1>1
  <2>3. (\A k \in 1..Len(y) : s[i + k] = y[k]) <=>
          (\A k \in 1..Len(x) : s[i + k] = y[k]) /\ s[i + (Len(x) + 1)] = y[Len(x) + 1]
    BY <2>1
  <2> QED
    BY <1>1, <2>2, <2>3
<1>5. i \in Occurrences(y, s) <=>
        i \in Occurrences(x, s) /\ i + Len(x) + 1 <= Len(s) /\ s[i + Len(x) + 1] = c
  BY <1>1, <1>2, <1>3, <1>4
<1> QED
  BY <1>5 DEF y

(* The segments q have the places f in s: in order, apart, between a and b. *)
Placed(f, q, s, a, b) ==
  \A k \in 1..Len(q) :
    /\ f[k] \in Occurrences(q[k], s)
    /\ a <= f[k]
    /\ f[k] + Len(q[k]) <= b
    /\ \A l \in (k + 1)..Len(q) : f[k] + Len(q[k]) <= f[l]

(* The segments q have places somewhere between a and b. *)
Float(q, s, a, b) == a <= b /\ \E f \in [1..Len(q) -> Nat] : Placed(f, q, s, a, b)

(* No segment needs no room. *)
LEMMA FloatNothing ==
  ASSUME NEW s, NEW a \in Nat, NEW b \in Nat
  PROVE  Float(<<>>, s, a, b) <=> a <= b
<1> DEFINE f == [k \in 1..0 |-> 0]
<1>1. f \in [1..Len(<<>>) -> Nat] /\ Placed(f, <<>>, s, a, b)
  BY DEF Placed
<1> HIDE DEF f
<1> QED
  BY <1>1 DEF Float

(* One segment more: it has a place, and the others theirs before it. *)
LEMMA FloatMore ==
  ASSUME NEW q \in Seq(Strings), NEW x \in Strings, NEW s \in Strings, NEW a \in Nat, NEW b \in Nat
  PROVE  Float(Append(q, x), s, a, b) <=>
           \E i \in Occurrences(x, s) : Float(q, s, a, i) /\ i + Len(x) <= b
<1> DEFINE r == Append(q, x)
           n == Len(q)
<1>1. /\ n \in Nat /\ Len(r) = n + 1 /\ r[n + 1] = x
      /\ \A k \in 1..n : r[k] = q[k] /\ q[k] \in Strings /\ Len(q[k]) \in Nat
      /\ Len(x) \in Nat
  BY DEF Strings
<1>2. \A y \in Strings : Occurrences(y, s) \subseteq Nat
  BY DEF Occurrences, Strings
<1> HIDE DEF r, n
<1>3. ASSUME Float(r, s, a, b)
      PROVE  \E i \in Occurrences(x, s) : Float(q, s, a, i) /\ i + Len(x) <= b
  <2>1. PICK f \in [1..Len(r) -> Nat] : Placed(f, r, s, a, b)
    BY <1>3 DEF Float
  <2> DEFINE g == [k \in 1..n |-> f[k]]
             i == f[n + 1]
  <2>2. /\ i \in Occurrences(x, s) /\ i \in Nat /\ a <= i /\ i + Len(x) <= b
    BY <1>1, <2>1 DEF Placed
  <2>3. \A k \in 1..n : /\ f[k] \in Occurrences(q[k], s)
                        /\ a <= f[k]
                        /\ f[k] + Len(q[k]) <= i
                        /\ \A l \in (k + 1)..n : f[k] + Len(q[k]) <= f[l]
    <3> SUFFICES ASSUME NEW k \in 1..n
                 PROVE  /\ f[k] \in Occurrences(q[k], s)
                        /\ a <= f[k]
                        /\ f[k] + Len(q[k]) <= i
                        /\ \A l \in (k + 1)..n : f[k] + Len(q[k]) <= f[l]
      OBVIOUS
    <3>1. /\ f[k] \in Occurrences(r[k], s)
          /\ a <= f[k]
          /\ \A l \in (k + 1)..(n + 1) : f[k] + Len(r[k]) <= f[l]
      BY <1>1, <2>1 DEF Placed
    <3>2. r[k] = q[k] /\ n + 1 \in (k + 1)..(n + 1) /\ (k + 1)..n \subseteq (k + 1)..(n + 1)
      BY <1>1
    <3> QED
      BY <3>1, <3>2
  <2> HIDE DEF i
  <2>4. g \in [1..n -> Nat] /\ Placed(g, q, s, a, i)
    BY <1>1, <2>1, <2>3 DEF Placed, n
  <2> HIDE DEF g
  <2> QED
    BY <2>2, <2>4 DEF Float, n
<1>4. ASSUME NEW i \in Occurrences(x, s), Float(q, s, a, i), i + Len(x) <= b
      PROVE  Float(r, s, a, b)
  <2>1. PICK f \in [1..n -> Nat] : Placed(f, q, s, a, i)
    BY <1>4 DEF Float, n
  <2> DEFINE g == [k \in 1..(n + 1) |-> IF k <= n THEN f[k] ELSE i]
  <2>2. i \in Nat /\ a <= i /\ a <= b
    BY <1>1, <1>2, <1>4 DEF Float
  <2>3. g \in [1..(n + 1) -> Nat] /\ g[n + 1] = i /\ \A k \in 1..n : g[k] = f[k]
    BY <1>1, <2>2
  <2> HIDE DEF g
  <2>4. ASSUME NEW k \in 1..(n + 1)
        PROVE  /\ g[k] \in Occurrences(r[k], s)
               /\ a <= g[k]
               /\ g[k] + Len(r[k]) <= b
               /\ \A l \in (k + 1)..(n + 1) : g[k] + Len(r[k]) <= g[l]
    <3>1. CASE k = n + 1
      BY <1>1, <1>4, <2>2, <2>3, <3>1
    <3>2. CASE k \in 1..n
      <4>1. /\ f[k] \in Occurrences(q[k], s) /\ f[k] \in Nat
            /\ a <= f[k]
            /\ f[k] + Len(q[k]) <= i
            /\ \A l \in (k + 1)..n : f[k] + Len(q[k]) <= f[l]
        BY <2>1, <3>2 DEF Placed, n
      <4>2. r[k] = q[k] /\ Len(q[k]) \in Nat
        BY <1>1, <3>2
      <4>3. g[k] = f[k] /\ g[n + 1] = i /\ \A l \in (k + 1)..n : g[l] = f[l]
        BY <1>1, <2>3, <3>2
      <4>4. f[k] + Len(q[k]) <= b
        <5>1. i <= b /\ b \in Int
          BY <1>1, <1>4, <2>2
        <5> QED
          BY <2>2, <4>1, <4>2, <5>1
      <4>5. \A l \in (k + 1)..(n + 1) : f[k] + Len(q[k]) <= g[l]
        <5> SUFFICES ASSUME NEW l \in (k + 1)..(n + 1) PROVE f[k] + Len(q[k]) <= g[l]
          OBVIOUS
        <5>1. l = n + 1 \/ l \in (k + 1)..n
          BY <1>1, <3>2
        <5> QED
          BY <4>1, <4>3, <5>1
      <4> QED
        BY <4>1, <4>2, <4>3, <4>4, <4>5
    <3> QED
      BY <1>1, <3>1, <3>2
  <2>5. g \in [1..Len(r) -> Nat] /\ Placed(g, r, s, a, b)
    BY <1>1, <2>3, <2>4 DEF Placed
  <2> QED
    BY <2>2, <2>5 DEF Float
<1> QED
  BY <1>3, <1>4 DEF r

(* More room does no harm. *)
LEMMA FloatWider ==
  ASSUME NEW q \in Seq(Strings), NEW s \in Strings, NEW a \in Nat, NEW b \in Nat, NEW c \in Nat,
         Float(q, s, a, b), b <= c
  PROVE  Float(q, s, a, c)
<1>1. PICK f \in [1..Len(q) -> Nat] : Placed(f, q, s, a, b)
  BY DEF Float
<1>2. \A k \in 1..Len(q) : Len(q[k]) \in Nat
  BY DEF Strings
<1>3. Placed(f, q, s, a, c)
  BY <1>1, <1>2 DEF Placed
<1> QED
  BY <1>1, <1>3 DEF Float

(* An empty segment changes nothing. *)
LEMMA FloatEmpty ==
  ASSUME NEW q \in Seq(Strings), NEW s \in Strings, NEW a \in Nat, NEW b \in 0..Len(s)
  PROVE  Float(Append(q, <<>>), s, a, b) <=> Float(q, s, a, b)
<1>1. <<>> \in Strings /\ Len(s) \in Nat /\ Len(<<>>) = 0
  BY DEF Strings
<1>2. Float(Append(q, <<>>), s, a, b) <=>
        \E i \in Occurrences(<<>>, s) : Float(q, s, a, i) /\ i + Len(<<>>) <= b
  BY <1>1, FloatMore
<1>3. \A i : i \in Occurrences(<<>>, s) => i \in 0..Len(s)
  BY <1>1 DEF Occurrences
<1>4. b \in Occurrences(<<>>, s)
  BY <1>1, OccursNothing
<1>5. ASSUME NEW i \in Occurrences(<<>>, s), Float(q, s, a, i), i <= b PROVE Float(q, s, a, b)
  BY <1>1, <1>3, <1>5, FloatWider
<1> QED
  BY <1>1, <1>2, <1>3, <1>4, <1>5

-----------------------------------------------------------------------------
(* The recursive functions are what their equations say. *)

(* What takes steps that stay in D stays in D. *)
LEMMA Stays ==
  ASSUME NEW m \in Nat, NEW D, NEW base \in D, NEW op, Closed(m, D, op), NEW g,
         g[0] = base, \A n \in 1..m : g[n - 1] \in D => g[n] = op[n][g[n - 1]]
  PROVE  \A n \in 0..m : g[n] \in D
<1> DEFINE T == {n \in 0..m : g[n] \in D}
<1>1. 0 \in T
  OBVIOUS
<1>2. \A n \in 0..(m - 1) : n \in T => n + 1 \in T
  BY DEF Closed
<1> HIDE DEF T
<1>3. 0..m \subseteq T
  BY <1>1, <1>2, UpTo
<1> QED
  BY <1>3 DEF T

(* Min is the least. *)
LEMMA LeastOf ==
  ASSUME NEW T, T \subseteq Nat, T # {}
  PROVE  Min(T) \in T /\ \A y \in T : Min(T) <= y
<1>1. \E x \in T : \A y \in T : x <= y
  BY Least
<1> QED
  BY <1>1 DEF Min

(* A character more leaves at least one segment. *)
LEMMA CutType ==
  ASSUME NEW S \in Seq(Strings), Len(S) \in Nat \ {0}, NEW c \in Characters
  PROVE  Cut(S, c) \in Seq(Strings) /\ Len(Cut(S, c)) \in Nat \ {0}
<1>1. <<>> \in Strings /\ \A x \in Strings : Append(x, c) \in Strings
  BY DEF Strings
<1> HIDE DEF Strings
<1>2. CASE c = Star
  BY <1>1, <1>2 DEF Cut
<1>3. CASE c # Star
  <2>1. Cut(S, c) = [S EXCEPT ![Len(S)] = Append(S[Len(S)], c)]
    BY <1>3 DEF Cut
  <2>2. S[Len(S)] \in Strings
    OBVIOUS
  <2> QED
    BY <1>1, <2>1, <2>2
<1> QED
  BY <1>2, <1>3

(* Where to go on is a number. *)
LEMMA AfterType ==
  ASSUME NEW from \in Nat, NEW x \in Strings, NEW s \in Strings, NEW to \in Nat
  PROVE  After(from, x, s, to) \in Nat
<1>1. Fits(from, x, s, to) \subseteq Nat /\ Len(x) \in Nat /\ Len(s) \in Nat
  BY DEF Fits, Occurrences, Strings
<1> QED
  BY <1>1, LeastOf DEF After

(* The segments of each beginning of a pattern. *)
LEMMA UnfoldSplits ==
  ASSUME NEW p \in Strings
  PROVE  /\ Splits(p)[0] = <<<<>>>>
         /\ \A n \in 1..Len(p) : Splits(p)[n] = Cut(Splits(p)[n - 1], p[n])
         /\ \A n \in 0..Len(p) : Splits(p)[n] \in Seq(Strings) /\ Len(Splits(p)[n]) \in Nat \ {0}
<1> DEFINE D == {S \in Seq(Strings) : Len(S) \in Nat \ {0}}
           base == <<<<>>>>
           op == [n \in 1..Len(p) |-> [x \in D |-> Cut(x, p[n])]]
           F(g) == [n \in 0..Len(p) |-> IF n = 0 THEN base ELSE Cut(g[n - 1], p[n])]
<1>1. Len(p) \in Nat /\ base \in D /\ \A n \in 1..Len(p) : p[n] \in Characters
  BY DEF Strings
<1>2. \A x \in D, y \in Characters : Cut(x, y) \in D
  BY CutType
<1> HIDE DEF D, base
<1>3. Closed(Len(p), D, op)
  BY <1>1, <1>2 DEF Closed
<1>4. \A n \in 1..Len(p) : \A x \in D : op[n][x] = Cut(x, p[n])
  OBVIOUS
<1> HIDE DEF op
<1>5. PICK f : Iterates(f, Len(p), D, base, op)
  BY <1>1, <1>3, Recursion
<1>6. /\ f \in [0..Len(p) -> D] /\ f[0] = base
      /\ \A n \in 1..Len(p) : f[n] = Cut(f[n - 1], p[n])
  BY <1>1, <1>4, <1>5 DEF Iterates
<1>7. f = F(f)
  BY <1>1, <1>6
<1>8. Splits(p) = F(Splits(p))
  BY <1>7, Zenon DEF Splits, base
<1>9. \A g : F(g)[0] = base /\ \A n \in 1..Len(p) : F(g)[n] = Cut(g[n - 1], p[n])
  BY <1>1
<1> HIDE DEF F
<1>10. Splits(p)[0] = base /\ \A n \in 1..Len(p) : Splits(p)[n] = Cut(Splits(p)[n - 1], p[n])
  BY <1>8, <1>9
<1>11. \A n \in 0..Len(p) : Splits(p)[n] \in D
  <2> DEFINE g == Splits(p)
  <2>1. g[0] = base /\ \A n \in 1..Len(p) : g[n - 1] \in D => g[n] = op[n][g[n - 1]]
    BY <1>4, <1>10
  <2> HIDE DEF g
  <2>2. \A n \in 0..Len(p) : g[n] \in D
    BY <1>1, <1>3, <2>1, Stays
  <2> QED
    BY <2>2 DEF g
<1> QED
  BY <1>10, <1>11 DEF D, base

(* Those that are not empty. *)
LEMMA UnfoldNonempties ==
  ASSUME NEW q \in Seq(Strings)
  PROVE  /\ Nonempties(q)[0] = <<>>
         /\ \A n \in 1..Len(q) : Nonempties(q)[n] = Keep(Nonempties(q)[n - 1], q[n])
         /\ \A n \in 0..Len(q) : Nonempties(q)[n] \in Seq(Strings)
<1> DEFINE D == Seq(Strings)
           base == <<>>
           op == [n \in 1..Len(q) |-> [x \in D |-> Keep(x, q[n])]]
           F(g) == [n \in 0..Len(q) |-> IF n = 0 THEN base ELSE Keep(g[n - 1], q[n])]
<1>1. Len(q) \in Nat /\ base \in D /\ \A n \in 1..Len(q) : q[n] \in Strings
  OBVIOUS
<1>2. \A x \in D, y \in Strings : Keep(x, y) \in D
  BY DEF Keep
<1> HIDE DEF D, base
<1>3. Closed(Len(q), D, op)
  BY <1>1, <1>2 DEF Closed
<1>4. \A n \in 1..Len(q) : \A x \in D : op[n][x] = Keep(x, q[n])
  OBVIOUS
<1> HIDE DEF op
<1>5. PICK f : Iterates(f, Len(q), D, base, op)
  BY <1>1, <1>3, Recursion
<1>6. /\ f \in [0..Len(q) -> D] /\ f[0] = base
      /\ \A n \in 1..Len(q) : f[n] = Keep(f[n - 1], q[n])
  <2>1. f \in [0..Len(q) -> D] /\ f[0] = base /\ \A n \in 1..Len(q) : f[n] = op[n][f[n - 1]]
    BY <1>5 DEF Iterates
  <2>2. ASSUME NEW n \in 1..Len(q) PROVE f[n] = Keep(f[n - 1], q[n])
    <3>1. f[n - 1] \in D
      BY <1>1, <2>1
    <3> QED
      BY <1>4, <2>1, <3>1
  <2> QED
    BY <2>1, <2>2
<1>7. f = F(f)
  BY <1>1, <1>6
<1>8. Nonempties(q) = F(Nonempties(q))
  BY <1>7, Zenon DEF Nonempties, base
<1>9. \A g : F(g)[0] = base /\ \A n \in 1..Len(q) : F(g)[n] = Keep(g[n - 1], q[n])
  BY <1>1
<1> HIDE DEF F
<1>10. Nonempties(q)[0] = base /\ \A n \in 1..Len(q) : Nonempties(q)[n] = Keep(Nonempties(q)[n - 1], q[n])
  BY <1>8, <1>9
<1>11. \A n \in 0..Len(q) : Nonempties(q)[n] \in D
  <2> DEFINE g == Nonempties(q)
  <2>1. g[0] = base /\ \A n \in 1..Len(q) : g[n - 1] \in D => g[n] = op[n][g[n - 1]]
    BY <1>4, <1>10
  <2> HIDE DEF g
  <2>2. \A n \in 0..Len(q) : g[n] \in D
    BY <1>1, <1>3, <2>1, Stays
  <2> QED
    BY <2>2 DEF g
<1> QED
  BY <1>10, <1>11 DEF D, base

(* Where the first characters of a pattern may end in s. *)
LEMMA UnfoldEnds ==
  ASSUME NEW p \in Strings, NEW s \in Strings
  PROVE  /\ Ends(p, s)[0] = {0}
         /\ \A n \in 1..Len(p) : Ends(p, s)[n] = Onward(Ends(p, s)[n - 1], p[n], s)
         /\ \A n \in 0..Len(p) : Ends(p, s)[n] \subseteq 0..Len(s)
<1> DEFINE D == SUBSET (0..Len(s))
           base == {0}
           op == [n \in 1..Len(p) |-> [x \in D |-> Onward(x, p[n], s)]]
           F(g) == [n \in 0..Len(p) |-> IF n = 0 THEN base ELSE Onward(g[n - 1], p[n], s)]
<1>1. Len(p) \in Nat /\ base \in D /\ \A n \in 1..Len(p) : p[n] \in Characters
  BY DEF Strings
<1>2. \A x \in D, y \in Characters : Onward(x, y, s) \in D
  BY DEF Onward, Strings
<1> HIDE DEF D, base
<1>3. Closed(Len(p), D, op)
  BY <1>1, <1>2 DEF Closed
<1>4. \A n \in 1..Len(p) : \A x \in D : op[n][x] = Onward(x, p[n], s)
  OBVIOUS
<1> HIDE DEF op
<1>5. PICK f : Iterates(f, Len(p), D, base, op)
  BY <1>1, <1>3, Recursion
<1>6. /\ f \in [0..Len(p) -> D] /\ f[0] = base
      /\ \A n \in 1..Len(p) : f[n] = Onward(f[n - 1], p[n], s)
  BY <1>1, <1>4, <1>5 DEF Iterates
<1>7. f = F(f)
  BY <1>1, <1>6
<1>8. Ends(p, s) = F(Ends(p, s))
  BY <1>7, Zenon DEF Ends, base
<1>9. \A g : F(g)[0] = base /\ \A n \in 1..Len(p) : F(g)[n] = Onward(g[n - 1], p[n], s)
  BY <1>1
<1> HIDE DEF F
<1>10. Ends(p, s)[0] = base /\ \A n \in 1..Len(p) : Ends(p, s)[n] = Onward(Ends(p, s)[n - 1], p[n], s)
  BY <1>8, <1>9
<1>11. \A n \in 0..Len(p) : Ends(p, s)[n] \in D
  <2> DEFINE g == Ends(p, s)
  <2>1. g[0] = base /\ \A n \in 1..Len(p) : g[n - 1] \in D => g[n] = op[n][g[n - 1]]
    BY <1>4, <1>10
  <2> HIDE DEF g
  <2>2. \A n \in 0..Len(p) : g[n] \in D
    BY <1>1, <1>3, <2>1, Stays
  <2> QED
    BY <2>2 DEF g
<1> QED
  BY <1>10, <1>11 DEF D, base

(* Where to go on after each of the segments. *)
LEMMA UnfoldNexts ==
  ASSUME NEW q \in Seq(Strings), NEW s \in Strings, NEW a \in Nat, NEW b \in Nat
  PROVE  /\ Nexts(q, s, a, b)[0] = a
         /\ \A n \in 1..Len(q) : Nexts(q, s, a, b)[n] = After(Nexts(q, s, a, b)[n - 1], q[n], s, b)
         /\ \A n \in 0..Len(q) : Nexts(q, s, a, b)[n] \in Nat
<1> DEFINE D == Nat
           base == a
           op == [n \in 1..Len(q) |-> [x \in D |-> After(x, q[n], s, b)]]
           F(g) == [n \in 0..Len(q) |-> IF n = 0 THEN base ELSE After(g[n - 1], q[n], s, b)]
<1>1. Len(q) \in Nat /\ base \in D /\ \A n \in 1..Len(q) : q[n] \in Strings
  OBVIOUS
<1>2. \A x \in D, y \in Strings : After(x, y, s, b) \in D
  BY AfterType
<1> HIDE DEF D, base
<1>3. Closed(Len(q), D, op)
  BY <1>1, <1>2 DEF Closed
<1>4. \A n \in 1..Len(q) : \A x \in D : op[n][x] = After(x, q[n], s, b)
  OBVIOUS
<1> HIDE DEF op
<1>5. PICK f : Iterates(f, Len(q), D, base, op)
  BY <1>1, <1>3, Recursion
<1>6. /\ f \in [0..Len(q) -> D] /\ f[0] = base
      /\ \A n \in 1..Len(q) : f[n] = After(f[n - 1], q[n], s, b)
  BY <1>1, <1>4, <1>5 DEF Iterates
<1>7. f = F(f)
  BY <1>1, <1>6
<1>8. Nexts(q, s, a, b) = F(Nexts(q, s, a, b))
  BY <1>7, Zenon DEF Nexts, base
<1>9. \A g : F(g)[0] = base /\ \A n \in 1..Len(q) : F(g)[n] = After(g[n - 1], q[n], s, b)
  BY <1>1
<1> HIDE DEF F
<1>10. Nexts(q, s, a, b)[0] = base /\ \A n \in 1..Len(q) : Nexts(q, s, a, b)[n] = After(Nexts(q, s, a, b)[n - 1], q[n], s, b)
  BY <1>8, <1>9
<1>11. \A n \in 0..Len(q) : Nexts(q, s, a, b)[n] \in D
  <2> DEFINE g == Nexts(q, s, a, b)
  <2>1. g[0] = base /\ \A n \in 1..Len(q) : g[n - 1] \in D => g[n] = op[n][g[n - 1]]
    BY <1>4, <1>10
  <2> HIDE DEF g
  <2>2. \A n \in 0..Len(q) : g[n] \in D
    BY <1>1, <1>3, <2>1, Stays
  <2> QED
    BY <2>2 DEF g
<1> QED
  BY <1>10, <1>11 DEF D, base

-----------------------------------------------------------------------------
(* What the pattern says, in terms of its segments. *)

(* What a new segment, or a longer last one, does to those between head and tail. *)
LEMMA InnerOf ==
  ASSUME NEW S \in Seq(Strings), NEW x \in Strings, Len(S) \in Nat \ {0}
  PROVE  /\ Inner(S) \in Seq(Strings)
         /\ Len(S) = 1 => Inner(Append(S, x)) = <<>>
         /\ Len(S) > 1 => /\ Inner(Append(S, x)) = Append(Inner(S), S[Len(S)])
                          /\ Inner([S EXCEPT ![Len(S)] = x]) = Inner(S)
<1> DEFINE S1 == Append(S, x)
           S2 == [S EXCEPT ![Len(S)] = x]
           n  == Len(S)
<1>1. /\ S1 \in Seq(Strings) /\ Len(S1) = n + 1 /\ \A k \in 1..n : S1[k] = S[k]
      /\ S2 \in Seq(Strings) /\ Len(S2) = n /\ \A k \in 1..(n - 1) : S2[k] = S[k]
      /\ n \in Nat /\ n >= 1 /\ S[n] \in Strings
  OBVIOUS
<1> HIDE DEF S1, S2, n
<1>2. \A T \in Seq(Strings), m \in Nat : m <= Len(T) =>
        /\ SubSeq(T, 2, m) \in Seq(Strings)
        /\ Len(SubSeq(T, 2, m)) = IF 2 <= m THEN m - 1 ELSE 0
        /\ \A k \in 1..(m - 1) : SubSeq(T, 2, m)[k] = T[k + 1]
  OBVIOUS
<1>3. /\ Inner(S) \in Seq(Strings) /\ Len(Inner(S)) = IF 2 <= n - 1 THEN n - 2 ELSE 0
      /\ \A k \in 1..(n - 2) : Inner(S)[k] = S[k + 1]
  BY <1>1, <1>2 DEF Inner, n
<1>4. /\ Inner(S1) \in Seq(Strings) /\ Len(Inner(S1)) = IF 2 <= n THEN n - 1 ELSE 0
      /\ \A k \in 1..(n - 1) : Inner(S1)[k] = S1[k + 1]
  BY <1>1, <1>2 DEF Inner
<1>5. /\ Inner(S2) \in Seq(Strings) /\ Len(Inner(S2)) = IF 2 <= n - 1 THEN n - 2 ELSE 0
      /\ \A k \in 1..(n - 2) : Inner(S2)[k] = S2[k + 1]
  BY <1>1, <1>2 DEF Inner
<1>6. n = 1 => Inner(S1) = <<>>
  BY <1>4
<1>7. ASSUME n > 1 PROVE Inner(S2) = Inner(S)
  <2>1. Len(Inner(S2)) = Len(Inner(S)) /\ \A k \in 1..Len(Inner(S2)) : Inner(S2)[k] = Inner(S)[k]
    BY <1>1, <1>3, <1>5, <1>7
  <2> QED
    BY <1>3, <1>5, <2>1, Same
<1>8. ASSUME n > 1 PROVE Inner(S1) = Append(Inner(S), S[n])
  <2> DEFINE R == Append(Inner(S), S[n])
  <2>1. R \in Seq(Strings) /\ Len(R) = n - 1 /\ R[n - 1] = S[n] /\ \A k \in 1..(n - 2) : R[k] = Inner(S)[k]
    <3> DEFINE I == Inner(S)
    <3>1. I \in Seq(Strings) /\ Len(I) = n - 2 /\ n - 2 \in Nat /\ S[n] \in Strings
      BY <1>1, <1>3, <1>8
    <3> HIDE DEF I
    <3>2. /\ Append(I, S[n]) \in Seq(Strings) /\ Len(Append(I, S[n])) = (n - 2) + 1
          /\ Append(I, S[n])[(n - 2) + 1] = S[n] /\ \A k \in 1..(n - 2) : Append(I, S[n])[k] = I[k]
      BY <3>1
    <3> QED
      BY <1>1, <3>2 DEF I
  <2> HIDE DEF R
  <2>2. Len(Inner(S1)) = Len(R) /\ \A k \in 1..Len(Inner(S1)) : Inner(S1)[k] = R[k]
    <3>1. Len(Inner(S1)) = n - 1
      BY <1>1, <1>4, <1>8
    <3>2. ASSUME NEW k \in 1..(n - 1) PROVE Inner(S1)[k] = R[k]
      <4>1. Inner(S1)[k] = S[k + 1]
        <5>1. Inner(S1)[k] = S1[k + 1]
          BY <1>4
        <5>2. k + 1 \in 1..n
          BY <1>1
        <5> QED
          BY <1>1, <5>1, <5>2
      <4>2. k = n - 1 \/ (k \in 1..(n - 2) /\ Inner(S)[k] = S[k + 1])
        BY <1>1, <1>3
      <4> QED
        BY <1>1, <2>1, <4>1, <4>2
    <3> QED
      BY <2>1, <3>1, <3>2
  <2>3. Inner(S1) = R
    BY <1>4, <2>1, <2>2, Same
  <2> QED
    BY <2>3 DEF R
<1> QED
  BY <1>3, <1>6, <1>7, <1>8 DEF S1, S2, n

(* The first j characters of s are covered by a pattern whose segments are S. *)
Reaches(S, s, j) ==
  LET last == S[Len(S)]
  IN  /\ 0 \in Occurrences(S[1], s)
      /\ Len(S) = 1 => j = Len(last)
      /\ Len(S) > 1 => /\ j - Len(last) \in Occurrences(last, s)
                       /\ Float(Inner(S), s, Len(S[1]), j - Len(last))

(* A star lets the pattern end anywhere from where it could end before it. *)
LEMMA ReachesStar ==
  ASSUME NEW S \in Seq(Strings), Len(S) \in Nat \ {0}, NEW s \in Strings, NEW j \in 0..Len(s)
  PROVE  Reaches(Append(S, <<>>), s, j) <=> \E k \in 0..j : Reaches(S, s, k)
<1> DEFINE R == Append(S, <<>>)
           l == S[Len(S)]
<1>1. /\ <<>> \in Strings /\ Len(<<>>) = 0 /\ Len(s) \in Nat
      /\ S[1] \in Strings /\ l \in Strings /\ Len(S[1]) \in Nat /\ Len(l) \in Nat
  BY DEF Strings
<1>2. Len(R) = Len(S) + 1 /\ R[Len(R)] = <<>> /\ R[1] = S[1]
  BY <1>1
<1>3. Reaches(R, s, j) <=> 0 \in Occurrences(S[1], s) /\ Float(Inner(R), s, Len(S[1]), j)
  <2>1. j \in Occurrences(<<>>, s)
    BY OccursNothing
  <2> HIDE DEF R
  <2> QED
    BY <1>1, <1>2, <2>1 DEF Reaches
<1> HIDE DEF R
<1>4. ASSUME Len(S) = 1 PROVE Reaches(R, s, j) <=> \E k \in 0..j : Reaches(S, s, k)
  <2>1. Inner(R) = <<>>
    BY <1>1, <1>4, InnerOf DEF R
  <2>2. Float(<<>>, s, Len(S[1]), j) <=> Len(S[1]) <= j
    BY <1>1, FloatNothing
  <2>3. \A k : Reaches(S, s, k) <=> 0 \in Occurrences(S[1], s) /\ k = Len(S[1])
    BY <1>4 DEF Reaches
  <2> QED
    BY <1>1, <1>3, <2>1, <2>2, <2>3
<1>5. ASSUME Len(S) > 1 PROVE Reaches(R, s, j) <=> \E k \in 0..j : Reaches(S, s, k)
  <2>1. Inner(R) = Append(Inner(S), l) /\ Inner(S) \in Seq(Strings)
    BY <1>1, <1>5, InnerOf DEF R
  <2>2. Float(Append(Inner(S), l), s, Len(S[1]), j) <=>
          \E i \in Occurrences(l, s) : Float(Inner(S), s, Len(S[1]), i) /\ i + Len(l) <= j
    BY <1>1, <2>1, FloatMore
  <2>3. \A k : Reaches(S, s, k) <=>
                 /\ 0 \in Occurrences(S[1], s)
                 /\ k - Len(l) \in Occurrences(l, s)
                 /\ Float(Inner(S), s, Len(S[1]), k - Len(l))
    BY <1>5 DEF Reaches
  <2>4. Occurrences(l, s) \subseteq Nat
    BY <1>1 DEF Occurrences
  <2> HIDE DEF l
  <2>5. ASSUME NEW i \in Occurrences(l, s), Float(Inner(S), s, Len(S[1]), i), i + Len(l) <= j,
               0 \in Occurrences(S[1], s)
        PROVE  i + Len(l) \in 0..j /\ Reaches(S, s, i + Len(l))
    <3> DEFINE k == i + Len(l)
    <3>1. k - Len(l) = i /\ k \in 0..j
      BY <1>1, <2>4, <2>5
    <3> HIDE DEF k
    <3>2. Reaches(S, s, k)
      BY <2>3, <2>5, <3>1
    <3> QED
      BY <3>1, <3>2 DEF k
  <2>6. ASSUME NEW k \in 0..j, Reaches(S, s, k)
        PROVE  \E i \in Occurrences(l, s) : Float(Inner(S), s, Len(S[1]), i) /\ i + Len(l) <= j
    <3>1. k - Len(l) + Len(l) <= j
      BY <1>1
    <3> QED
      BY <2>3, <2>6, <3>1
  <2> QED
    BY <1>3, <2>1, <2>2, <2>3, <2>5, <2>6
<1>6. Len(S) = 1 \/ Len(S) > 1
  OBVIOUS
<1> QED
  BY <1>4, <1>5, <1>6 DEF R

(* One segment or more. *)
LEMMA OneOrMore ==
  ASSUME NEW n \in Nat \ {0}
  PROVE  (n = 1 \/ n > 1) /\ ~(n = 1 /\ n > 1)
OBVIOUS

(* A character lets it end just after where it could end before it. *)
LEMMA ReachesCharacter ==
  ASSUME NEW S \in Seq(Strings), Len(S) \in Nat \ {0}, NEW c \in Characters,
         NEW s \in Strings, NEW j \in 0..Len(s)
  PROVE  Reaches([S EXCEPT ![Len(S)] = Append(@, c)], s, j) <=>
           j \in 1..Len(s) /\ s[j] = c /\ Reaches(S, s, j - 1)
<1>0. Len(S) = 1 \/ Len(S) > 1
  BY OneOrMore
<1> DEFINE l == S[Len(S)]
           x == Append(l, c)
           R == [S EXCEPT ![Len(S)] = x]
<1>1. /\ Len(s) \in Nat /\ S[1] \in Strings /\ l \in Strings /\ x \in Strings
      /\ Len(S[1]) \in Nat /\ Len(l) \in Nat /\ Len(x) = Len(l) + 1
  BY DEF Strings
<1>2. \A i \in Int : i \in Occurrences(x, s) <=>
        /\ i \in Occurrences(l, s)
        /\ i + Len(l) + 1 <= Len(s)
        /\ s[i + Len(l) + 1] = c
  BY <1>1, OccursMore
<1>3. Len(S) > 1 => Inner(R) = Inner(S)
  BY <1>1, InnerOf
<1>4. Len(R) = Len(S) /\ R[Len(S)] = x /\ (Len(S) > 1 => R[1] = S[1])
  OBVIOUS
<1> HIDE DEF x, R
<1>5. \A k : Reaches(S, s, k) <=>
               /\ 0 \in Occurrences(S[1], s)
               /\ Len(S) = 1 => k = Len(l)
               /\ Len(S) > 1 => /\ k - Len(l) \in Occurrences(l, s)
                                /\ Float(Inner(S), s, Len(S[1]), k - Len(l))
  BY DEF Reaches
<1>6. ASSUME Len(S) = 1
      PROVE  Reaches(R, s, j) <=> j \in 1..Len(s) /\ s[j] = c /\ Reaches(S, s, j - 1)
  <2>1. Reaches(R, s, j) <=> 0 \in Occurrences(x, s) /\ j = Len(x)
    BY <1>4, <1>6 DEF Reaches
  <2>2. Reaches(S, s, j - 1) <=> 0 \in Occurrences(l, s) /\ j - 1 = Len(l)
    BY <1>5, <1>6
  <2> HIDE DEF l
  <2> QED
    BY <1>1, <1>2, <2>1, <2>2
<1>7. ASSUME Len(S) > 1
      PROVE  Reaches(R, s, j) <=> j \in 1..Len(s) /\ s[j] = c /\ Reaches(S, s, j - 1)
  <2> DEFINE i == j - Len(x)
             k == j - 1
  <2>1. Reaches(R, s, j) <=>
          /\ 0 \in Occurrences(S[1], s)
          /\ i \in Occurrences(x, s)
          /\ Float(Inner(S), s, Len(S[1]), i)
    BY <1>3, <1>4, <1>7 DEF Reaches
  <2> HIDE DEF l
  <2>2. k - Len(l) = i /\ i + Len(l) + 1 = j /\ i \in Int /\ k \in 0..Len(s) \cup {-1}
    BY <1>1
  <2> HIDE DEF i, k
  <2>3. Reaches(S, s, k) <=>
          /\ 0 \in Occurrences(S[1], s)
          /\ i \in Occurrences(l, s)
          /\ Float(Inner(S), s, Len(S[1]), i)
    <3>1. Len(S) # 1
      BY <1>7, OneOrMore
    <3>2. Reaches(S, s, k) <=>
            /\ 0 \in Occurrences(S[1], s)
            /\ Len(S) = 1 => k = Len(l)
            /\ Len(S) > 1 => /\ k - Len(l) \in Occurrences(l, s)
                             /\ Float(Inner(S), s, Len(S[1]), k - Len(l))
      BY <1>5
    <3>3. Reaches(S, s, k) <=>
            /\ 0 \in Occurrences(S[1], s)
            /\ k - Len(l) \in Occurrences(l, s)
            /\ Float(Inner(S), s, Len(S[1]), k - Len(l))
      BY <1>7, <3>1, <3>2
    <3> QED
      BY <2>2, <3>3
  <2>4. Occurrences(l, s) \subseteq Nat
    BY DEF Occurrences
  <2>5. i \in Occurrences(x, s) <=> j \in 1..Len(s) /\ s[j] = c /\ i \in Occurrences(l, s)
    BY <1>1, <1>2, <2>2, <2>4
  <2> QED
    BY <2>1, <2>3, <2>5 DEF k
<1> HIDE DEF l
<1> QED
  BY <1>0, <1>6, <1>7 DEF R, x, l

(* So the beginnings of s that a beginning of the pattern covers are those its     *)
(* segments reach.                                                          *)
LEMMA EndsAre ==
  ASSUME NEW p \in Strings, NEW s \in Strings
  PROVE  \A n \in 0..Len(p) : \A j \in 0..Len(s) :
           j \in Ends(p, s)[n] <=> Reaches(Splits(p)[n], s, j)
<1> DEFINE Right(n) == \A j \in 0..Len(s) : j \in Ends(p, s)[n] <=> Reaches(Splits(p)[n], s, j)
           T == {n \in 0..Len(p) : Right(n)}
<1>1. /\ Len(p) \in Nat /\ Len(s) \in Nat /\ <<>> \in Strings
      /\ \A n \in 1..Len(p) : p[n] \in Characters
  BY DEF Strings
<1>2. /\ Splits(p)[0] = <<<<>>>>
      /\ \A n \in 1..Len(p) : Splits(p)[n] = Cut(Splits(p)[n - 1], p[n])
      /\ \A n \in 0..Len(p) : Splits(p)[n] \in Seq(Strings) /\ Len(Splits(p)[n]) \in Nat \ {0}
  BY UnfoldSplits
<1>3. /\ Ends(p, s)[0] = {0}
      /\ \A n \in 1..Len(p) : Ends(p, s)[n] = Onward(Ends(p, s)[n - 1], p[n], s)
      /\ \A n \in 0..Len(p) : Ends(p, s)[n] \subseteq 0..Len(s)
  BY UnfoldEnds
<1>4. Right(0)
  <2> DEFINE S == <<<<>>>>
  <2>1. \A j : Reaches(<<<<>>>>, s, j) <=> 0 \in Occurrences(<<>>, s) /\ j = 0
    BY DEF Reaches
  <2>2. 0 \in Occurrences(<<>>, s)
    BY <1>1, OccursNothing
  <2>3. \A j \in 0..Len(s) : j \in {0} <=> Reaches(S, s, j)
    BY <2>1, <2>2
  <2> HIDE DEF S
  <2>4. Splits(p)[0] = S /\ Ends(p, s)[0] = {0}
    BY <1>2, <1>3 DEF S
  <2> QED
    BY <2>3, <2>4
<1>5. ASSUME NEW n \in 0..(Len(p) - 1), Right(n) PROVE Right(n + 1)
  <2> DEFINE S == Splits(p)[n]
             E == Ends(p, s)[n]
             c == p[n + 1]
  <2>1. /\ S \in Seq(Strings) /\ Len(S) \in Nat \ {0} /\ c \in Characters
        /\ E \subseteq 0..Len(s) /\ \A j \in 0..Len(s) : j \in E <=> Reaches(S, s, j)
    BY <1>1, <1>2, <1>3, <1>5
  <2>2. Splits(p)[n + 1] = Cut(S, c) /\ Ends(p, s)[n + 1] = Onward(E, c, s)
    BY <1>1, <1>2, <1>3
  <2> HIDE DEF S, E, c
  <2>3. ASSUME NEW j \in 0..Len(s) PROVE j \in Onward(E, c, s) <=> Reaches(Cut(S, c), s, j)
    <3>1. CASE c = Star
      <4>1. j \in Onward(E, c, s) <=> \E k \in E : k <= j
        BY <3>1 DEF Onward
      <4>2. Reaches(Cut(S, c), s, j) <=> \E k \in 0..j : Reaches(S, s, k)
        BY <2>1, <3>1, ReachesStar DEF Cut
      <4> QED
        BY <1>1, <2>1, <4>1, <4>2
    <3>2. CASE c # Star
      <4>1. j \in Onward(E, c, s) <=> j \in 1..Len(s) /\ s[j] = c /\ j - 1 \in E
        BY <3>2 DEF Onward
      <4>2. Reaches(Cut(S, c), s, j) <=> j \in 1..Len(s) /\ s[j] = c /\ Reaches(S, s, j - 1)
        BY <2>1, <3>2, ReachesCharacter DEF Cut
      <4> QED
        BY <1>1, <2>1, <4>1, <4>2
    <3> QED
      BY <3>1, <3>2
  <2> QED
    BY <2>2, <2>3
<1> HIDE DEF Right
<1>6. 0 \in T /\ \A n \in 0..(Len(p) - 1) : n \in T => n + 1 \in T
  BY <1>1, <1>4, <1>5
<1> HIDE DEF T
<1>7. 0..Len(p) \subseteq T
  BY <1>1, <1>6, UpTo
<1> QED
  BY <1>7 DEF T, Right

-----------------------------------------------------------------------------
(* What Compile and Match make of the segments. *)

(* The first k of a sequence are the first k - 1 and one. *)
LEMMA PrefixMore ==
  ASSUME NEW q \in Seq(Strings), NEW k \in 1..Len(q)
  PROVE  /\ SubSeq(q, 1, k) = Append(SubSeq(q, 1, k - 1), q[k])
         /\ SubSeq(q, 1, k - 1) \in Seq(Strings) /\ q[k] \in Strings
<1> DEFINE a == SubSeq(q, 1, k)
           b == Append(SubSeq(q, 1, k - 1), q[k])
<1>1. a \in Seq(Strings) /\ Len(a) = k /\ \A i \in 1..k : a[i] = q[i]
  OBVIOUS
<1>2. SubSeq(q, 1, k - 1) \in Seq(Strings) /\ Len(SubSeq(q, 1, k - 1)) = k - 1
      /\ \A i \in 1..(k - 1) : SubSeq(q, 1, k - 1)[i] = q[i]
  OBVIOUS
<1>3. q[k] \in Strings /\ k \in Nat
  OBVIOUS
<1>4. b \in Seq(Strings) /\ Len(b) = k /\ \A i \in 1..k : b[i] = q[i]
  BY <1>2, <1>3
<1> HIDE DEF a, b
<1>5. a = b
  BY <1>1, <1>4, Same
<1> QED
  BY <1>2, <1>3, <1>5 DEF a, b

(* Empty segments may be left out. *)
LEMMA EmptiesFloat ==
  ASSUME NEW q \in Seq(Strings), NEW s \in Strings, NEW a \in Nat
  PROVE  \A b \in 0..Len(s) : Float(Nonempties(q)[Len(q)], s, a, b) <=> Float(q, s, a, b)
<1> DEFINE Right(n) == \A b \in 0..Len(s) :
                         Float(Nonempties(q)[n], s, a, b) <=> Float(SubSeq(q, 1, n), s, a, b)
           T == {n \in 0..Len(q) : Right(n)}
<1>1. Len(q) \in Nat /\ Len(s) \in Nat /\ SubSeq(q, 1, 0) = <<>> /\ SubSeq(q, 1, Len(q)) = q
  BY DEF Strings
<1>2. /\ Nonempties(q)[0] = <<>>
      /\ \A n \in 1..Len(q) : Nonempties(q)[n] = Keep(Nonempties(q)[n - 1], q[n])
      /\ \A n \in 0..Len(q) : Nonempties(q)[n] \in Seq(Strings)
  BY UnfoldNonempties
<1>3. Right(0)
  BY <1>1, <1>2
<1>4. ASSUME NEW n \in 0..(Len(q) - 1), Right(n) PROVE Right(n + 1)
  <2> DEFINE K == Nonempties(q)[n]
             r == SubSeq(q, 1, n)
             x == q[n + 1]
  <2>1. /\ K \in Seq(Strings) /\ Nonempties(q)[n + 1] = Keep(K, x)
        /\ \A b \in 0..Len(s) : Float(K, s, a, b) <=> Float(r, s, a, b)
    BY <1>1, <1>2, <1>4
  <2>2. r \in Seq(Strings) /\ x \in Strings /\ SubSeq(q, 1, n + 1) = Append(r, x)
    <3>1. n + 1 \in 1..Len(q) /\ (n + 1) - 1 = n
      BY <1>1
    <3> QED
      BY <3>1, PrefixMore
  <2> HIDE DEF K, r, x
  <2>3. ASSUME NEW b \in 0..Len(s) PROVE Float(Keep(K, x), s, a, b) <=> Float(Append(r, x), s, a, b)
    <3>1. CASE x = <<>>
      BY <2>1, <2>2, <3>1, FloatEmpty DEF Keep
    <3>2. CASE x # <<>>
      <4>1. Keep(K, x) = Append(K, x)
        BY <3>2 DEF Keep
      <4>2. Float(Append(K, x), s, a, b) <=>
              \E i \in Occurrences(x, s) : Float(K, s, a, i) /\ i + Len(x) <= b
        BY <1>1, <2>1, <2>2, FloatMore
      <4>3. Float(Append(r, x), s, a, b) <=>
              \E i \in Occurrences(x, s) : Float(r, s, a, i) /\ i + Len(x) <= b
        BY <1>1, <2>1, <2>2, FloatMore
      <4>4. Occurrences(x, s) \subseteq 0..Len(s)
        BY <1>1, <2>2 DEF Occurrences, Strings
      <4> QED
        BY <2>1, <4>1, <4>2, <4>3, <4>4
    <3> QED
      BY <3>1, <3>2
  <2> QED
    BY <2>1, <2>2, <2>3
<1> HIDE DEF Right
<1>5. 0 \in T /\ \A n \in 0..(Len(q) - 1) : n \in T => n + 1 \in T
  BY <1>1, <1>3, <1>4
<1> HIDE DEF T
<1>6. 0..Len(q) \subseteq T
  BY <1>1, <1>5, UpTo
<1>7. Len(q) \in T
  BY <1>1, <1>6
<1> QED
  BY <1>1, <1>7 DEF T, Right

(* matchSegments: each segment at its leftmost place finds places for all of them   *)
(* exactly if there are any.                                                 *)
LEMMA LeftmostIsExact ==
  ASSUME NEW q \in Seq(Strings), NEW s \in Strings, NEW a \in Nat, NEW to \in a..Len(s)
  PROVE  Nexts(q, s, a, to)[Len(q)] <= to <=> Float(q, s, a, to)
<1> DEFINE g == Nexts(q, s, a, to)
           Right(n) == \A b \in 0..to : Float(SubSeq(q, 1, n), s, a, b) <=> g[n] <= b
           T == {n \in 0..Len(q) : Right(n)}
<1>1. /\ Len(q) \in Nat /\ Len(s) \in Nat /\ SubSeq(q, 1, 0) = <<>> /\ SubSeq(q, 1, Len(q)) = q
      /\ to \in Nat /\ to <= Len(s) /\ a <= to
  BY DEF Strings
<1>2. /\ g[0] = a
      /\ \A n \in 1..Len(q) : g[n] = After(g[n - 1], q[n], s, to)
      /\ \A n \in 0..Len(q) : g[n] \in Nat
  BY <1>1, UnfoldNexts
<1> HIDE DEF g
<1>3. Right(0)
  <2>1. \A b \in 0..to : Float(<<>>, s, a, b) <=> a <= b
    BY <1>1, FloatNothing
  <2> QED
    BY <1>1, <1>2, <2>1
<1>4. ASSUME NEW n \in 0..(Len(q) - 1), Right(n) PROVE Right(n + 1)
  <2> DEFINE r == SubSeq(q, 1, n)
             x == q[n + 1]
             F == Fits(g[n], x, s, to)
  <2>1. /\ g[n] \in Nat /\ g[n + 1] = After(g[n], x, s, to)
        /\ \A b \in 0..to : Float(r, s, a, b) <=> g[n] <= b
    BY <1>1, <1>2, <1>4
  <2>2. r \in Seq(Strings) /\ x \in Strings /\ SubSeq(q, 1, n + 1) = Append(r, x)
    <3>1. n + 1 \in 1..Len(q) /\ (n + 1) - 1 = n
      BY <1>1
    <3> QED
      BY <3>1, PrefixMore
  <2>3. F \subseteq Nat /\ Len(x) \in Nat
        /\ \A i : i \in F <=> i \in Occurrences(x, s) /\ g[n] <= i /\ i + Len(x) <= to
    BY <2>2 DEF Fits, Occurrences, Strings
  <2>4. g[n + 1] = IF F = {} THEN Len(s) + 1 ELSE Min(F) + Len(x)
    BY <2>1 DEF After
  <2>5. F # {} => Min(F) \in F /\ \A i \in F : Min(F) <= i
    BY <2>3, LeastOf
  <2> HIDE DEF r, x, F
  <2>6. ASSUME NEW b \in 0..to
        PROVE  Float(Append(r, x), s, a, b) <=> g[n + 1] <= b
    <3>1. Float(Append(r, x), s, a, b) <=>
            \E i \in Occurrences(x, s) : Float(r, s, a, i) /\ i + Len(x) <= b
      BY <1>1, <2>2, FloatMore
    <3>2. Occurrences(x, s) \subseteq Nat
      BY DEF Occurrences
    <3>3. \A i \in Occurrences(x, s) : i + Len(x) <= b => (Float(r, s, a, i) <=> g[n] <= i)
      BY <1>1, <2>1, <2>3, <3>2
    <3>4. (\E i \in Occurrences(x, s) : Float(r, s, a, i) /\ i + Len(x) <= b) <=>
            \E i \in F : i + Len(x) <= b
      <4>1. ASSUME NEW i \in Occurrences(x, s), Float(r, s, a, i), i + Len(x) <= b PROVE i \in F
        <5>1. g[n] <= i /\ i \in Nat
          BY <3>2, <3>3, <4>1
        <5>2. i + Len(x) <= to
          BY <1>1, <2>3, <4>1, <5>1
        <5> QED
          BY <2>3, <5>1, <5>2
      <4>2. ASSUME NEW i \in F, i + Len(x) <= b PROVE i \in Occurrences(x, s) /\ Float(r, s, a, i)
        BY <2>3, <3>3, <4>2
      <4> QED
        BY <4>1, <4>2
    <3>5. CASE F = {}
      BY <1>1, <2>4, <3>1, <3>4, <3>5
    <3>6. CASE F # {}
      <4> DEFINE m == Min(F)
      <4>1. m \in F /\ m \in Nat /\ (\A i \in F : m <= i) /\ g[n + 1] = m + Len(x)
        BY <2>3, <2>4, <2>5, <3>6
      <4> HIDE DEF m
      <4>2. (\E i \in F : i + Len(x) <= b) <=> m + Len(x) <= b
        BY <1>1, <2>3, <4>1
      <4> QED
        BY <3>1, <3>4, <4>1, <4>2
    <3> QED
      BY <3>5, <3>6
  <2> QED
    BY <2>2, <2>6
<1> HIDE DEF Right
<1>5. 0 \in T /\ \A n \in 0..(Len(q) - 1) : n \in T => n + 1 \in T
  BY <1>1, <1>3, <1>4
<1> HIDE DEF T
<1>6. 0..Len(q) \subseteq T
  BY <1>1, <1>5, UpTo
<1>7. Len(q) \in T
  BY <1>1, <1>6
<1>8. Float(q, s, a, to) <=> g[Len(q)] <= to
  <2>1. Right(Len(q)) /\ to \in 0..to
    BY <1>1, <1>7 DEF T
  <2> QED
    BY <1>1, <2>1 DEF Right
<1> QED
  BY <1>8 DEF g

(* A segment is all of s if it occurs at its front and is as long. *)
LEMMA Whole ==
  ASSUME NEW x \in Strings, NEW s \in Strings
  PROVE  s = x <=> 0 \in Occurrences(x, s) /\ Len(s) = Len(x)
<1>1. Len(x) \in Nat /\ Len(s) \in Nat
  BY DEF Strings
<1>2. 0 \in Occurrences(x, s) <=>
        0 \in 0..(Len(s) - Len(x)) /\ \A k \in 1..Len(x) : s[0 + k] = x[k]
  BY Occurs
<1>3. ASSUME s = x PROVE 0 \in Occurrences(x, s) /\ Len(s) = Len(x)
  BY <1>1, <1>2, <1>3
<1>4. ASSUME 0 \in Occurrences(x, s), Len(s) = Len(x) PROVE s = x
  <2>1. \A k \in 1..Len(s) : s[k] = x[k]
    BY <1>1, <1>2, <1>4
  <2> QED
    BY <1>4, <2>1, Same DEF Strings
<1> QED
  BY <1>3, <1>4

(* Whichever of its six forms Compile gives a pattern, Match asks that form what   *)
(* the pattern's segments say.                                               *)
LEMMA MatchesItsSegments ==
  ASSUME NEW p \in Strings, NEW s \in Strings
  PROVE  Match(Compile(p), s) <=> Reaches(Splits(p)[Len(p)], s, Len(s))
<1> DEFINE S  == Splits(p)[Len(p)]
           h  == S[1]
           t  == S[Len(S)]
           M  == Middles(S)
           C  == Compile(p)
           to == Len(s) - Len(t)
<1>1. Len(p) \in Nat /\ Len(s) \in Nat /\ <<>> \in Strings /\ Len(<<>>) = 0
  BY DEF Strings
<1>2. S \in Seq(Strings) /\ Len(S) \in Nat \ {0}
  <2>1. Len(p) \in 0..Len(p)
    BY <1>1
  <2> QED
    BY <2>1, UnfoldSplits
<1>3. C = IF Len(S) = 1 THEN Pattern("literal", h, <<>>, <<>>)
          ELSE CASE h = <<>> /\ t = <<>> /\ M = <<>>       -> Pattern("any", <<>>, <<>>, <<>>)
                 [] h = <<>> /\ t = <<>> /\ Len(M) = 1     -> Pattern("contains", M[1], <<>>, <<>>)
                 [] h = <<>> /\ t # <<>> /\ M = <<>>       -> Pattern("suffix", <<>>, t, <<>>)
                 [] h # <<>> /\ t = <<>> /\ M = <<>>       -> Pattern("prefix", h, <<>>, <<>>)
                 [] OTHER                                  -> Pattern("segments", h, t, M)
  BY DEF Compile
<1> HIDE DEF S, C
<1>4. h \in Strings /\ t \in Strings /\ Len(h) \in Nat /\ Len(t) \in Nat
  BY <1>2 DEF Strings
<1>5. CASE Len(S) = 1
  <2>1. C = Pattern("literal", h, <<>>, <<>>)
    BY <1>3, <1>5
  <2>2. Match(C, s) <=> s = h
    BY <2>1 DEF Match, Pattern
  <2>3. Reaches(S, s, Len(s)) <=> 0 \in Occurrences(h, s) /\ Len(s) = Len(h)
    BY <1>5 DEF Reaches
  <2> QED
    BY <1>4, <2>2, <2>3, Whole DEF S, C
<1>6. CASE Len(S) > 1
  <2>1. Inner(S) \in Seq(Strings) /\ M \in Seq(Strings)
        /\ \A b \in 0..Len(s) : Float(M, s, Len(h), b) <=> Float(Inner(S), s, Len(h), b)
    <3>1. Inner(S) \in Seq(Strings)
      BY <1>2 DEF Inner
    <3> DEFINE I == Inner(S)
    <3> HIDE DEF I
    <3>2. Len(I) \in 0..Len(I)
      BY <3>1 DEF I
    <3>3. Nonempties(I)[Len(I)] \in Seq(Strings)
      BY <3>1, <3>2, UnfoldNonempties DEF I
    <3>4. \A b \in 0..Len(s) : Float(Nonempties(I)[Len(I)], s, Len(h), b) <=> Float(I, s, Len(h), b)
      BY <1>4, <3>1, EmptiesFloat DEF I
    <3> QED
      BY <3>1, <3>3, <3>4 DEF Middles, I
  <2>2. Reaches(S, s, Len(s)) <=>
          /\ 0 \in Occurrences(h, s)
          /\ to \in Occurrences(t, s)
          /\ Float(Inner(S), s, Len(h), to)
    <3>1. Len(S) # 1
      BY <1>2, <1>6, OneOrMore
    <3> QED
      BY <1>6, <3>1 DEF Reaches
  <2>3. /\ to \in Occurrences(t, s) => to \in 0..Len(s)
        /\ 0 \in Occurrences(h, s) => Len(h) <= Len(s)
    BY <1>1, <1>4 DEF Occurrences
  <2>4. C = CASE h = <<>> /\ t = <<>> /\ M = <<>>       -> Pattern("any", <<>>, <<>>, <<>>)
              [] h = <<>> /\ t = <<>> /\ Len(M) = 1     -> Pattern("contains", M[1], <<>>, <<>>)
              [] h = <<>> /\ t # <<>> /\ M = <<>>       -> Pattern("suffix", <<>>, t, <<>>)
              [] h # <<>> /\ t = <<>> /\ M = <<>>       -> Pattern("prefix", h, <<>>, <<>>)
              [] OTHER                                  -> Pattern("segments", h, t, M)
    <3>1. Len(S) # 1
      BY <1>2, <1>6, OneOrMore
    <3> QED
      BY <1>3, <3>1
  <2> DEFINE Right == Match(C, s) <=>
                        /\ 0 \in Occurrences(h, s)
                        /\ to \in Occurrences(t, s)
                        /\ Float(M, s, Len(h), to)
  <2> SUFFICES Right
    BY <2>1, <2>2, <2>3 DEF S, C
  <2> HIDE DEF h, t, M
  <2>5. CASE h = <<>> /\ t = <<>> /\ M = <<>>
    <3>1. C = Pattern("any", <<>>, <<>>, <<>>)
      BY <2>4, <2>5
    <3>2. Match(C, s)
      BY <3>1 DEF Match, Pattern
    <3>3. 0 \in Occurrences(<<>>, s) /\ Len(s) \in Occurrences(<<>>, s) /\ Float(<<>>, s, 0, Len(s))
      BY <1>1, OccursNothing, FloatNothing
    <3> QED
      BY <1>1, <2>5, <3>2, <3>3
  <2>6. CASE h = <<>> /\ t = <<>> /\ Len(M) = 1
    <3> DEFINE x == M[1]
    <3>1. C = Pattern("contains", x, <<>>, <<>>)
      BY <2>1, <2>4, <2>6
    <3>2. x \in Strings /\ M = Append(<<>>, x)
      BY <2>1, <2>6
    <3> HIDE DEF x
    <3>3. Match(C, s) <=> Occurrences(x, s) # {}
      BY <3>1 DEF Match, Pattern
    <3>4. <<>> \in Seq(Strings)
      OBVIOUS
    <3>5. Float(M, s, 0, Len(s)) <=>
            \E i \in Occurrences(x, s) : Float(<<>>, s, 0, i) /\ i + Len(x) <= Len(s)
      BY <1>1, <3>2, <3>4, FloatMore
    <3>6. \A i \in Occurrences(x, s) : i \in Nat /\ i + Len(x) <= Len(s)
      BY <1>1, <3>2 DEF Occurrences, Strings
    <3>7. \A i \in Occurrences(x, s) : Float(<<>>, s, 0, i)
      BY <3>6, FloatNothing
    <3>8. 0 \in Occurrences(<<>>, s) /\ Len(s) \in Occurrences(<<>>, s)
      BY <1>1, OccursNothing
    <3>9. to = Len(s) /\ Len(h) = 0
      BY <1>1, <2>6
    <3> QED
      BY <2>6, <3>3, <3>5, <3>6, <3>7, <3>8, <3>9
  <2>7. CASE h = <<>> /\ t # <<>> /\ M = <<>>
    <3>1. C = Pattern("suffix", <<>>, t, <<>>)
      BY <2>4, <2>7
    <3>2. Match(C, s) <=> to \in Occurrences(t, s)
      BY <3>1 DEF Match, Pattern
    <3>3. 0 \in Occurrences(<<>>, s) /\ \A b \in Nat : Float(<<>>, s, 0, b)
      BY <1>1, OccursNothing, FloatNothing
    <3> QED
      BY <1>1, <2>3, <2>7, <3>2, <3>3
  <2>8. CASE h # <<>> /\ t = <<>> /\ M = <<>>
    <3>1. C = Pattern("prefix", h, <<>>, <<>>)
      BY <2>4, <2>8
    <3>2. Match(C, s) <=> 0 \in Occurrences(h, s)
      BY <3>1 DEF Match, Pattern
    <3>3. Len(s) \in Occurrences(<<>>, s) /\ (Float(<<>>, s, Len(h), Len(s)) <=> Len(h) <= Len(s))
      BY <1>1, <1>4, OccursNothing, FloatNothing
    <3>4. to = Len(s)
      BY <1>1, <2>8
    <3> QED
      BY <2>3, <2>8, <3>2, <3>3, <3>4
  <2>9. CASE /\ ~(h = <<>> /\ t = <<>> /\ M = <<>>)
             /\ ~(h = <<>> /\ t = <<>> /\ Len(M) = 1)
             /\ ~(h = <<>> /\ t # <<>> /\ M = <<>>)
             /\ ~(h # <<>> /\ t = <<>> /\ M = <<>>)
    <3>1. C = Pattern("segments", h, t, M)
      BY <2>4, <2>9
    <3>2. Match(C, s) <=>
            /\ 0 \in Occurrences(h, s)
            /\ Len(h) <= to /\ to \in Occurrences(t, s)
            /\ Nexts(M, s, Len(h), to)[Len(M)] <= to
      BY <3>1 DEF Match, MatchSegments, Pattern
    <3>3. ASSUME Len(h) <= to, to \in 0..Len(s)
          PROVE  Nexts(M, s, Len(h), to)[Len(M)] <= to <=> Float(M, s, Len(h), to)
      <4>1. to \in Len(h)..Len(s)
        BY <1>1, <1>4, <3>3
      <4> QED
        BY <1>4, <2>1, <4>1, LeftmostIsExact
    <3>4. Float(M, s, Len(h), to) => Len(h) <= to
      BY DEF Float
    <3> QED
      BY <2>3, <3>2, <3>3, <3>4
  <2> QED
    BY <2>5, <2>6, <2>7, <2>8, <2>9
<1> QED
  BY <1>2, <1>5, <1>6, OneOrMore

(* And that is what the pattern says. *)
LEMMA MatchIsCovers ==
  ASSUME NEW p \in Strings, NEW s \in Strings
  PROVE  Match(Compile(p), s) <=> Covers(p, s)
<1>1. Len(p) \in 0..Len(p) /\ Len(s) \in 0..Len(s)
  BY DEF Strings
<1>2. Len(s) \in Ends(p, s)[Len(p)] <=> Reaches(Splits(p)[Len(p)], s, Len(s))
  BY <1>1, EndsAre
<1> QED
  BY <1>2, MatchesItsSegments DEF Covers

(* Until Attach, the grants are those of the answer: one of the application's. *)
AnswerHeld == phase = "answered" => answer \in Answers /\ grants = NewSet(answer.channels)

(* The compiled grants of any answer allow a name just when one of its patterns,   *)
(* read as a glob, covers it (glob.Compile, glob.Match, webhook.parse).           *)
THEOREM GrantsCoverExactly == Spec => []GrantsAreExact
<1>1. Init => AnswerHeld
  BY DEF Init, AnswerHeld
<1>2. AnswerHeld /\ [Next]_vars => AnswerHeld'
  <2> SUFFICES ASSUME AnswerHeld, [Next]_vars PROVE AnswerHeld'
    OBVIOUS
  <2>1. CASE \E a \in Answers : Answer(a)
    BY <2>1 DEF Answer, AnswerHeld
  <2>2. CASE Attach
    BY <2>2 DEF Attach, AnswerHeld
  <2>3. CASE \E ch \in Targets : Publish(ch)
    BY <2>3 DEF Publish, Allowed, Refused, AnswerHeld, limits
  <2>4. CASE Tick
    BY <2>4 DEF Tick, AnswerHeld, connected
  <2>5. CASE UNCHANGED vars
    BY <2>5 DEF vars, connected, AnswerHeld
  <2> QED
    BY <2>1, <2>2, <2>3, <2>4, <2>5 DEF Next
<1>3. AnswerHeld => GrantsAreExact
  <2> SUFFICES ASSUME AnswerHeld, phase = "answered", NEW s \in Names
               PROVE  SetMatch(grants, s) <=> \E i \in DOMAIN answer.channels : Covers(answer.channels[i], s)
    BY DEF GrantsAreExact
  <2> DEFINE list == answer.channels
  <2>1. list \in Seq(Strings) /\ s \in Strings /\ grants = NewSet(list)
    BY SessionAssumption DEF AnswerHeld, Strings
  <2> HIDE DEF list
  <2>2. SetMatch(grants, s) <=> \E i \in DOMAIN list : Match(Compile(list[i]), s)
    BY <2>1 DEF SetMatch, NewSet
  <2>3. \A i \in DOMAIN list : list[i] \in Strings
    BY <2>1
  <2>4. \A i \in DOMAIN list : Match(Compile(list[i]), s) <=> Covers(list[i], s)
    BY <2>1, <2>3, MatchIsCovers
  <2> QED
    BY <2>2, <2>4 DEF list
<1> QED
  BY <1>1, <1>2, <1>3, PTL DEF Spec
=============================================================================
