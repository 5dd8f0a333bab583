----------------------------- MODULE Membership -----------------------------
(***************************************************************************)
(* What the hub promises the rest of the gateway, with one relation where   *)
(* the code keeps five maps: connections join once, take and give up keys    *)
(* while they are members, leave once and for ever, and the replica is       *)
(* interested in exactly the control key and the keys somebody holds.        *)
(***************************************************************************)
CONSTANTS Conns, Keys, Reserved, ControlKey

VARIABLES
  members,   \* connections that joined and have not left
  departed,  \* connections that left
  holds,     \* pairs <<connection, key>>
  interest   \* the keys this replica wants from the bus

memVars == <<members, departed, holds, interest>>

Pairs(c, K) == {<<c, k>> : k \in K}

InterestIn(H) == {ControlKey} \cup {k \in Keys : \E c \in Conns : <<c, k>> \in H}

Init ==
  /\ members = {}
  /\ departed = {}
  /\ holds = {}
  /\ interest = {ControlKey}

Join(c) ==
  /\ c \notin members \cup departed
  /\ members' = members \cup {c}
  /\ UNCHANGED <<departed, holds, interest>>

(* A member takes keys that are not reserved. *)
Take(c, K) ==
  /\ c \in members
  /\ holds' = holds \cup Pairs(c, K)
  /\ interest' = InterestIn(holds')
  /\ UNCHANGED <<members, departed>>

(* Some members give up, or are made to give up, some of what they hold. *)
GiveUp(P) ==
  /\ holds' = holds \ P
  /\ interest' = InterestIn(holds')
  /\ UNCHANGED <<members, departed>>

(* A member leaves with everything it held. *)
Leave(c) ==
  /\ c \in members
  /\ members' = members \ {c}
  /\ departed' = departed \cup {c}
  /\ holds' = holds \ Pairs(c, Keys)
  /\ interest' = InterestIn(holds')

Next ==
  \/ \E c \in Conns : Join(c) \/ Leave(c)
  \/ \E c \in Conns, K \in SUBSET (Keys \ Reserved) : Take(c, K)
  \/ \E P \in SUBSET (Conns \X Keys) : GiveUp(P)

Spec == Init /\ [][Next]_memVars
=============================================================================
