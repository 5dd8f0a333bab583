----------------------------- MODULE Admission -----------------------------
(***************************************************************************)
(* What the server promises of the sockets it lets in, with sets where the   *)
(* code keeps counters: a bounded number are inside, a bounded number of     *)
(* them belong to one user, nobody enters once the replica drains, and a      *)
(* drain is complete only when nobody is inside.                            *)
(***************************************************************************)
EXTENDS Naturals, FiniteSets

CONSTANTS Handshakes, Users, MaxConnections, MaxPerUser

VARIABLES
  inside,    \* the handshakes that were let in and have not left
  owner,     \* pairs <<handshake, user>> that were let in under the user's cap
  open,      \* whether handshakes may still enter
  complete   \* whether a drain has reported that everybody left

admVars == <<inside, owner, open, complete>>

(* A cap of zero is no cap. *)
Below(n, cap) == cap = 0 \/ n < cap

Of(u) == {h \in Handshakes : <<h, u>> \in owner}

Owned(h) == {p \in owner : p[1] = h}

Init ==
  /\ inside = {}
  /\ owner = {}
  /\ open = TRUE
  /\ complete = FALSE

Enter(h) ==
  /\ open
  /\ h \notin inside
  /\ Below(Cardinality(inside), MaxConnections)
  /\ inside' = inside \cup {h}
  /\ UNCHANGED <<owner, open, complete>>

Bind(h, u) ==
  /\ h \in inside
  /\ Owned(h) = {}
  /\ Below(Cardinality(Of(u)), MaxPerUser)
  /\ owner' = owner \cup {<<h, u>>}
  /\ UNCHANGED <<inside, open, complete>>

Unbind(h) ==
  /\ owner' = owner \ Owned(h)
  /\ UNCHANGED <<inside, open, complete>>

(* Nobody leaves with a user's slot. *)
Leave(h) ==
  /\ h \in inside
  /\ Owned(h) = {}
  /\ inside' = inside \ {h}
  /\ UNCHANGED <<owner, open, complete>>

Stop ==
  /\ open' = FALSE
  /\ UNCHANGED <<inside, owner, complete>>

Complete ==
  /\ ~open
  /\ inside = {}
  /\ complete' = TRUE
  /\ UNCHANGED <<inside, owner, open>>

Next ==
  \/ \E h \in Handshakes : Enter(h) \/ Unbind(h) \/ Leave(h)
  \/ \E h \in Handshakes, u \in Users : Bind(h, u)
  \/ Stop
  \/ Complete

Spec == Init /\ [][Next]_admVars
=============================================================================
