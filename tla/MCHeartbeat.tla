---------------------------- MODULE MCHeartbeat ----------------------------
(* Instances of Heartbeat for TLC.                                         *)
EXTENDS Heartbeat

AHandshake == {1}
AConnect   == {5}
SomePings  == {3, 4}
SomePongs  == {2, 3}
=============================================================================
