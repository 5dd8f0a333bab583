----------------------------- MODULE MCGateway ------------------------------
(* Instances of Gateway for TLC. *)
EXTENDS Gateway

CONSTANTS w1, w2, ctl, r1, s1, event, revoke
=============================================================================
