------------------------------- MODULE MCHub -------------------------------
(* Instances of Hub for TLC.                                               *)
EXTENDS Hub, TLC

CONSTANTS c1, i1, k1, ctl, u1

OwnId  == c1 :> i1
NoPattern == {}
=============================================================================
