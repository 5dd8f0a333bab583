----------------------------- MODULE MCRegistry -----------------------------
(* Instances of Registry for TLC.                                          *)
EXTENDS Registry, TLC

CONSTANTS c1, c2, i1, i2, k1, k2, k3, ctl, u1, u2

OwnIds    == (c1 :> i1) @@ (c2 :> i2)
OneKey    == {{k1}}
=============================================================================
