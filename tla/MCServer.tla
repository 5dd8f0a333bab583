------------------------------ MODULE MCServer ------------------------------
(* Instances of Server for TLC.                                            *)
EXTENDS Server

CONSTANTS s1, s2, s3, u1, d1, d2
=============================================================================
