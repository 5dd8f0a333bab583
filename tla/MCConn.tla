------------------------------- MODULE MCConn -------------------------------
(* Instances of Conn for TLC.                                              *)
EXTENDS Conn

CONSTANTS w1, w2
=============================================================================
