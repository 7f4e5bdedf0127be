--------------------------- MODULE MCBridgeDevice ---------------------------
(* BridgeDevice with two users and two members.                              *)
EXTENDS BridgeDevice

CONSTANTS u1, u2, m1, m2

MCUserOrder == <<u1, u2>>
MCMemberOrder == <<m1, m2>>
=============================================================================
