-------------------------- MODULE MCInterfaceShell --------------------------
(* Instances of InterfaceShell for TLC.  A protocol is the set of flags its  *)
(* script registers: dhcp.sh, ppp.sh and a tunnel such as 6in4.sh.           *)
EXTENDS InterfaceShell

Dhcp   == {"RENEW_AVAILABLE"}
Ppp    == {"TEARDOWN_ON_L3_LINK_DOWN"}
Tunnel == {"NODEV", "INIT_AVAILABLE", "NO_TASK"}

MCProtocols == {Dhcp, Ppp, Tunnel}
MCFaulty == {Ppp}
=============================================================================
