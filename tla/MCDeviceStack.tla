---------------------------- MODULE MCDeviceStack ----------------------------
EXTENDS DeviceStack

(* A VLAN on a stacked device that may stand on either of two others; an    *)
(* interface on each of the two, and one on the alias of the first.         *)
MCOn == [i \in Ifaces |-> CASE i = "wan" -> "vlan" [] i = "vpn" -> "mac"
                            [] i = "tun" -> "alias" [] i = "lan" -> "veth"]
MCServes == [a \in Aliases |-> "wan"]
MCLower == [d \in Vlans \cup Stacked |-> IF d \in Vlans THEN "mac" ELSE "eth"]
=============================================================================
