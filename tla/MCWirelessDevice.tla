-------------------------- MODULE MCWirelessDevice --------------------------
(* WirelessDevice with a few interfaces and processes.                       *)
EXTENDS WirelessDevice, TLC

Symmetry == Permutations(Procs) \union Permutations(Vifs)
=============================================================================
