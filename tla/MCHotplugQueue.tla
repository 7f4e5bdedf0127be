--------------------------- MODULE MCHotplugQueue ---------------------------
(* HotplugQueue with a few interfaces, interchangeable.                      *)
EXTENDS HotplugQueue, TLC

Symmetry == Permutations(Ifaces)
=============================================================================
