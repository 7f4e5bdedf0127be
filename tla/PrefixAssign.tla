---------------------------- MODULE PrefixAssign ----------------------------
(***************************************************************************)
(* interface_prefix_assign of interface-ip.c: first fit into the list of   *)
(* the assignments of a delegated prefix.  Positions count blocks of /64   *)
(* from the start of the prefix; a sub-prefix of length l takes 2^(64-l).  *)
(* The list is sorted by position and ends in a sentinel that stands where *)
(* the prefix does.                                                        *)
(***************************************************************************)
EXTENDS Integers, Sequences

(* Interfaces are numbered from 1, in the order of their names.  Entries   *)
(* that are no interface's: the end of the list, and the part of the prefix *)
(* that its delegator has kept for itself.                                  *)
SENTINEL == 0
EXCLUDED == -1
NoHint   == -1

(* Positions are int32_t: 1 << (64 - length) is defined for these lengths.  *)
Lengths == 34 .. 64
Size(length) == 2 ^ (64 - length)

(* What there is to know of powers of two.                                  *)
ASSUME SizeAssumption ==
  \A l, m \in Lengths :
    Size(l) \in Nat \ {0} /\ (l <= m => Size(m) \in 1 .. Size(l) /\ Size(l) % Size(m) = 0)

Entry(name, at, length) ==
  [name |-> name, at |-> at, length |-> length, enabled |-> FALSE]

End(c) == c.at + Size(c.length)

(* current + asize & ~asize: the next position that is aligned.             *)
Align(at, size) == ((at + size - 1) \div size) * size

(* Fault: a position is free from the entry in front of it on.             *)
CurrentFromStart(list, k) == IF k = 1 THEN 0 ELSE list[k - 1].at

(* `current` when the k-th entry is looked at, and where before it a block  *)
(* would start: at its hint, or as early as its alignment allows.           *)
Current(list, k) == IF k = 1 THEN 0 ELSE End(list[k - 1])
Position(list, k, hint, length) ==
  IF hint # NoHint THEN hint ELSE Align(Current(list, k), Size(length))

(* Fault: a hint needs no room in front of it.                             *)
FitsBehind(list, k, hint, length) ==
  LET at == Position(list, k, hint, length)
  IN  Current(list, k) < at /\ at + Size(length) - 1 < list[k].at

Fits(list, k, hint, length) ==
  LET at == Position(list, k, hint, length)
  IN  Current(list, k) <= at /\ at + Size(length) - 1 < list[k].at

FirstFit(list, hint, length, k) ==
  Fits(list, k, hint, length) /\ \A j \in 1 .. k - 1 : ~Fits(list, j, hint, length)

Assignable(list, hint, length) ==
  \E k \in DOMAIN list : Fits(list, k, hint, length)

(* list_add_tail(&assign->head, &c->head): before the k-th entry.           *)
Before(list, k, c) ==
  [j \in 1 .. Len(list) + 1 |->
     IF j < k THEN list[j] ELSE IF j = k THEN c ELSE list[j - 1]]

(* interface_prefix_assign: the list as it was if nothing fits.             *)
InterfacePrefixAssign(list, name, hint, length) ==
  IF Assignable(list, hint, length)
    THEN LET k == CHOOSE k \in DOMAIN list : FirstFit(list, hint, length, k)
         IN  Before(list, k, Entry(name, Position(list, k, hint, length), length))
    ELSE list

(* What the list is kept to: no entry begins before the one in front of it  *)
(* has ended.                                                               *)
Entries == [name : Int, at : Nat, length : Lengths, enabled : BOOLEAN]
Disjoint(list) ==
  \A j, k \in DOMAIN list : j < k => End(list[j]) <= list[k].at

(* A sub-prefix of an interface is a proper IPv6 prefix.                    *)
Aligned(c) == c.at % Size(c.length) = 0
=============================================================================
