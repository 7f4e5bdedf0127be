------------------------- MODULE PrefixAssignProofs -------------------------
(***************************************************************************)
(* interface_prefix_assign keeps the assignments of a delegated prefix     *)
(* apart, for every list, hint and length.  The list that results is the   *)
(* one given with one entry put before the first that leaves it room; two  *)
(* entries of it are two old ones, or the new one and one on either side.  *)
(***************************************************************************)
EXTENDS PrefixAssign, SequenceTheorems, WellFoundedInduction, TLAPS

(* Lists as the model builds them. *)
Request(name, hint, length) ==
  name \in Int /\ hint \in Nat \union {NoHint} /\ length \in Lengths

LEMMA EndType ==
  ASSUME NEW c \in Entries
  PROVE  c.at \in Nat /\ End(c) \in Nat /\ c.at < End(c)
<1>1. c.at \in Nat /\ c.length \in Lengths
  BY DEF Entries
<1>2. Size(c.length) \in Nat \ {0}
  BY <1>1, SizeAssumption
<1> QED
  BY <1>1, <1>2 DEF End

LEMMA ListType ==
  ASSUME NEW list \in Seq(Entries), NEW k \in DOMAIN list
  PROVE  list[k] \in Entries /\ k \in 1 .. Len(list) /\ Len(list) \in Nat
BY LenProperties, ElementOfSeq

LEMMA CurrentType ==
  ASSUME NEW list \in Seq(Entries), NEW k \in DOMAIN list
  PROVE  Current(list, k) \in Nat
<1>1. k \in 1 .. Len(list) /\ Len(list) \in Nat
  BY ListType
<1>2. CASE k = 1
  BY <1>2 DEF Current
<1>3. CASE k # 1
  <2>1. k - 1 \in 1 .. Len(list)
    BY <1>1, <1>3
  <2>2. list[k - 1] \in Entries
    BY <2>1, ElementOfSeq
  <2> QED
    BY <2>2, <1>3, EndType DEF Current
<1> QED
  BY <1>2, <1>3

(* A block starts at a position that exists. *)
LEMMA PositionType ==
  ASSUME NEW list \in Seq(Entries), NEW k \in DOMAIN list,
         NEW name, NEW hint, NEW length, Request(name, hint, length),
         Fits(list, k, hint, length)
  PROVE  Position(list, k, hint, length) \in Nat
<1>1. Current(list, k) \in Nat
  BY CurrentType
<1>2. Size(length) \in Nat \ {0}
  BY SizeAssumption DEF Request
<1>3. Position(list, k, hint, length) \in Int
  <2>1. CASE hint # NoHint
    BY <2>1 DEF Position, Request
  <2>2. CASE hint = NoHint
    <3>1. (Current(list, k) + Size(length) - 1) \div Size(length) \in Int
      BY <1>1, <1>2
    <3>2. Align(Current(list, k), Size(length)) \in Int
      BY <3>1, <1>2 DEF Align
    <3> QED
      BY <3>2, <2>2 DEF Position
  <2> QED
    BY <2>1, <2>2
<1>4. Current(list, k) <= Position(list, k, hint, length)
  BY DEF Fits
<1> QED
  BY <1>1, <1>3, <1>4

(* The loop over the list stops at the first entry that leaves room. *)
LEMMA FirstFitExists ==
  ASSUME NEW list \in Seq(Entries), NEW hint, NEW length,
         Assignable(list, hint, length)
  PROVE  \E k \in DOMAIN list : FirstFit(list, hint, length, k)
<1> DEFINE T == {k \in DOMAIN list : Fits(list, k, hint, length)}
<1>1. T # {} /\ T \subseteq Nat /\ DOMAIN list = 1 .. Len(list) /\ Len(list) \in Nat
  BY LenProperties DEF Assignable
<1>2. PICK k \in T : \A j \in T : ~(<<j, k>> \in OpToRel(<, Nat))
  BY <1>1, WFMin, NatLessThanWellFounded
<1>3. ASSUME NEW j \in 1 .. k - 1 PROVE ~Fits(list, j, hint, length)
  <2>1. j \in DOMAIN list /\ j \in Nat /\ k \in Nat /\ j < k
    BY <1>1
  <2>2. <<j, k>> \in OpToRel(<, Nat)
    BY <2>1 DEF OpToRel
  <2> QED
    BY <2>1, <2>2, <1>2
<1> QED
  BY <1>2, <1>3 DEF FirstFit
LEMMA BeforeIs ==
  ASSUME NEW list \in Seq(Entries), NEW k \in DOMAIN list, NEW c \in Entries
  PROVE  /\ Before(list, k, c) \in Seq(Entries)
         /\ DOMAIN Before(list, k, c) = 1 .. Len(list) + 1
         /\ Len(Before(list, k, c)) = Len(list) + 1
         /\ \A j \in 1 .. k - 1 : Before(list, k, c)[j] = list[j]
         /\ Before(list, k, c)[k] = c
         /\ \A j \in k .. Len(list) : Before(list, k, c)[j + 1] = list[j]
<1> DEFINE e(j) == IF j < k THEN list[j] ELSE IF j = k THEN c ELSE list[j - 1]
           new == [j \in 1 .. Len(list) + 1 |-> e(j)]
<1>1. k \in 1 .. Len(list) /\ Len(list) \in Nat
  BY ListType
<1>2. ASSUME NEW j \in 1 .. Len(list) + 1 PROVE e(j) \in Entries
  <2>1. CASE j < k
    BY <2>1, <1>1, ElementOfSeq
  <2>2. CASE j > k
    <3>1. j - 1 \in 1 .. Len(list)
      BY <2>2, <1>1
    <3>2. list[j - 1] \in Entries
      BY <3>1, ElementOfSeq
    <3> QED
      BY <3>2, <2>2, <1>1
  <2> QED
    BY <2>1, <2>2, <1>1
<1>3. Len(list) + 1 \in Nat
  BY <1>1
<1> HIDE DEF e
<1>4. new \in Seq(Entries) /\ DOMAIN new = 1 .. Len(list) + 1
  BY <1>2, <1>3, SeqDef
<1>5. Len(new) = Len(list) + 1
  BY <1>3, <1>4, LenProperties
<1>6. \A j \in 1 .. Len(list) + 1 : new[j] = e(j)
  OBVIOUS
<1>7. Before(list, k, c) = new
  BY DEF Before, e
<1> HIDE DEF new
<1>8. new[k] = c /\ \A j \in 1 .. k - 1 : new[j] = list[j]
  BY <1>1, <1>6 DEF e
<1>9. ASSUME NEW j \in k .. Len(list) PROVE new[j + 1] = list[j]
  <2>1. j + 1 \in 1 .. Len(list) + 1 /\ ~(j + 1 < k) /\ j + 1 # k /\ j + 1 - 1 = j
    BY <1>1
  <2> QED
    BY <2>1, <1>6 DEF e
<1> QED
  BY <1>4, <1>5, <1>7, <1>8, <1>9

(* Room in front of the k-th entry is room for the whole list. *)
LEMMA BeforeDisjoint ==
  ASSUME NEW list \in Seq(Entries), Disjoint(list), NEW k \in DOMAIN list,
         NEW c \in Entries, Current(list, k) <= c.at, End(c) <= list[k].at
  PROVE  Disjoint(Before(list, k, c))
<1> DEFINE new == Before(list, k, c)
<1>1. k \in 1 .. Len(list) /\ Len(list) \in Nat /\ DOMAIN list = 1 .. Len(list)
  BY ListType, LenProperties
<1>2. /\ DOMAIN new = 1 .. Len(list) + 1 /\ new[k] = c
      /\ \A j \in 1 .. k - 1 : new[j] = list[j]
      /\ \A j \in k .. Len(list) : new[j + 1] = list[j]
  BY BeforeIs
<1>3. \A j \in 1 .. Len(list) :
        list[j].at \in Nat /\ End(list[j]) \in Nat /\ list[j].at < End(list[j])
  BY EndType, ElementOfSeq
<1>4. c.at \in Nat /\ End(c) \in Nat
  BY EndType
<1>5. \A i, j \in 1 .. Len(list) : i < j => End(list[i]) <= list[j].at
  BY <1>1 DEF Disjoint
<1> HIDE DEF new
<1>6. ASSUME NEW j \in 1 .. k - 1 PROVE End(list[j]) <= c.at
  <2>1. k - 1 \in 1 .. Len(list) /\ j \in 1 .. Len(list)
    BY <1>1
  <2>2. Current(list, k) = End(list[k - 1])
    BY <2>1, <1>1 DEF Current
  <2>3. CASE j = k - 1
    BY <2>2, <2>3
  <2>4. CASE j < k - 1
    <3>1. End(list[j]) <= list[k - 1].at
      BY <2>1, <2>4, <1>5
    <3> QED
      BY <3>1, <2>1, <2>2, <1>3, <1>4
  <2> QED
    BY <2>1, <2>3, <2>4, <1>1
<1>7. ASSUME NEW j \in k .. Len(list) PROVE End(c) <= list[j].at
  <2>1. j \in 1 .. Len(list)
    BY <1>1
  <2>2. CASE j = k
    BY <2>2
  <2>3. CASE j > k
    <3>1. End(list[k]) <= list[j].at
      BY <2>1, <2>3, <1>1, <1>5
    <3> QED
      BY <3>1, <2>1, <1>1, <1>3, <1>4
  <2> QED
    BY <2>1, <2>2, <2>3, <1>1
<1>8. SUFFICES ASSUME NEW i \in 1 .. Len(list) + 1, NEW j \in 1 .. Len(list) + 1,
                      i < j
               PROVE  End(new[i]) <= new[j].at
  BY <1>2 DEF Disjoint, new
<1>9. CASE j < k
  <2>1. i \in 1 .. k - 1 /\ j \in 1 .. k - 1 /\ i \in 1 .. Len(list) /\ j \in 1 .. Len(list)
    BY <1>1, <1>8, <1>9
  <2> QED
    BY <2>1, <1>2, <1>5, <1>8
<1>10. CASE j = k
  <2>1. i \in 1 .. k - 1
    BY <1>1, <1>8, <1>10
  <2> QED
    BY <2>1, <1>2, <1>6, <1>10
<1>11. CASE j > k
  <2>1. j - 1 \in k .. Len(list) /\ j - 1 \in 1 .. Len(list) /\ j = (j - 1) + 1
    BY <1>1, <1>11
  <2>2. new[j] = list[j - 1]
    BY <2>1, <1>2
  <2>3. CASE i < k
    <3>1. i \in 1 .. k - 1 /\ i \in 1 .. Len(list) /\ i < j - 1
      BY <2>3, <1>1, <1>11
    <3> QED
      BY <3>1, <2>1, <2>2, <1>2, <1>5
  <2>4. CASE i = k
    BY <2>1, <2>2, <2>4, <1>2, <1>7
  <2>5. CASE i > k
    <3>1. /\ i - 1 \in k .. Len(list) /\ i - 1 \in 1 .. Len(list)
          /\ i = (i - 1) + 1 /\ i - 1 < j - 1
      BY <2>5, <1>1, <1>8
    <3>2. new[i] = list[i - 1]
      BY <3>1, <1>2
    <3> QED
      BY <3>1, <3>2, <2>1, <2>2, <1>5
  <2> QED
    BY <2>3, <2>4, <2>5, <1>1
<1> QED
  BY <1>9, <1>10, <1>11, <1>1

(* What an assignment is: one entry before the first that leaves it room.   *)
LEMMA AssignIsBefore ==
  ASSUME NEW list \in Seq(Entries), NEW name, NEW hint, NEW length,
         Request(name, hint, length), Assignable(list, hint, length)
  PROVE  \E k \in DOMAIN list, c \in Entries :
           /\ InterfacePrefixAssign(list, name, hint, length) = Before(list, k, c)
           /\ Current(list, k) <= c.at /\ End(c) <= list[k].at
           /\ c = Entry(name, Position(list, k, hint, length), length)
           /\ \A j \in 1 .. k - 1 : ~Fits(list, j, hint, length)
<1> DEFINE k == CHOOSE k \in DOMAIN list : FirstFit(list, hint, length, k)
           c == Entry(name, Position(list, k, hint, length), length)
<1>1. k \in DOMAIN list /\ FirstFit(list, hint, length, k)
  BY FirstFitExists
<1>2. InterfacePrefixAssign(list, name, hint, length) = Before(list, k, c)
  BY DEF InterfacePrefixAssign
<1> HIDE DEF k
<1>3. Fits(list, k, hint, length) /\ \A j \in 1 .. k - 1 : ~Fits(list, j, hint, length)
  BY <1>1 DEF FirstFit
<1>4. Position(list, k, hint, length) \in Nat
  BY <1>1, <1>3, PositionType
<1>5. c \in Entries /\ c.at = Position(list, k, hint, length) /\ c.length = length
  BY <1>4 DEF Entry, Entries, Request
<1>6. Current(list, k) <= c.at
  BY <1>3, <1>5 DEF Fits
<1>7. End(c) <= list[k].at
  <2>1. Size(length) \in Nat
    BY SizeAssumption DEF Request
  <2>2. list[k].at \in Nat
    BY <1>1, ListType, EndType
  <2>3. c.at + Size(length) - 1 < list[k].at
    BY <1>3, <1>5 DEF Fits
  <2>4. End(c) = c.at + Size(length)
    BY <1>5 DEF End
  <2> HIDE DEF c
  <2> QED
    BY <2>1, <2>2, <2>3, <2>4, <1>4, <1>5
<1> QED
  BY <1>1, <1>2, <1>3, <1>5, <1>6, <1>7

-----------------------------------------------------------------------------
(* interface_prefix_assign, whatever is asked for: no two assignments share *)
(* an address, with one another or with what the sentinel keeps beyond the  *)
(* end of the prefix.                                                       *)
THEOREM AssignKeepsDisjoint ==
  ASSUME NEW list \in Seq(Entries), Disjoint(list), NEW name, NEW hint,
         NEW length, Request(name, hint, length)
  PROVE  /\ InterfacePrefixAssign(list, name, hint, length) \in Seq(Entries)
         /\ Disjoint(InterfacePrefixAssign(list, name, hint, length))
<1>1. CASE Assignable(list, hint, length)
  BY <1>1, AssignIsBefore, BeforeIs, BeforeDisjoint
<1>2. CASE ~Assignable(list, hint, length)
  BY <1>2 DEF InterfacePrefixAssign
<1> QED
  BY <1>1, <1>2

(* It moves and loses none of the assignments that are in use, and the list *)
(* still ends in its sentinel: so every entry ends within the prefix.       *)
THEOREM AssignKeepsOthers ==
  ASSUME NEW list \in Seq(Entries), list # <<>>, NEW name, NEW hint,
         NEW length, Request(name, hint, length),
         NEW new, new = InterfacePrefixAssign(list, name, hint, length)
  PROVE  /\ Range(list) \subseteq Range(new)
         /\ new[Len(new)] = list[Len(list)]
<1>1. CASE Assignable(list, hint, length)
  <2>1. PICK k \in DOMAIN list, c \in Entries : new = Before(list, k, c)
    BY <1>1, AssignIsBefore
  <2>2. k \in 1 .. Len(list) /\ Len(list) \in Nat /\ DOMAIN list = 1 .. Len(list)
    BY ListType, LenProperties
  <2>3. /\ DOMAIN new = 1 .. Len(list) + 1 /\ Len(new) = Len(list) + 1
        /\ \A j \in 1 .. k - 1 : new[j] = list[j]
        /\ \A j \in k .. Len(list) : new[j + 1] = list[j]
    BY ONLY <2>1, BeforeIs, ZenonT(60), list \in Seq(Entries), k \in DOMAIN list, c \in Entries
  <2>4. new[Len(new)] = list[Len(list)]
    BY <2>2, <2>3
  <2>5. ASSUME NEW j \in 1 .. Len(list) PROVE list[j] \in Range(new)
    <3>1. CASE j < k
      BY <3>1, <2>2, <2>3 DEF Range
    <3>2. CASE ~(j < k)
      <4>1. j \in k .. Len(list) /\ j + 1 \in DOMAIN new
        BY <3>2, <2>2, <2>3
      <4> QED
        BY <4>1, <2>3 DEF Range
    <3> QED
      BY <3>1, <3>2
  <2> QED
    BY <2>2, <2>4, <2>5 DEF Range
<1>2. CASE ~Assignable(list, hint, length)
  BY <1>2 DEF InterfacePrefixAssign
<1> QED
  BY <1>1, <1>2
-----------------------------------------------------------------------------
LEMMA MultipleIs ==
  ASSUME NEW d \in Nat, NEW s \in Nat \ {0}
  PROVE  (d * s) % s = 0 /\ d * s \in Nat
<1>1. (d * s) % s = 0
  BY SMTT(30)
<1>2. d * s \in Nat
  BY SMTT(30)
<1> QED
  BY <1>1, <1>2

(* Rounding up with ~asize yields the next multiple. *)
LEMMA AlignIs ==
  ASSUME NEW at \in Nat, NEW size \in Nat \ {0}
  PROVE  /\ Align(at, size) \in Nat /\ Align(at, size) % size = 0
         /\ at <= Align(at, size) /\ Align(at, size) < at + size
<1> DEFINE x == at + size - 1
           d == x \div size
           r == x % size
<1>1. x \in Nat /\ x = size * d + r /\ r \in 0 .. size - 1 /\ d \in Nat
  BY SMTT(30)
<1>2. Align(at, size) = d * size
  BY DEF Align
<1> HIDE DEF d, r
<1>3. (d * size) % size = 0 /\ d * size \in Nat
  BY <1>1, MultipleIs
<1>4. at <= d * size /\ d * size < at + size
  BY <1>1, SMTT(30)
<1> QED
  BY <1>2, <1>3, <1>4

(* When an entry leaves room the interface gets what it asked for: a block  *)
(* of that length, aligned (interface_alloc cuts hints down so that they    *)
(* are), and at its hint if it has one.                                     *)
THEOREM AssignmentIsProper ==
  ASSUME NEW list \in Seq(Entries), NEW name, NEW hint, NEW length,
         Request(name, hint, length), Assignable(list, hint, length),
         hint # NoHint => hint % Size(length) = 0
  PROVE  \E c \in Range(InterfacePrefixAssign(list, name, hint, length)) :
           /\ c.name = name /\ c.length = length /\ Aligned(c)
           /\ hint # NoHint => c.at = hint
<1> DEFINE new == InterfacePrefixAssign(list, name, hint, length)
<1>1. PICK k \in DOMAIN list, c \in Entries :
        /\ new = Before(list, k, c)
        /\ c = Entry(name, Position(list, k, hint, length), length)
  BY AssignIsBefore
<1> HIDE DEF new
<1>2. c \in Range(new)
  <2>1. k \in 1 .. Len(list) + 1
    BY ListType
  <2>2. DOMAIN new = 1 .. Len(list) + 1 /\ new[k] = c
    BY <1>1, BeforeIs
  <2> QED
    BY <2>1, <2>2 DEF Range
<1>3. c.name = name /\ c.length = length /\ c.at = Position(list, k, hint, length)
  BY <1>1 DEF Entry
<1>4. Size(length) \in Nat \ {0} /\ Current(list, k) \in Nat
  BY SizeAssumption, CurrentType DEF Request
<1>5. Position(list, k, hint, length) % Size(length) = 0
  BY <1>4, AlignIs DEF Position
<1> QED
  BY <1>2, <1>3, <1>5 DEF Aligned, Position, new
=============================================================================
