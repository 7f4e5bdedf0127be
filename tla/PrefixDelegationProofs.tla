----------------------- MODULE PrefixDelegationProofs -----------------------
(***************************************************************************)
(* Proofs about PrefixDelegation.  First what a division makes of a prefix *)
(* (WellMade, Served, Hinted), by what each turn of its two loops adds to  *)
(* the list; then that the kernel's addresses and rules are those of the   *)
(* entries marked enabled, and that the marks follow the interfaces, by    *)
(* what withdrawing and announcing do to the marks.                        *)
(***************************************************************************)
EXTENDS PrefixDelegation, PrefixAssignProofs, FiniteSetTheorems

(***************************************************************************)
(* Numbers and loops                                                       *)
(***************************************************************************)

(* A set of numbers that is not empty has a least one. *)
LEMMA Least ==
  ASSUME NEW N \in SUBSET Nat, N # {}
  PROVE  \E k \in N : \A j \in N : k <= j
<1>1. PICK k \in N : \A j \in N : ~(<<j, k>> \in OpToRel(<, Nat))
  BY WFMin, NatLessThanWellFounded
<1>2. ASSUME NEW j \in N PROVE k <= j
  <2>1. j \in Nat /\ k \in Nat
    OBVIOUS
  <2>2. j < k => <<j, k>> \in OpToRel(<, Nat)
    BY <2>1 DEF OpToRel
  <2>3. ~(j < k)
    BY <1>1, <2>2, Zenon
  <2> QED BY <2>1, <2>3, SMT
<1> QED BY <1>2

(* One that has an upper bound has a greatest. *)
LEMMA Greatest ==
  ASSUME NEW N \in SUBSET Nat, N # {}, NEW B \in Nat, \A j \in N : j <= B
  PROVE  \E k \in N : \A j \in N : j <= k
<1> DEFINE U == {b \in Nat : \A j \in N : j <= b}
<1>1. PICK k \in U : \A b \in U : k <= b
  <2>1. U \in SUBSET Nat /\ U # {}
    OBVIOUS
  <2> HIDE DEF U
  <2> QED BY <2>1, Least
<1>2. k \in N
  <2>1. SUFFICES ASSUME k \notin N PROVE FALSE
    OBVIOUS
  <2>2. PICK j \in N : TRUE
    OBVIOUS
  <2>3. k \in Nat /\ j \in Nat /\ j <= k /\ j # k
    BY <2>1
  <2>4. k - 1 \in Nat
    BY <2>3
  <2>5. ASSUME NEW x \in N PROVE x <= k - 1
    <3>1. x \in Nat /\ x <= k /\ x # k
      BY <2>1
    <3> QED BY <2>3, <3>1
  <2>6. k - 1 \in U
    BY <2>4, <2>5
  <2>7. k <= k - 1
    BY <1>1, <2>6
  <2> QED BY <2>3, <2>7
<1> QED BY <1>1, <1>2

(* A loop takes the element `ch[u]` of u last, and what is left before it.  *)
Chooses(ch, D) == \A u \in SUBSET D : u # {} => ch[u] \in u
Left(ch, u) == u \ {ch[u]}

LEMMA LeftIs ==
  ASSUME NEW D, IsFiniteSet(D), NEW ch, Chooses(ch, D), NEW u \in SUBSET D, u # {}
  PROVE  /\ ch[u] \in u /\ Left(ch, u) \in SUBSET D
         /\ Cardinality(u) \in Nat \ {0}
         /\ Cardinality(Left(ch, u)) = Cardinality(u) - 1
<1>1. ch[u] \in u
  BY DEF Chooses
<1>2. IsFiniteSet(u)
  BY FS_Subset
<1>3. Cardinality(u) \in Nat /\ Cardinality(u) # 0
  BY <1>2, FS_CardinalityType, FS_EmptySet
<1>4. Cardinality(u \ {ch[u]}) = Cardinality(u) - 1
  BY <1>1, <1>2, FS_RemoveElement
<1> QED BY <1>1, <1>3, <1>4 DEF Left

(* A property of the start that every turn hands on holds at the end: G[u]  *)
(* is the set of what there may be when the elements of u have had theirs.  *)
LEMMA LoopReaches ==
  ASSUME NEW D, IsFiniteSet(D), NEW ch, Chooses(ch, D), NEW g, NEW G, g[{}] \in G[{}],
         \A u \in SUBSET D : u # {} /\ g[Left(ch, u)] \in G[Left(ch, u)] => g[u] \in G[u]
  PROVE  g[D] \in G[D]
<1> DEFINE Bad == {u \in SUBSET D : g[u] \notin G[u]}
           N == {Cardinality(u) : u \in Bad}
<1>1. CASE Bad = {}
  BY <1>1
<1>2. CASE Bad # {}
  <2>1. \A u \in Bad : Cardinality(u) \in Nat
    BY FS_Subset, FS_CardinalityType
  <2>2. N \in SUBSET Nat /\ N # {}
    BY <1>2, <2>1
  <2> HIDE DEF N
  <2>3. PICK k \in N : \A j \in N : k <= j
    BY <2>2, Least
  <2>4. PICK u \in Bad : k = Cardinality(u)
    BY DEF N
  <2>5. u # {} /\ u \in SUBSET D
    BY <2>4
  <2>6. /\ Left(ch, u) \in SUBSET D /\ Cardinality(u) \in Nat \ {0}
        /\ Cardinality(Left(ch, u)) = Cardinality(u) - 1
    BY <2>5, LeftIs
  <2>7. Cardinality(Left(ch, u)) \notin N
    BY <2>3, <2>4, <2>6
  <2>8. Left(ch, u) \notin Bad
    BY <2>7 DEF N
  <2>9. g[Left(ch, u)] \in G[Left(ch, u)]
    BY <2>6, <2>8
  <2> QED BY <2>4, <2>5, <2>9
<1> QED BY <1>1, <1>2

LEMMA SizeOfSubset ==
  ASSUME NEW D, IsFiniteSet(D), NEW u \in SUBSET D
  PROVE  /\ Cardinality(u) \in Nat /\ Cardinality(D) \in Nat
         /\ Cardinality(u) <= Cardinality(D)
         /\ Cardinality(u) = 0 <=> u = {}
<1>1. IsFiniteSet(u) /\ Cardinality(u) <= Cardinality(D)
  BY FS_Subset
<1> QED BY <1>1, FS_CardinalityType, FS_EmptySet

(* What a loop over D with F as its turn may go through, from b on: it      *)
(* stays in G.                                                              *)
Courses(D, ch, G, F, b) ==
  {h \in [SUBSET D -> UNION {G[u] : u \in SUBSET D}] :
     \A u \in SUBSET D :
       h[u] \in G[u] /\ h[u] = IF u = {} THEN b ELSE F[ch[u]][h[Left(ch, u)]]}

(* A loop whose turns stay in G runs through. *)
LEMMA LoopRuns ==
  ASSUME NEW D, IsFiniteSet(D), NEW ch, Chooses(ch, D), NEW G, NEW F, NEW b, b \in G[{}],
         \A u \in SUBSET D : u # {} =>
           \A t \in G[Left(ch, u)] : F[ch[u]][t] \in G[u]
  PROVE  Courses(D, ch, G, F, b) # {}
<1> DEFINE Upto(n) == {u \in SUBSET D : Cardinality(u) <= n}
           Run(h, n) == \A u \in Upto(n) :
             h[u] \in G[u] /\ h[u] = IF u = {} THEN b ELSE F[ch[u]][h[Left(ch, u)]]
           Bad == {n \in Nat : ~\E h : Run(h, n)}
<1>2. Bad = {}
  <2> SUFFICES ASSUME Bad # {} PROVE FALSE
    OBVIOUS
  <2>1. PICK n \in Bad : \A j \in Bad : n <= j
    <3>1. Bad \in SUBSET Nat
      OBVIOUS
    <3> HIDE DEF Bad
    <3> QED BY <3>1, Least
  <2>2. CASE n = 0
    <3> DEFINE h == [u \in {{}} |-> b]
    <3>1. Run(h, 0)
      <4> SUFFICES ASSUME NEW u \in Upto(0)
                   PROVE  h[u] \in G[u] /\ h[u] = IF u = {} THEN b ELSE F[ch[u]][h[Left(ch, u)]]
        OBVIOUS
      <4>0. u \in SUBSET D /\ Cardinality(u) <= 0
        OBVIOUS
      <4>2. Cardinality(u) \in Nat
        BY <4>0, SizeOfSubset
      <4>3. Cardinality(u) = 0
        BY <4>0, <4>2, SMT
      <4>1. u = {}
        BY <4>0, <4>3, SizeOfSubset
      <4> QED BY <4>1
    <3> QED BY <2>2, <3>1
  <2>3. CASE n # 0
    <3>5. n \in Nat
      OBVIOUS
    <3>6. n - 1 \in Nat /\ ~(n <= n - 1)
      BY <2>3, <3>5, SMT
    <3>7. n - 1 \notin Bad
      <4> HIDE DEF Bad
      <4> QED BY <2>1, <3>6
    <3>1. n \in Nat /\ n - 1 \in Nat /\ n - 1 \notin Bad
      BY <3>5, <3>6, <3>7
    <3>2. PICK h : Run(h, n - 1)
      BY <3>1
    <3> DEFINE m == [u \in Upto(n) |->
                       IF u \in Upto(n - 1) THEN h[u] ELSE F[ch[u]][h[Left(ch, u)]]]
    <3>3. ASSUME NEW u \in Upto(n)
          PROVE  m[u] \in G[u] /\ m[u] = IF u = {} THEN b ELSE F[ch[u]][m[Left(ch, u)]]
      <4>1. CASE u = {}
        <5>0. u \in SUBSET D /\ Cardinality(u) = 0
          BY <4>1, SizeOfSubset
        <5>1. Cardinality(u) <= n - 1
          BY <3>1, <5>0, SMT
        <5> QED BY <3>2, <4>1, <5>1
      <4>2. CASE u # {}
        <5>1. /\ Left(ch, u) \in SUBSET D /\ Cardinality(u) \in Nat \ {0}
              /\ Cardinality(Left(ch, u)) = Cardinality(u) - 1
          BY <4>2, LeftIs
        <5>2. Left(ch, u) \in Upto(n - 1) /\ Left(ch, u) \in Upto(n)
          BY <3>1, <5>1
        <5>3. m[Left(ch, u)] = h[Left(ch, u)] /\ h[Left(ch, u)] \in G[Left(ch, u)]
          BY <3>2, <5>2
        <5>4. m[u] = F[ch[u]][h[Left(ch, u)]]
          BY <3>2, <4>2
        <5> QED BY <4>2, <5>3, <5>4
      <4> QED BY <4>1, <4>2
    <3>4. Run(m, n)
      BY <3>3
    <3> HIDE DEF m, Run
    <3> QED BY <3>4
  <2> QED BY <2>2, <2>3
<1>3. PICK h : Run(h, Cardinality(D))
  <2>1. Cardinality(D) \in Nat
    BY FS_CardinalityType
  <2> HIDE DEF Run
  <2> QED BY <1>2, <2>1
<1> DEFINE c == [u \in SUBSET D |-> h[u]]
<1>4. ASSUME NEW u \in SUBSET D
      PROVE  /\ c[u] \in G[u]
             /\ c[u] = IF u = {} THEN b ELSE F[ch[u]][c[Left(ch, u)]]
  <2>0. u \in SUBSET D /\ Cardinality(u) <= Cardinality(D)
    BY SizeOfSubset
  <2>1. u \in Upto(Cardinality(D))
    BY <2>0
  <2>2. u # {} => Left(ch, u) \in SUBSET D
    BY DEF Left
  <2> QED BY <1>3, <2>1, <2>2
<1>5. c \in [SUBSET D -> UNION {G[u] : u \in SUBSET D}]
  BY <1>4
<1>6. c \in Courses(D, ch, G, F, b)
  <2> HIDE DEF c
  <2> QED BY <1>4, <1>5 DEF Courses
<1> QED BY <1>6

(***************************************************************************)
(* Lists of assignments                                                    *)
(***************************************************************************)

LEMMA NamesAre ==
  /\ Names \in SUBSET Nat /\ SENTINEL \notin Names /\ EXCLUDED \notin Names
  /\ Names \in SUBSET Int /\ SENTINEL # EXCLUDED /\ SENTINEL \in Int /\ EXCLUDED \in Int
BY DelegationAssumption DEF Names, SENTINEL, EXCLUDED

LEMMA SizeIs ==
  ASSUME NEW l \in Lengths
  PROVE  Size(l) \in Nat /\ Size(l) > 0
BY SizeAssumption

LEMMA EntryIs ==
  ASSUME NEW c \in Entries
  PROVE  /\ c.name \in Int /\ c.at \in Nat /\ c.length \in Lengths /\ c.enabled \in BOOLEAN
         /\ End(c) \in Nat /\ c.at < End(c) /\ End(c) = c.at + Size(c.length)
BY EndType DEF Entries, End

(* The list of a prefix of length `len`: apart, sorted, one entry a name,   *)
(* a sentinel where the prefix ends, and proper prefixes for interfaces.    *)
WellMade(L, len) ==
  /\ L \in Seq(Entries) /\ L # << >> /\ Disjoint(L)
  /\ L[Len(L)].name = SENTINEL /\ L[Len(L)].at = Size(len)
  /\ \A c \in Range(L) : c.name \in Names \cup {SENTINEL, EXCLUDED}
  /\ \A c \in Range(L) : c.name \in Names => Aligned(c)
  /\ \A c, d \in Range(L) : c.name = d.name => c = d

(* One entry more, before the k-th. *)
LEMMA BeforeRange ==
  ASSUME NEW L \in Seq(Entries), NEW k \in DOMAIN L, NEW c \in Entries,
         NEW M, M = Before(L, k, c)
  PROVE  /\ M \in Seq(Entries) /\ M # << >> /\ Len(M) = Len(L) + 1
         /\ Range(M) = Range(L) \cup {c}
         /\ M[Len(L) + 1] = L[Len(L)]
<1>1. k \in 1 .. Len(L) /\ Len(L) \in Nat /\ DOMAIN L = 1 .. Len(L)
  BY ListType, LenProperties
<1>2. /\ M \in Seq(Entries) /\ DOMAIN M = 1 .. Len(L) + 1 /\ Len(M) = Len(L) + 1
      /\ \A j \in 1 .. k - 1 : M[j] = L[j]
      /\ M[k] = c
      /\ \A j \in k .. Len(L) : M[j + 1] = L[j]
  BY BeforeIs, ZenonT(60)
<1>3. M # << >>
  BY <1>1, <1>2
<1>4. ASSUME NEW j \in 1 .. Len(L) PROVE L[j] \in Range(M)
  <2>1. CASE j < k
    BY <2>1, <1>1, <1>2 DEF Range
  <2>2. CASE ~(j < k)
    <3>1. j \in k .. Len(L) /\ j + 1 \in DOMAIN M
      BY <2>2, <1>1, <1>2
    <3> QED BY <3>1, <1>2 DEF Range
  <2> QED BY <2>1, <2>2
<1>5. c \in Range(M)
  BY <1>1, <1>2 DEF Range
<1>6. ASSUME NEW j \in 1 .. Len(L) + 1 PROVE M[j] \in Range(L) \cup {c}
  <2>1. CASE j < k
    BY <2>1, <1>1, <1>2 DEF Range
  <2>2. CASE j = k
    BY <2>2, <1>2
  <2>3. CASE j > k
    <3>1. j - 1 \in k .. Len(L) /\ j - 1 \in DOMAIN L /\ (j - 1) + 1 = j
      BY <2>3, <1>1
    <3>2. M[j] = L[j - 1]
      BY <3>1, <1>2
    <3> QED BY <3>1, <3>2 DEF Range
  <2> QED BY <1>1, <2>1, <2>2, <2>3
<1>7. M[Len(L) + 1] = L[Len(L)]
  BY <1>1, <1>2
<1>8. Range(M) = Range(L) \cup {c}
  BY <1>1, <1>2, <1>4, <1>5, <1>6 DEF Range
<1> QED BY <1>2, <1>3, <1>7, <1>8

LEMMA RangeEntries ==
  ASSUME NEW L \in Seq(Entries)
  PROVE  /\ \A c \in Range(L) : c \in Entries
         /\ \A c \in Range(L) : \E k \in DOMAIN L : c = L[k]
         /\ \A k \in DOMAIN L : L[k] \in Range(L)
         /\ DOMAIN L = 1 .. Len(L) /\ Len(L) \in Nat
BY ElementOfSeq, LenProperties DEF Range

(* The loop of interface_prefix_assign for one that has no entry yet.       *)
LEMMA BeforeWellMade ==
  ASSUME NEW L \in Seq(Entries), NEW len \in Lengths, WellMade(L, len), NEW k \in DOMAIN L,
         NEW c \in Entries, Current(L, k) <= c.at, End(c) <= L[k].at,
         c.name \in Names, Aligned(c), \A d \in Range(L) : d.name # c.name,
         NEW M, M = Before(L, k, c)
  PROVE  WellMade(M, len)
<1>1. L \in Seq(Entries) /\ Disjoint(L)
  BY DEF WellMade
<1>2. /\ M \in Seq(Entries) /\ M # << >> /\ Len(M) = Len(L) + 1
      /\ Range(M) = Range(L) \cup {c} /\ M[Len(L) + 1] = L[Len(L)]
  <2>1. M \in Seq(Entries) /\ M # << >> /\ Len(M) = Len(L) + 1
    BY BeforeRange
  <2>2. Range(M) = Range(L) \cup {c}
    BY BeforeRange
  <2>3. M[Len(L) + 1] = L[Len(L)]
    BY BeforeRange
  <2> QED BY <2>1, <2>2, <2>3
<1>3. Disjoint(M)
  <2>1. Disjoint(Before(L, k, c))
    BY <1>1, BeforeDisjoint, ZenonT(60)
  <2> QED BY <2>1
<1> QED BY <1>2, <1>3 DEF WellMade

(* Where there is room, the walk along the list stops at an entry that has  *)
(* it in front.                                                             *)
Crowded(L, i, at, l) ==
  \E c \in Range(L) : c.name \notin {SENTINEL, i} /\ Overlap(c, at, l)

LEMMA RoomIsFound ==
  ASSUME NEW L \in Seq(Entries), NEW len \in Lengths, WellMade(L, len),
         NEW l \in Lengths, NEW at \in Nat,
         at + Size(l) <= Size(len), NEW i, \A c \in Range(L) : c.name # i,
         ~Crowded(L, i, at, l)
  PROVE  \E k \in DOMAIN L : Current(L, k) <= at /\ at + Size(l) - 1 < L[k].at
<1> DEFINE N == {k \in DOMAIN L : at + Size(l) <= L[k].at}
<1>1. /\ L \in Seq(Entries) /\ L # << >> /\ Disjoint(L)
      /\ L[Len(L)].name = SENTINEL /\ L[Len(L)].at = Size(len)
      /\ \A c, d \in Range(L) : c.name = d.name => c = d
  BY DEF WellMade
<1>2. DOMAIN L = 1 .. Len(L) /\ Len(L) \in Nat /\ Len(L) > 0
  <2>1. DOMAIN L = 1 .. Len(L) /\ Len(L) \in Nat
    BY <1>1, RangeEntries
  <2>2. Len(L) # 0
    BY <1>1, EmptySeq
  <2> QED BY <2>1, <2>2
<1>3. Len(L) \in N /\ N \in SUBSET Nat
  BY <1>1, <1>2
<1>4. PICK k \in N : \A j \in N : k <= j
  <2> HIDE DEF N
  <2> QED BY <1>3, Least
<1>5. \A j \in DOMAIN L : /\ L[j].at \in Nat /\ End(L[j]) \in Nat /\ L[j].at < End(L[j])
                          /\ L[j] \in Range(L) /\ L[j] \in Entries
  BY <1>1, RangeEntries, EntryIs
<1>6. Size(l) \in Nat /\ Size(l) > 0 /\ Size(len) \in Nat
  BY SizeIs
<1>7. at + Size(l) - 1 < L[k].at /\ k \in DOMAIN L
  BY <1>5, <1>6
<1>8. CASE k = 1
  BY <1>7, <1>8 DEF Current
<1>9. CASE k # 1
  <2>1. k \in 1 .. Len(L) /\ k - 1 \in 1 .. Len(L) - 1 /\ k - 1 \in DOMAIN L /\ ~(k <= k - 1)
    BY <1>2, <1>7, <1>9
  <2>2. L[k - 1].at < at + Size(l)
    BY <1>4, <1>5, <1>6, <2>1
  <2>3. L[k - 1].name # SENTINEL
    <3>1. End(L[k - 1]) <= L[Len(L)].at
      BY <1>1, <1>2, <2>1 DEF Disjoint
    <3>2. L[k - 1] # L[Len(L)]
      BY <1>2, <1>5, <2>1, <3>1
    <3>3. Len(L) \in DOMAIN L
      BY <1>2
    <3> QED BY <1>1, <1>5, <2>1, <3>2, <3>3
  <2>4. L[k - 1].name \notin {SENTINEL, i}
    BY <1>5, <2>1, <2>3
  <2>5. ~Overlap(L[k - 1], at, l)
    BY <1>5, <2>1, <2>4 DEF Crowded
  <2>6. End(L[k - 1]) <= at
    BY <1>5, <1>6, <2>1, <2>2, <2>5 DEF Overlap
  <2>7. Current(L, k) = End(L[k - 1])
    BY <1>9 DEF Current
  <2> QED BY <1>7, <2>6, <2>7
<1> QED BY <1>8, <1>9

(* What an assignment makes of the list: nothing if no entry leaves room,   *)
(* or else one entry more, of the length asked for.                         *)
LEMMA AssignWellMade ==
  ASSUME NEW L \in Seq(Entries), NEW len \in Lengths, WellMade(L, len), NEW i \in Names,
         \A d \in Range(L) : d.name # i, NEW hint \in Nat \cup {NoHint}, NEW l \in Lengths,
         hint # NoHint => hint % Size(l) = 0,
         NEW M, M = InterfacePrefixAssign(L, i, hint, l), Assignable(L, hint, l)
  PROVE  /\ WellMade(M, len)
         /\ \E c \in Entries : /\ c.name = i /\ c.length = l /\ ~c.enabled
                               /\ hint # NoHint => c.at = hint
                               /\ Range(M) = Range(L) \cup {c}
<1>1. Request(i, hint, l)
  BY NamesAre DEF Request
<1>2. PICK k \in DOMAIN L, c \in Entries :
        /\ M = Before(L, k, c) /\ Current(L, k) <= c.at /\ End(c) <= L[k].at
        /\ c = Entry(i, Position(L, k, hint, l), l)
  BY <1>1, AssignIsBefore
<1>3. c.name = i /\ c.length = l /\ ~c.enabled /\ c.at = Position(L, k, hint, l)
  BY <1>2 DEF Entry
<1>4. Size(l) \in Nat \ {0} /\ Current(L, k) \in Nat
  BY SizeAssumption, CurrentType
<1>5. Position(L, k, hint, l) % Size(l) = 0
  BY <1>4, AlignIs DEF Position
<1>6. Aligned(c)
  BY <1>3, <1>5 DEF Aligned
<1>7. WellMade(M, len)
  BY <1>2, <1>3, <1>6, BeforeWellMade
<1>8. Range(M) = Range(L) \cup {c}
  BY <1>2, BeforeRange
<1>9. hint # NoHint => c.at = hint
  BY <1>3 DEF Position
<1> QED BY <1>3, <1>7, <1>8, <1>9

LEMMA AlignLeast ==
  ASSUME NEW at \in Nat, NEW s \in Nat \ {0}, NEW b \in Nat, at <= b * s
  PROVE  Align(at, s) <= b * s
<1> DEFINE x == at + s - 1
           d == x \div s
<1>1. d \in Nat /\ x \in Nat /\ d * s <= x
  BY SMTT(30)
<1>2. Align(at, s) = d * s
  BY DEF Align
<1>3. x < b * s + s
  <2>1. b * s \in Nat
    BY SMTT(30)
  <2> QED BY <2>1
<1> HIDE DEF x, d
<1>4. d <= b
  <2>1. SUFFICES ASSUME b + 1 <= d PROVE FALSE
    BY <1>1
  <2>2. (b + 1) * s <= d * s
    BY <2>1, <1>1, SMTT(30)
  <2>3. (b + 1) * s = b * s + s
    BY SMTT(30)
  <2> QED BY <1>1, <1>3, <2>2, <2>3, SMTT(30)
<1>5. d * s <= b * s
  BY <1>1, <1>4, SMTT(30)
<1> QED BY <1>2, <1>5

(* All blocks of a length are taken, by others than i. *)
Full(L, len, i, l) ==
  \A b \in Nat : b * Size(l) + Size(l) <= Size(len) => Crowded(L, i, b * Size(l), l)

LEMMA NotAssignableFull ==
  ASSUME NEW L \in Seq(Entries), NEW len \in Lengths, WellMade(L, len), NEW i,
         \A d \in Range(L) : d.name # i, NEW l \in Lengths, ~Assignable(L, NoHint, l)
  PROVE  Full(L, len, i, l)
<1>1. SUFFICES ASSUME NEW b \in Nat, b * Size(l) + Size(l) <= Size(len),
                      ~Crowded(L, i, b * Size(l), l)
               PROVE  FALSE
  BY DEF Full
<1>2. Size(l) \in Nat \ {0}
  BY SizeAssumption
<1>3. PICK at \in Nat : at = b * Size(l)
  BY <1>2, MultipleIs
<1>4. PICK k \in DOMAIN L : Current(L, k) <= at /\ at + Size(l) - 1 < L[k].at
  BY <1>1, <1>3, RoomIsFound
<1>5. Current(L, k) \in Nat /\ L[k].at \in Nat
  <2>1. L[k].at \in Nat
    BY ListType, EndType
  <2> QED BY <2>1, CurrentType
<1>6. Position(L, k, NoHint, l) = Align(Current(L, k), Size(l))
  BY DEF Position
<1>7. Align(Current(L, k), Size(l)) <= at
  BY <1>2, <1>3, <1>4, <1>5, AlignLeast
<1>8. /\ Align(Current(L, k), Size(l)) \in Nat
      /\ Current(L, k) <= Align(Current(L, k), Size(l))
  BY <1>2, <1>5, AlignIs
<1>9. Fits(L, k, NoHint, l)
  BY <1>2, <1>4, <1>5, <1>6, <1>7, <1>8 DEF Fits
<1> QED BY <1>9 DEF Assignable

LEMMA NotAtHint ==
  ASSUME NEW L \in Seq(Entries), NEW len \in Lengths, WellMade(L, len), NEW i,
         \A d \in Range(L) : d.name # i, NEW l \in Lengths, NEW hint \in Nat,
         ~Assignable(L, hint, l)
  PROVE  hint + Size(l) > Size(len) \/ Crowded(L, i, hint, l)
<1>1. SUFFICES ASSUME hint + Size(l) <= Size(len), ~Crowded(L, i, hint, l)
               PROVE  FALSE
  BY SizeIs
<1>2. PICK k \in DOMAIN L : Current(L, k) <= hint /\ hint + Size(l) - 1 < L[k].at
  BY <1>1, RoomIsFound
<1>3. hint # NoHint
  BY DEF NoHint
<1>4. Fits(L, k, hint, l)
  BY <1>2, <1>3 DEF Fits, Position
<1> QED BY <1>4 DEF Assignable

(***************************************************************************)
(* A division                                                              *)
(***************************************************************************)

(* An interface with a wish got a block as large, or all of them were       *)
(* taken, and so for every smaller one up to what it got.                   *)
Served(L, len, i, length) ==
  \A l \in length .. 64 :
    (\A c \in Range(L) : c.name = i => l < c.length) => Full(L, len, i, l)

(* A wish for a place is granted, or something is in its way that may be.   *)
AtHint(x) == [name |-> x.name, at |-> x.cfg.hint, length |-> x.cfg.length]
Given(L, x) ==
  \E c \in Range(L) : c.name = x.name /\ c.at = x.cfg.hint /\ c.length = x.cfg.length
Hinted(L, len, asked, x) ==
  x.cfg.hint # NoHint =>
    \/ Given(L, x)
    \/ x.cfg.hint + Size(x.cfg.length) > Size(len)
    \/ \E c \in Range(L) : c.name = EXCLUDED /\ Overlap(c, x.cfg.hint, x.cfg.length)
    \/ \E y \in asked : /\ y.name < x.name /\ y.cfg.hint # NoHint /\ Given(L, y)
                        /\ Overlap(AtHint(y), x.cfg.hint, x.cfg.length)

(* Both stay so as the list grows. *)
LEMMA ServedGrows ==
  ASSUME NEW L, NEW M, Range(L) \subseteq Range(M), NEW len, NEW i, NEW length,
         Served(L, len, i, length), \A c \in Range(M) : c.name = i => c \in Range(L)
  PROVE  Served(M, len, i, length)
BY DEF Served, Full, Crowded

LEMMA HintedGrows ==
  ASSUME NEW L, NEW M, Range(L) \subseteq Range(M), NEW len, NEW asked, NEW x,
         Hinted(L, len, asked, x)
  PROVE  Hinted(M, len, asked, x)
<1>1. \A y : Given(L, y) => Given(M, y)
  BY DEF Given
<1> QED BY <1>1 DEF Hinted

(* What an interface may be configured to, and what a prefix may keep out.  *)
LEMMA ConfigIs ==
  ASSUME NEW c \in Configs
  PROVE  /\ c.length \in Nat /\ c.hint \in Nat \cup {NoHint} /\ c.weight \in Nat
         /\ c.hint # NoHint /\ c.length \in Lengths => c.hint % Size(c.length) = 0
<1>1. c.length \in Nat /\ c.hint \in Nat \cup {NoHint} /\ c.weight \in Nat
  BY DelegationAssumption
<1>2. ASSUME c.hint # NoHint, c.length \in Lengths PROVE c.hint % Size(c.length) = 0
  <2>1. PICK r : r = c.hint % Size(c.length)
    OBVIOUS
  <2>2. c.hint = c.hint - r
    <3>1. c.hint = IP6Hint(c.hint, c.length)
      BY DelegationAssumption
    <3> QED BY <1>2, <2>1, <3>1 DEF IP6Hint
  <2>3. Size(c.length) \in Nat \ {0} /\ c.hint \in Nat
    BY <1>1, <1>2, SizeAssumption
  <2>4. r \in Int
    BY <2>1, <2>3
  <2>5. r = 0
    BY ONLY <2>2, <2>3, <2>4
  <2> QED BY <2>1, <2>5
<1> QED BY <1>1, <1>2

ExclFits(pf) ==
  pf.excl.length > 0 => pf.excl.length > pf.length /\ pf.excl.at < Size(pf.length)

LEMMA MultiplesApart ==
  ASSUME NEW a \in Nat, NEW b \in Nat, NEW s \in Nat \ {0}, a % s = 0, b % s = 0, a < b
  PROVE  a + s <= b
<1> DEFINE x == a \div s
           y == b \div s
<1>1. x \in Nat /\ y \in Nat /\ a = s * x /\ b = s * y
  BY SMTT(30)
<1> HIDE DEF x, y
<1>2. x < y
  <2>1. SUFFICES ASSUME y <= x PROVE FALSE
    BY <1>1
  <2>2. s * y <= s * x
    BY <2>1, <1>1, SMTT(30)
  <2> QED BY <1>1, <2>2
<1>3. s * (x + 1) <= s * y
  BY <1>1, <1>2, SMTT(30)
<1>4. s * (x + 1) = s * x + s
  BY <1>1, SMTT(30)
<1> QED BY <1>1, <1>3, <1>4

LEMMA EmptyListIs ==
  ASSUME NEW pf, pf.length \in Lengths, pf.excl \in Exclusions, ExclFits(pf),
         NEW L, L = EmptyList(pf)
  PROVE  /\ WellMade(L, pf.length)
         /\ \A c \in Range(L) : c.name \in {SENTINEL, EXCLUDED} /\ ~c.enabled
<1> DEFINE end == Entry(SENTINEL, Size(pf.length), 64)
           x == Entry(EXCLUDED, pf.excl.at, pf.excl.length)
<1>1. /\ end \in Entries /\ end.name = SENTINEL /\ end.at = Size(pf.length)
      /\ ~end.enabled
  BY SizeIs, NamesAre DEF Entry, Entries, Lengths
<1>2. CASE ~(pf.excl.length > 0)
  <2>1. L = <<end>>
    BY <1>2 DEF EmptyList
  <2> HIDE DEF end
  <2>2. L \in Seq(Entries) /\ Len(L) = 1 /\ L[1] = end /\ DOMAIN L = 1 .. 1 /\ L # << >>
    BY <1>1, <2>1
  <2>3. Range(L) = {end}
    BY <2>2 DEF Range
  <2>4. Disjoint(L)
    BY <2>2 DEF Disjoint
  <2> QED BY <1>1, <2>2, <2>3, <2>4, NamesAre DEF WellMade
<1>3. CASE pf.excl.length > 0
  <2>1. L = <<x, end>>
    BY <1>3 DEF EmptyList
  <2>2. pf.excl # NoExclusion
    BY <1>3 DEF NoExclusion
  <2>3. pf.excl.length \in Lengths /\ pf.excl.at \in Nat /\ Aligned(pf.excl)
    BY <2>2, DelegationAssumption
  <2>4. x \in Entries /\ x.name = EXCLUDED /\ ~x.enabled
    BY <2>3, NamesAre DEF Entry, Entries
  <2>5. End(x) <= end.at
    <3>1. pf.excl.at < Size(pf.length) /\ pf.length <= pf.excl.length
      BY <1>3, <2>3 DEF ExclFits, Lengths
    <3>2. Size(pf.length) % Size(pf.excl.length) = 0
      BY <2>3, <3>1, SizeAssumption
    <3>3. pf.excl.at % Size(pf.excl.length) = 0
      BY <2>3 DEF Aligned
    <3>4. Size(pf.length) \in Nat /\ Size(pf.excl.length) \in Nat \ {0}
      BY <2>3, SizeAssumption
    <3>5. pf.excl.at + Size(pf.excl.length) <= Size(pf.length)
      BY <2>3, <3>1, <3>2, <3>3, <3>4, MultiplesApart
    <3> QED BY <1>1, <3>5 DEF End, Entry
  <2> HIDE DEF end, x
  <2>6. /\ L \in Seq(Entries) /\ Len(L) = 2 /\ L[1] = x /\ L[2] = end
        /\ DOMAIN L = 1 .. 2 /\ L # << >>
    BY <1>1, <2>1, <2>4
  <2>7. Range(L) = {x, end}
    BY <2>6 DEF Range
  <2>8. Disjoint(L)
    BY <2>5, <2>6 DEF Disjoint
  <2> QED BY <1>1, <2>4, <2>6, <2>7, <2>8, NamesAre DEF WellMade
<1> QED BY <1>2, <1>3

(* What a division is made from.                                            *)
Divisible(n, p) ==
  /\ n.ifs \in [Names -> IfState]
  /\ n.pfx[p].length \in Lengths /\ n.pfx[p].excl \in Exclusions /\ ExclFits(n.pfx[p])

LEMMA WantingIs ==
  ASSUME NEW n, n.ifs \in [Names -> IfState], NEW p, NEW i \in Wanting(n, p)
  PROVE  /\ i \in Names /\ n.ifs[i].cfg \in Configs
         /\ n.ifs[i].cfg.length \in 48 .. 64 /\ n.ifs[i].cfg.length \in Lengths
         /\ n.ifs[i].cfg.weight \in Nat /\ n.ifs[i].cfg.hint \in Nat \cup {NoHint}
         /\ n.ifs[i].cfg.hint # NoHint => n.ifs[i].cfg.hint % Size(n.ifs[i].cfg.length) = 0
<1>1. i \in Names /\ n.ifs[i].cfg \in Configs /\ n.ifs[i].cfg.length \in 48 .. 64
  BY DEF Wanting, IfState
<1>2. n.ifs[i].cfg.length \in Lengths
  BY <1>1 DEF Lengths
<1> QED BY <1>1, <1>2, ConfigIs

(* The two orders have a last element. *)
LEMMA MaxIs ==
  ASSUME NEW u \in SUBSET Names, u # {}
  PROVE  Max(u) \in u /\ \A j \in u : j <= Max(u)
<1>1. u \in SUBSET Nat /\ NumIfaces \in Nat /\ \A j \in u : j <= NumIfaces
  BY NamesAre, DelegationAssumption DEF Names
<1>2. \E k \in u : \A j \in u : j <= k
  BY <1>1, Greatest
<1>3. \E k \in u : \A j \in u : k >= j
  BY <1>1, <1>2
<1>4. Max(u) \in u /\ \A j \in u : Max(u) >= j
  BY <1>3 DEF Max
<1> QED BY <1>1, <1>4

LEMMA LastIs ==
  ASSUME NEW n, n.ifs \in [Names -> IfState], NEW p, NEW u \in SUBSET Wanting(n, p), u # {}
  PROVE  LastOf(n, u) \in u
<1> DEFINE len(i) == n.ifs[i].cfg.length
           wgt(i) == n.ifs[i].cfg.weight
<1>1. \A i \in u : i \in Names /\ len(i) \in Nat /\ len(i) <= 64 /\ wgt(i) \in Nat /\ i \in Nat
  <2>1. ASSUME NEW i \in u
        PROVE  i \in Names /\ len(i) \in 48 .. 64 /\ wgt(i) \in Nat /\ i \in Nat
    <3>1. i \in Wanting(n, p)
      OBVIOUS
    <3>2. i \in Names /\ len(i) \in 48 .. 64 /\ wgt(i) \in Nat
      BY <3>1, WantingIs
    <3> QED BY <3>2, NamesAre
  <2> HIDE DEF len, wgt
  <2> QED BY <2>1
<1> DEFINE less(i, j) == \/ len(i) < len(j)
                         \/ len(i) = len(j) /\ wgt(i) > wgt(j)
                         \/ len(i) = len(j) /\ wgt(i) = wgt(j) /\ i < j
<1>2. \A i, j : PrefixAssignmentLess(n, i, j) <=> less(i, j)
  BY DEF PrefixAssignmentLess
<1> HIDE DEF len, wgt
<1>3. PICK l \in u : \A j \in u : len(j) <= len(l)
  <2>1. {len(i) : i \in u} \in SUBSET Nat /\ {len(i) : i \in u} # {}
    BY <1>1
  <2>2. \A x \in {len(i) : i \in u} : x <= 64
    BY <1>1
  <2>3. PICK k \in {len(i) : i \in u} : \A x \in {len(i) : i \in u} : x <= k
    BY <2>1, <2>2, Greatest
  <2> QED BY <2>3
<1> DEFINE v == {i \in u : len(i) = len(l)}
<1>4. PICK w \in v : \A j \in v : wgt(w) <= wgt(j)
  <2>1. {wgt(i) : i \in v} \in SUBSET Nat /\ {wgt(i) : i \in v} # {}
    BY <1>1
  <2>2. PICK k \in {wgt(i) : i \in v} : \A x \in {wgt(i) : i \in v} : k <= x
    BY <2>1, Least
  <2> QED BY <2>2
<1> DEFINE x == {i \in v : wgt(i) = wgt(w)}
<1>5. PICK m \in x : \A j \in x : j <= m
  <2>1. x \in SUBSET Nat /\ x # {} /\ NumIfaces \in Nat /\ \A j \in x : j <= NumIfaces
    BY <1>1, DelegationAssumption DEF Names
  <2> HIDE DEF x
  <2> QED BY <2>1, Greatest
<1>6. ASSUME NEW j \in u \ {m} PROVE less(j, m)
  <2>1. /\ m \in u /\ len(m) = len(l) /\ wgt(m) = wgt(w)
        /\ len(j) <= len(m) /\ len(j) \in Nat /\ len(m) \in Nat
        /\ wgt(j) \in Nat /\ wgt(m) \in Nat /\ j \in Nat /\ m \in Nat /\ j # m
    BY <1>1, <1>3
  <2>2. CASE len(j) < len(m)
    BY <2>2
  <2>3. CASE len(j) = len(m) /\ wgt(j) # wgt(m)
    <3>1. wgt(m) <= wgt(j)
      BY <1>4, <2>1, <2>3
    <3> QED BY <2>1, <2>3, <3>1
  <2>4. CASE len(j) = len(m) /\ wgt(j) = wgt(m)
    <3>1. j <= m
      BY <1>5, <2>1, <2>4
    <3> QED BY <2>1, <2>4, <3>1
  <2> QED BY <2>1, <2>2, <2>3, <2>4
<1>7. m \in u
  BY <1>5
<1> HIDE DEF less
<1>8. \E i \in u : \A j \in u \ {i} : PrefixAssignmentLess(n, j, i)
  BY <1>2, <1>6, <1>7
<1> QED BY <1>8 DEF LastOf

(***************************************************************************)
(* The first loop, at the hints                                            *)
(***************************************************************************)

Wish(n, i) == [name |-> i, cfg |-> n.ifs[i].cfg]
Asked(n, p) == {Wish(n, i) : i \in Wanting(n, p)}
Hinting(n, p) == {i \in Wanting(n, p) : n.ifs[i].cfg.hint # NoHint}

(* The lists there may be when those in u have had their turn.              *)
InPlace(n, u, c) ==
  /\ ~c.enabled
  /\ \/ c.name \in {SENTINEL, EXCLUDED}
     \/ c.name \in u /\ c.at = n.ifs[c.name].cfg.hint /\ c.length = n.ifs[c.name].cfg.length
AtHints(n, p, u) ==
  {L \in Seq(Entries) :
     /\ WellMade(L, n.pfx[p].length) /\ \A c \in Range(L) : InPlace(n, u, c)
     /\ \A i \in u : Hinted(L, n.pfx[p].length, Asked(n, p), Wish(n, i))}

LEMMA NamesFinite ==
  ASSUME NEW D \in SUBSET Names
  PROVE  IsFiniteSet(D)
<1>1. IsFiniteSet(Names)
  BY DelegationAssumption, FS_Interval DEF Names
<1> QED BY <1>1, FS_Subset

LEMMA HintTurn ==
  ASSUME NEW n, NEW p, Divisible(n, p), NEW u \in SUBSET Hinting(n, p), u # {},
         NEW i, i = Max(u), NEW L \in AtHints(n, p, u \ {i}),
         NEW M, M = AssignAtHint(n, L, i)
  PROVE  M \in AtHints(n, p, u)
<1> DEFINE len == n.pfx[p].length
           hint == n.ifs[i].cfg.hint
           l == n.ifs[i].cfg.length
           asked == Asked(n, p)
<1>1. /\ i \in u /\ \A j \in u : j <= i
      /\ \A j \in u : j \in Names /\ j \in Wanting(n, p) /\ n.ifs[j].cfg.hint # NoHint
  <2>1. u \in SUBSET Names
    BY DEF Hinting, Wanting
  <2> QED BY <2>1, MaxIs DEF Hinting
<1>2. /\ i \in Names /\ hint \in Nat /\ hint # NoHint /\ l \in Lengths /\ len \in Lengths
      /\ hint % Size(l) = 0
  <2>1. n.ifs \in [Names -> IfState] /\ len \in Lengths
    BY DEF Divisible
  <2> QED BY <1>1, <2>1, WantingIs
<1>3. /\ L \in Seq(Entries) /\ WellMade(L, len) /\ \A c \in Range(L) : InPlace(n, u \ {i}, c)
      /\ \A j \in u \ {i} : Hinted(L, len, asked, Wish(n, j))
  BY DEF AtHints
<1>4. \A d \in Range(L) : d.name # i
  BY <1>2, <1>3, NamesAre DEF InPlace
<1>5. M = InterfacePrefixAssign(L, i, hint, l)
  BY DEF AssignAtHint
<1>6. \A c \in Range(L) : InPlace(n, u, c)
  BY <1>3 DEF InPlace
<1> HIDE DEF len, hint, l, asked
<1>7. CASE Assignable(L, hint, l)
  <2>1. WellMade(M, len)
    BY <1>2, <1>3, <1>4, <1>5, <1>7, AssignWellMade
  <2>2. PICK c \in Entries : /\ c.name = i /\ c.length = l /\ ~c.enabled /\ c.at = hint
                             /\ Range(M) = Range(L) \cup {c}
    BY <1>2, <1>3, <1>4, <1>5, <1>7, AssignWellMade
  <2>3. InPlace(n, u, c)
    BY <1>1, <2>2 DEF InPlace, hint, l
  <2>4. \A d \in Range(M) : InPlace(n, u, d)
    BY <1>6, <2>2, <2>3
  <2>5. Given(M, Wish(n, i))
    BY <2>2 DEF Given, Wish, hint, l
  <2>6. Hinted(M, len, asked, Wish(n, i))
    BY <2>5 DEF Hinted
  <2>7. ASSUME NEW j \in u \ {i} PROVE Hinted(M, len, asked, Wish(n, j))
    BY <1>3, <2>2, HintedGrows
  <2>8. \A j \in u : Hinted(M, len, asked, Wish(n, j))
    BY <2>6, <2>7
  <2>9. M \in Seq(Entries)
    BY <2>1 DEF WellMade
  <2> QED BY <2>1, <2>4, <2>8, <2>9 DEF AtHints, len, asked
<1>8. CASE ~Assignable(L, hint, l)
  <2>1. M = L
    BY <1>5, <1>8 DEF InterfacePrefixAssign
  <2>2. Hinted(L, len, asked, Wish(n, i))
    <3>1. hint + Size(l) > Size(len) \/ Crowded(L, i, hint, l)
      BY <1>2, <1>3, <1>4, <1>8, NotAtHint
    <3>2. CASE hint + Size(l) > Size(len)
      BY <3>2 DEF Hinted, Wish, hint, l
    <3>3. CASE Crowded(L, i, hint, l)
      <4>1. PICK c \in Range(L) : c.name \notin {SENTINEL, i} /\ Overlap(c, hint, l)
        BY <3>3 DEF Crowded
      <4>2. CASE c.name = EXCLUDED
        BY <4>1, <4>2 DEF Hinted, Wish, hint, l
      <4>3. CASE c.name # EXCLUDED
        <5>1. /\ c.name \in u \ {i} /\ c.at = n.ifs[c.name].cfg.hint
              /\ c.length = n.ifs[c.name].cfg.length
          BY <1>3, <4>1, <4>3 DEF InPlace
        <5> DEFINE y == Wish(n, c.name)
        <5>2. y \in asked /\ y.cfg.hint # NoHint
          BY <1>1, <5>1 DEF asked, Asked, Wish
        <5>3. y.name < Wish(n, i).name
          <6>1. c.name \in Nat /\ i \in Nat /\ c.name <= i /\ c.name # i
            BY <1>1, <5>1, NamesAre
          <6>2. c.name < i
            BY <6>1
          <6> QED BY <6>2 DEF Wish
        <5>4. Given(L, y)
          BY <5>1 DEF Given, Wish
        <5>5. Overlap(AtHint(y), hint, l)
          BY <4>1, <5>1 DEF Overlap, AtHint, Wish, End
        <5> HIDE DEF y
        <5> QED BY <5>2, <5>3, <5>4, <5>5 DEF Hinted, Wish, hint, l
      <4> QED BY <4>2, <4>3
    <3> QED BY <3>1, <3>2, <3>3
  <2>3. \A j \in u : Hinted(L, len, asked, Wish(n, j))
    BY <1>3, <2>2
  <2> QED BY <1>3, <1>6, <2>1, <2>3 DEF AtHints, len, asked
<1> QED BY <1>7, <1>8

LEMMA DivideAtHintsIs ==
  ASSUME NEW n, NEW p, Divisible(n, p), NEW L, L = DivideAtHints(n, p)
  PROVE  L \in AtHints(n, p, Hinting(n, p))
<1> DEFINE H == Hinting(n, p)
           ch == [u \in SUBSET H |-> Max(u)]
           G == [u \in SUBSET H |-> AtHints(n, p, u)]
           All == UNION {G[u] : u \in SUBSET H}
           F == [i \in H |-> [c \in All |-> AssignAtHint(n, c, i)]]
           b == EmptyList(n.pfx[p])
           R(f) == f = [u \in SUBSET H |->
                          IF u = {} THEN b ELSE AssignAtHint(n, f[u \ {Max(u)}], Max(u))]
<1>1. IsFiniteSet(H) /\ H \in SUBSET Names
  <2>1. H \in SUBSET Names
    BY DEF Hinting, Wanting
  <2> QED BY <2>1, NamesFinite
<1>2. Chooses(ch, H)
  <2>1. ASSUME NEW u \in SUBSET H, u # {} PROVE Max(u) \in u
    BY <1>1, <2>1, MaxIs
  <2> QED BY <2>1 DEF Chooses
<1>3. \A u \in SUBSET H : Left(ch, u) = u \ {Max(u)} /\ ch[u] = Max(u)
  BY DEF Left
<1>4. b \in G[{}]
  <2>1. WellMade(b, n.pfx[p].length) /\ \A c \in Range(b) : InPlace(n, {}, c)
    <3>1. n.pfx[p].length \in Lengths /\ n.pfx[p].excl \in Exclusions /\ ExclFits(n.pfx[p])
      BY DEF Divisible
    <3> QED BY <3>1, EmptyListIs DEF InPlace
  <2> QED BY <2>1 DEF AtHints, WellMade
<1>5. ASSUME NEW u \in SUBSET H, u # {}, NEW c \in G[Left(ch, u)]
      PROVE  AssignAtHint(n, c, ch[u]) \in G[u]
  <2>1. c \in AtHints(n, p, u \ {Max(u)})
    BY <1>3, <1>5
  <2>2. AssignAtHint(n, c, Max(u)) \in AtHints(n, p, u)
    BY <1>5, <2>1, HintTurn
  <2> QED BY <1>3, <2>2
<1> HIDE DEF G, H, ch, b
<1>6. ASSUME NEW u \in SUBSET H, u # {}, NEW c \in G[Left(ch, u)]
      PROVE  F[ch[u]][c] = AssignAtHint(n, c, ch[u]) /\ F[ch[u]][c] \in G[u]
  <2>1. ch[u] \in H /\ Left(ch, u) \in SUBSET H
    BY <1>1, <1>2, <1>6, LeftIs
  <2>2. c \in All
    BY <2>1
  <2>3. F[ch[u]][c] = AssignAtHint(n, c, ch[u])
    BY <2>1, <2>2
  <2> QED BY <1>5, <1>6, <2>3
<1> HIDE DEF F
<1>7. PICK h : h \in Courses(H, ch, G, F, b)
  BY <1>1, <1>2, <1>4, <1>6, LoopRuns
<1>8. R(h)
  <2>1. ASSUME NEW u \in SUBSET H, u # {}
        PROVE  h[u] = AssignAtHint(n, h[u \ {Max(u)}], Max(u))
    <3>1. h[u] = F[ch[u]][h[Left(ch, u)]]
      BY <1>7, <2>1 DEF Courses
    <3>2. Left(ch, u) \in SUBSET H
      BY <1>1, <1>2, <2>1, LeftIs
    <3>3. h[Left(ch, u)] \in G[Left(ch, u)]
      BY <1>7, <3>2 DEF Courses
    <3> QED BY <1>3, <1>6, <2>1, <3>1, <3>3
  <2>2. h = [u \in SUBSET H |-> h[u]] /\ h[{}] = b
    BY <1>7 DEF Courses
  <2>3. \A u \in SUBSET H :
          h[u] = IF u = {} THEN b ELSE AssignAtHint(n, h[u \ {Max(u)}], Max(u))
    BY <2>1, <2>2
  <2> QED BY <2>2, <2>3, Zenon
<1>9. PICK g : g = CHOOSE f : R(f)
  OBVIOUS
<1>10. R(g)
  BY <1>8, <1>9
<1>11. L = g[H]
  BY <1>9 DEF DivideAtHints, MapThenFoldSet, H, b, Hinting
<1>12. \A u \in SUBSET H :
          g[u] = IF u = {} THEN b ELSE AssignAtHint(n, g[u \ {Max(u)}], Max(u))
  BY <1>10, Zenon
<1> HIDE DEF R
<1>13. g[{}] \in G[{}]
  BY <1>4, <1>12
<1>14. ASSUME NEW u \in SUBSET H, u # {}, g[Left(ch, u)] \in G[Left(ch, u)]
       PROVE  g[u] \in G[u]
  <2>1. g[u] = AssignAtHint(n, g[Left(ch, u)], ch[u])
    BY <1>3, <1>12, <1>14
  <2> QED BY <1>5, <1>14, <2>1
<1>15. g[H] \in G[H]
  BY <1>1, <1>2, <1>13, <1>14, LoopReaches
<1> QED BY <1>11, <1>15 DEF G, H

(***************************************************************************)
(* The second loop, wherever there is room                                 *)
(***************************************************************************)

Lacking(n, p, first) == {i \in Wanting(n, p) : \A c \in Range(first) : c.name # i}

(* The lists there may be when those in u have had their turn.              *)
Spread(n, p, first, u) ==
  {L \in Seq(Entries) :
     /\ WellMade(L, n.pfx[p].length) /\ Range(first) \subseteq Range(L)
     /\ \A c \in Range(L) : ~c.enabled /\ (c \in Range(first) \/ c.name \in u)
     /\ \A i \in u : Served(L, n.pfx[p].length, i, n.ifs[i].cfg.length)}

LEMMA SpreadTurn ==
  ASSUME NEW n, NEW p, Divisible(n, p), NEW first, NEW u \in SUBSET Lacking(n, p, first),
         NEW i \in u, NEW L \in Spread(n, p, first, u \ {i}),
         NEW M, M = AssignAnywhere(n, L, i)
  PROVE  M \in Spread(n, p, first, u)
<1> DEFINE len == n.pfx[p].length
           length == n.ifs[i].cfg.length
           fitting == {l \in length .. 64 : Assignable(L, NoHint, l)}
<1>1. i \in Names /\ length \in 48 .. 64 /\ len \in Lengths
  <2>1. n.ifs \in [Names -> IfState] /\ len \in Lengths /\ i \in Wanting(n, p)
    BY DEF Divisible, Lacking
  <2> QED BY <2>1, WantingIs
<1>2. /\ L \in Seq(Entries) /\ WellMade(L, len) /\ Range(first) \subseteq Range(L)
      /\ \A c \in Range(L) : ~c.enabled /\ (c \in Range(first) \/ c.name \in u \ {i})
      /\ \A j \in u \ {i} : Served(L, len, j, n.ifs[j].cfg.length)
  BY DEF Spread
<1>3. \A d \in Range(L) : d.name # i
  BY <1>2 DEF Lacking
<1>4. M = IF fitting = {} THEN L ELSE InterfacePrefixAssign(L, i, NoHint, Min(fitting))
  BY DEF AssignAnywhere
<1>5. \A l \in length .. 64 : l \in Lengths /\ l \in Nat
  BY <1>1 DEF Lengths
<1>6. ASSUME NEW l \in length .. 64, l \notin fitting PROVE Full(L, len, i, l)
  <2>1. l \in Lengths /\ ~Assignable(L, NoHint, l)
    BY <1>5, <1>6
  <2> HIDE DEF len, fitting, length
  <2> QED BY <1>1, <1>2, <1>3, <2>1, NotAssignableFull
<1>7. CASE fitting = {}
  <2>1. M = L
    BY <1>4, <1>7
  <2>2. Served(L, len, i, length)
    <3> HIDE DEF fitting, len, length
    <3> QED BY <1>6, <1>7 DEF Served
  <2> QED BY <1>2, <2>1, <2>2 DEF Spread
<1>8. CASE fitting # {}
  <2>1. fitting \in SUBSET Nat
    BY <1>5
  <2> DEFINE m == Min(fitting)
  <2>2. m \in fitting /\ \A l \in fitting : m <= l
    <3> HIDE DEF fitting
    <3>1. \E l \in fitting : \A k \in fitting : l <= k
      BY <1>8, <2>1, Least
    <3> QED BY <3>1 DEF Min
  <2>3. m \in Lengths /\ Assignable(L, NoHint, m)
    BY <1>5, <2>2
  <2>4. M = InterfacePrefixAssign(L, i, NoHint, m)
    BY <1>4, <1>8
  <2>5. \A l \in length .. 64 : l < m => l \notin fitting
    BY <1>5, <2>1, <2>2
  <2> HIDE DEF m, fitting, len, length
  <2>6. PICK hint \in Nat \cup {NoHint} : hint = NoHint
    OBVIOUS
  <2>14. M = InterfacePrefixAssign(L, i, hint, m) /\ Assignable(L, hint, m)
    BY <2>3, <2>4, <2>6
  <2>7. WellMade(M, len)
    BY <1>1, <1>2, <1>3, <2>3, <2>6, <2>14, AssignWellMade
  <2>8. PICK c \in Entries : /\ c.name = i /\ c.length = m /\ ~c.enabled
                             /\ Range(M) = Range(L) \cup {c}
    BY <1>1, <1>2, <1>3, <2>3, <2>6, <2>14, AssignWellMade
  <2>9. Served(M, len, i, length)
    <3>1. ASSUME NEW l \in length .. 64, \A d \in Range(M) : d.name = i => l < d.length
          PROVE  Full(M, len, i, l)
      <4>1. l < m
        BY <2>8, <3>1
      <4>2. Full(L, len, i, l)
        BY <1>6, <2>5, <4>1
      <4> QED BY <2>8, <4>2 DEF Full, Crowded
    <3> QED BY <3>1 DEF Served
  <2>10. ASSUME NEW j \in u \ {i} PROVE Served(M, len, j, n.ifs[j].cfg.length)
    <3>1. \A d \in Range(M) : d.name = j => d \in Range(L)
      BY <2>8
    <3>2. Range(L) \subseteq Range(M)
      BY <2>8
    <3> QED BY <1>2, <3>1, <3>2, ServedGrows
  <2>11. \A j \in u : Served(M, len, j, n.ifs[j].cfg.length)
    BY <2>9, <2>10 DEF length
  <2>12. \A d \in Range(M) : ~d.enabled /\ (d \in Range(first) \/ d.name \in u)
    BY <1>2, <2>8
  <2>13. M \in Seq(Entries) /\ Range(first) \subseteq Range(M)
    BY <1>2, <2>7, <2>8 DEF WellMade
  <2> QED BY <2>7, <2>11, <2>12, <2>13 DEF Spread, len
<1> QED BY <1>7, <1>8

LEMMA DivideSpreads ==
  ASSUME NEW n, NEW p, Divisible(n, p), NEW first, first \in AtHints(n, p, Hinting(n, p)),
         NEW D \in SUBSET Lacking(n, p, first),
         NEW L, L = MapThenFoldSet(LAMBDA i, l : AssignAnywhere(n, l, i), first,
                                   LAMBDA i : i, LAMBDA is : LastOf(n, is), D)
  PROVE  L \in Spread(n, p, first, D)
<1> DEFINE ch == [u \in SUBSET D |-> LastOf(n, u)]
           G == [u \in SUBSET D |-> Spread(n, p, first, u)]
           All == UNION {G[u] : u \in SUBSET D}
           F == [i \in D |-> [c \in All |-> AssignAnywhere(n, c, i)]]
           R(f) == f = [u \in SUBSET D |->
                          IF u = {} THEN first
                                    ELSE AssignAnywhere(n, f[u \ {LastOf(n, u)}], LastOf(n, u))]
<1>1. IsFiniteSet(D) /\ D \in SUBSET Wanting(n, p)
  <2>1. D \in SUBSET Wanting(n, p) /\ D \in SUBSET Names
    BY DEF Lacking, Wanting
  <2> QED BY <2>1, NamesFinite
<1>2. Chooses(ch, D)
  <2>1. ASSUME NEW u \in SUBSET D, u # {} PROVE LastOf(n, u) \in u
    <3>1. n.ifs \in [Names -> IfState] /\ u \in SUBSET Wanting(n, p)
      BY <1>1 DEF Divisible
    <3> QED BY <2>1, <3>1, LastIs
  <2> QED BY <2>1 DEF Chooses
<1>3. \A u \in SUBSET D : Left(ch, u) = u \ {LastOf(n, u)} /\ ch[u] = LastOf(n, u)
  BY DEF Left
<1>4. first \in G[{}]
  <2>1. /\ first \in Seq(Entries) /\ WellMade(first, n.pfx[p].length)
        /\ \A c \in Range(first) : ~c.enabled
    BY DEF AtHints, InPlace
  <2> QED BY <2>1 DEF Spread
<1>5. ASSUME NEW u \in SUBSET D, u # {}, NEW c \in G[Left(ch, u)]
      PROVE  AssignAnywhere(n, c, ch[u]) \in G[u]
  <2>1. ch[u] \in u
    BY <1>2, <1>5 DEF Chooses
  <2>2. c \in Spread(n, p, first, u \ {ch[u]})
    BY <1>3, <1>5
  <2>3. AssignAnywhere(n, c, ch[u]) \in Spread(n, p, first, u)
    BY <2>1, <2>2, SpreadTurn
  <2> QED BY <2>3
<1> HIDE DEF G, ch
<1>6. ASSUME NEW u \in SUBSET D, u # {}, NEW c \in G[Left(ch, u)]
      PROVE  F[ch[u]][c] = AssignAnywhere(n, c, ch[u]) /\ F[ch[u]][c] \in G[u]
  <2>1. ch[u] \in D /\ Left(ch, u) \in SUBSET D
    BY <1>1, <1>2, <1>6, LeftIs
  <2>2. c \in All
    BY <2>1
  <2>3. F[ch[u]][c] = AssignAnywhere(n, c, ch[u])
    BY <2>1, <2>2
  <2> QED BY <1>5, <1>6, <2>3
<1> HIDE DEF F
<1>7. PICK h : h \in Courses(D, ch, G, F, first)
  BY <1>1, <1>2, <1>4, <1>6, LoopRuns
<1>8. R(h)
  <2>1. ASSUME NEW u \in SUBSET D, u # {}
        PROVE  h[u] = AssignAnywhere(n, h[u \ {LastOf(n, u)}], LastOf(n, u))
    <3>1. h[u] = F[ch[u]][h[Left(ch, u)]]
      BY <1>7, <2>1 DEF Courses
    <3>2. Left(ch, u) \in SUBSET D
      BY <1>1, <1>2, <2>1, LeftIs
    <3>3. h[Left(ch, u)] \in G[Left(ch, u)]
      BY <1>7, <3>2 DEF Courses
    <3> QED BY <1>3, <1>6, <2>1, <3>1, <3>3
  <2>2. h = [u \in SUBSET D |-> h[u]] /\ h[{}] = first
    BY <1>7 DEF Courses
  <2>3. \A u \in SUBSET D :
          h[u] = IF u = {} THEN first
                           ELSE AssignAnywhere(n, h[u \ {LastOf(n, u)}], LastOf(n, u))
    BY <2>1, <2>2
  <2> QED BY <2>2, <2>3, Zenon
<1>9. PICK g : g = CHOOSE f : R(f)
  OBVIOUS
<1>10. R(g)
  BY <1>8, <1>9
<1>11. L = g[D]
  BY <1>9 DEF MapThenFoldSet
<1>12. \A u \in SUBSET D :
          g[u] = IF u = {} THEN first
                           ELSE AssignAnywhere(n, g[u \ {LastOf(n, u)}], LastOf(n, u))
  BY <1>10, Zenon
<1> HIDE DEF R
<1>13. g[{}] \in G[{}]
  BY <1>4, <1>12
<1>14. ASSUME NEW u \in SUBSET D, u # {}, g[Left(ch, u)] \in G[Left(ch, u)]
       PROVE  g[u] \in G[u]
  <2>1. g[u] = AssignAnywhere(n, g[Left(ch, u)], ch[u])
    BY <1>3, <1>12, <1>14
  <2> QED BY <1>5, <1>14, <2>1
<1>15. g[D] \in G[D]
  BY <1>1, <1>2, <1>13, <1>14, LoopReaches
<1> QED BY <1>11, <1>15 DEF G

(* What a division comes to, of a prefix of length `len` and for those with *)
(* the wishes `asked`.                                                      *)
Answers(L, len, asked) ==
  /\ WellMade(L, len)
  /\ \A x \in asked : /\ Served(L, len, x.name, x.cfg.length) /\ Hinted(L, len, asked, x)

LEMMA DivideIs ==
  ASSUME NEW n, NEW p, Divisible(n, p), NEW L, L = Divide(n, p)
  PROVE  /\ Answers(L, n.pfx[p].length, Asked(n, p))
         /\ \A c \in Range(L) : ~c.enabled
<1> DEFINE len == n.pfx[p].length
<1>1. PICK first : first = DivideAtHints(n, p)
  OBVIOUS
<1>2. first \in AtHints(n, p, Hinting(n, p))
  BY <1>1, DivideAtHintsIs
<1>3. PICK D : D = Lacking(n, p, first)
  OBVIOUS
<1>4. L = MapThenFoldSet(LAMBDA i, l : AssignAnywhere(n, l, i), first,
                         LAMBDA i : i, LAMBDA is : LastOf(n, is), D)
  BY <1>1, <1>3 DEF Divide, Lacking
<1>5. L \in Spread(n, p, first, D)
  BY <1>2, <1>3, <1>4, DivideSpreads
<1>6. /\ L \in Seq(Entries) /\ WellMade(L, len) /\ Range(first) \subseteq Range(L)
      /\ \A c \in Range(L) : ~c.enabled /\ (c \in Range(first) \/ c.name \in D)
      /\ \A i \in D : Served(L, len, i, n.ifs[i].cfg.length)
  BY <1>5 DEF Spread
<1>7. /\ \A c \in Range(first) : InPlace(n, Hinting(n, p), c)
      /\ \A i \in Hinting(n, p) : Hinted(first, len, Asked(n, p), Wish(n, i))
  BY <1>2 DEF AtHints
<1>8. ASSUME NEW i \in Wanting(n, p) PROVE Served(L, len, i, n.ifs[i].cfg.length)
  <2>1. CASE i \in D
    BY <1>6, <2>1
  <2>2. CASE i \notin D
    <3>1. PICK c \in Range(first) : c.name = i
      BY <1>3, <2>2 DEF Lacking
    <3>2. c.length = n.ifs[i].cfg.length
      <4>1. i \in Names
        BY DEF Wanting
      <4>2. c.name \notin {SENTINEL, EXCLUDED}
        BY <3>1, <4>1, NamesAre
      <4> QED BY <1>7, <3>1, <4>2 DEF InPlace
    <3>3. n.ifs[i].cfg.length \in Nat
      BY DEF Wanting
    <3>4. ASSUME NEW l \in n.ifs[i].cfg.length .. 64,
                 \A d \in Range(L) : d.name = i => l < d.length
          PROVE  FALSE
      BY <1>6, <3>1, <3>2, <3>3, <3>4
    <3> QED BY <3>4 DEF Served
  <2> QED BY <2>1, <2>2
<1>9. ASSUME NEW i \in Wanting(n, p) PROVE Hinted(L, len, Asked(n, p), Wish(n, i))
  <2>1. CASE i \in Hinting(n, p)
    BY <1>6, <1>7, <2>1, HintedGrows
  <2>2. CASE i \notin Hinting(n, p)
    <3>1. Wish(n, i).cfg.hint = NoHint
      BY <2>2 DEF Hinting, Wish
    <3> QED BY <3>1 DEF Hinted
  <2> QED BY <2>1, <2>2
<1>10. ASSUME NEW x \in Asked(n, p)
       PROVE  Served(L, len, x.name, x.cfg.length) /\ Hinted(L, len, Asked(n, p), x)
  <2>1. PICK i \in Wanting(n, p) : x = Wish(n, i)
    BY DEF Asked
  <2>2. x.name = i /\ x.cfg = n.ifs[i].cfg
    BY <2>1 DEF Wish
  <2> QED BY <1>8, <1>9, <2>1, <2>2
<1> QED BY <1>6, <1>10 DEF Answers

(***************************************************************************)
(* What every state has                                                    *)
(***************************************************************************)

Prefix == [live : BOOLEAN, length : Lengths, excl : Exclusions, list : Seq(Entries),
           asked : SUBSET [name : Names, cfg : Configs]]
Rule == [to : Address, table : {0} \cup Tables]
Nets == [ifs : [Names -> IfState], pfx : [PrefixIds -> Prefix],
         addrs : SUBSET Address, rules : SUBSET Rule, table : Tables,
         delegate : BOOLEAN, refresh : BOOLEAN, refused : SUBSET Names]

(* A prefix: not divided, or divided as those it was divided for asked.     *)
PrefixInv(pf) ==
  /\ (pf.list = << >> /\ pf.asked = {}) \/ Answers(pf.list, pf.length, pf.asked)
  /\ ~pf.live => pf.list = << >>
  /\ ExclFits(pf)

(* The assignments of p that the kernel has the addresses of.               *)
On(n, p) == {c \in Range(n.pfx[p].list) : c.enabled}

Held(n) ==
  \A p \in PrefixIds : \A c \in On(n, p) : c.name \in Names /\ n.ifs[c.name].l3 # NoDevice

AddrInv(n) ==
  \A a : a \in n.addrs <=> \E p \in PrefixIds : \E c \in On(n, p) : a = AddressOf(n, p, c)

Unreachable(n, p, c) == [to |-> AddressOf(n, p, c), table |-> 0]
RuleInv(n) ==
  \A r : r \in n.rules /\ r.table = 0 <=>
           \E p \in PrefixIds \ {Ula} : \E c \in On(n, p) : r = Unreachable(n, p, c)

Core(n) ==
  /\ n \in Nets /\ \A p \in PrefixIds : PrefixInv(n.pfx[p])
  /\ Held(n) /\ AddrInv(n) /\ RuleInv(n)

(* One that is not up has no addresses, one that is has all of its own.     *)
Off(n, i) == \A p \in PrefixIds : \A c \in On(n, p) : c.name # i
Stilled(n, i) ==
  n.ifs[i].state \in {"DOWN", "ABSENT"} => ~n.ifs[i].enabled /\ Off(n, i)
Follows(n, i, p) ==
  /\ n.ifs[i].enabled /\ n.ifs[i].state \in {"SETUP", "UP"}
  /\ n.ifs[i].l3 # NoDevice /\ i \notin n.refused
  => \A c \in Range(n.pfx[p].list) : c.name = i => c.enabled

Inv(n) ==
  /\ Core(n)
  /\ \A i \in Names : Stilled(n, i) /\ \A p \in PrefixIds : Follows(n, i, p)
IInv == Inv(net)

LEMMA NetIs ==
  ASSUME NEW n \in Nets
  PROVE  /\ n.ifs \in [Names -> IfState] /\ n.pfx \in [PrefixIds -> Prefix]
         /\ n.addrs \subseteq Address /\ n.rules \subseteq Rule /\ n.table \in Tables
         /\ n.delegate \in BOOLEAN /\ n.refresh \in BOOLEAN /\ n.refused \subseteq Names
BY DEF Nets

LEMMA PrefixIs ==
  ASSUME NEW n \in Nets, NEW p \in PrefixIds
  PROVE  /\ n.pfx[p] \in Prefix /\ n.pfx[p].live \in BOOLEAN /\ n.pfx[p].length \in Lengths
         /\ n.pfx[p].excl \in Exclusions /\ n.pfx[p].list \in Seq(Entries)
         /\ n.pfx[p].asked \subseteq [name : Names, cfg : Configs]
         /\ \A c \in Range(n.pfx[p].list) : c \in Entries
<1>1. n.pfx[p] \in Prefix
  BY DEF Nets
<1>2. n.pfx[p].list \in Seq(Entries)
  BY <1>1 DEF Prefix
<1>3. \A c \in Range(n.pfx[p].list) : c \in Entries
  BY <1>2, RangeEntries
<1> QED BY <1>1, <1>2, <1>3 DEF Prefix

LEMMA IfIs ==
  ASSUME NEW n \in Nets, NEW i \in Names
  PROVE  /\ n.ifs[i] \in IfState /\ n.ifs[i].l3 \in Devices \cup {NoDevice}
         /\ n.ifs[i].enabled \in BOOLEAN /\ n.ifs[i].cfg \in Configs
         /\ n.ifs[i].state \in {"ABSENT", "DOWN", "SETUP", "UP", "TEARDOWN"}
BY DEF Nets, IfState

(***************************************************************************)
(* Lists that differ in what is marked                                     *)
(***************************************************************************)

Alike(L, M) ==
  /\ M \in Seq(Entries) /\ Len(M) = Len(L)
  /\ \A k \in DOMAIN L : M[k].name = L[k].name /\ M[k].at = L[k].at /\ M[k].length = L[k].length

(* Entries that are apart are in different places. *)
LEMMA Distinct ==
  ASSUME NEW L \in Seq(Entries), Disjoint(L),
         NEW j \in DOMAIN L, NEW k \in DOMAIN L, L[j].at = L[k].at
  PROVE  j = k
<1>1. j \in Nat /\ k \in Nat
  BY RangeEntries
<1>2. /\ L[j].at \in Nat /\ End(L[j]) \in Nat /\ L[j].at < End(L[j])
      /\ L[k].at \in Nat /\ End(L[k]) \in Nat /\ L[k].at < End(L[k])
  BY ListType, EntryIs
<1>3. CASE j < k
  <2>1. End(L[j]) <= L[k].at
    BY <1>3 DEF Disjoint
  <2> QED BY <1>2, <2>1
<1>4. CASE k < j
  <2>1. End(L[k]) <= L[j].at
    BY <1>4 DEF Disjoint
  <2> QED BY <1>2, <2>1
<1> QED BY <1>1, <1>3, <1>4

LEMMA AlikeRange ==
  ASSUME NEW L \in Seq(Entries), NEW M, Alike(L, M)
  PROVE  /\ M \in Seq(Entries) /\ DOMAIN M = DOMAIN L
         /\ \A c \in Range(M) : \E d \in Range(L) :
              d.name = c.name /\ d.at = c.at /\ d.length = c.length
         /\ \A d \in Range(L) : \E c \in Range(M) :
              c.name = d.name /\ c.at = d.at /\ c.length = d.length
<1>1. M \in Seq(Entries) /\ DOMAIN M = DOMAIN L
  BY LenProperties DEF Alike
<1> QED BY <1>1 DEF Alike, Range

LEMMA AlikeAnswers ==
  ASSUME NEW L \in Seq(Entries), NEW len, NEW asked, Answers(L, len, asked),
         NEW M, Alike(L, M)
  PROVE  Answers(M, len, asked)
<1>1. WellMade(L, len)
  BY DEF Answers
<1>2. /\ M \in Seq(Entries) /\ DOMAIN M = DOMAIN L /\ Len(M) = Len(L)
      /\ \A k \in DOMAIN L : M[k].name = L[k].name /\ M[k].at = L[k].at /\ M[k].length = L[k].length
  BY AlikeRange DEF Alike
<1>3. \A k \in DOMAIN L : End(M[k]) = End(L[k])
  BY <1>2 DEF End
<1>4. WellMade(M, len)
  <2>1. Disjoint(M)
    BY <1>1, <1>2, <1>3 DEF WellMade, Disjoint
  <2>2. M # << >> /\ M[Len(M)].name = SENTINEL /\ M[Len(M)].at = Size(len)
    <3>1. L # << >> /\ Len(L) \in DOMAIN L
      <4>1. L # << >>
        BY <1>1 DEF WellMade
      <4>2. DOMAIN L = 1 .. Len(L) /\ Len(L) \in Nat /\ Len(L) # 0
        BY <4>1, RangeEntries, EmptySeq
      <4> QED BY <4>1, <4>2
    <3>2. Len(M) # 0
      BY <1>2, <3>1, RangeEntries
    <3>3. M # << >>
      BY <3>2
    <3> QED BY <1>1, <1>2, <3>1, <3>3 DEF WellMade
  <2>3. \A c \in Range(M) : c.name \in Names \cup {SENTINEL, EXCLUDED}
    BY <1>1, <1>2 DEF WellMade, Range
  <2>4. ASSUME NEW c \in Range(M), c.name \in Names PROVE Aligned(c)
    <3>1. PICK k \in DOMAIN L : c = M[k] /\ L[k] \in Range(L)
      BY <1>2 DEF Range
    <3>2. Aligned(L[k])
      BY <1>1, <1>2, <2>4, <3>1 DEF WellMade
    <3> QED BY <1>2, <3>1, <3>2 DEF Aligned
  <2>5. ASSUME NEW c \in Range(M), NEW d \in Range(M), c.name = d.name PROVE c = d
    <3>1. PICK j \in DOMAIN L : c = M[j] /\ L[j] \in Range(L)
      BY <1>2 DEF Range
    <3>2. PICK k \in DOMAIN L : d = M[k] /\ L[k] \in Range(L)
      BY <1>2 DEF Range
    <3>3. L[j] = L[k]
      BY <1>1, <1>2, <2>5, <3>1, <3>2 DEF WellMade
    <3>4. j = k
      BY <1>1, <3>3, Distinct DEF WellMade
    <3> QED BY <3>1, <3>2, <3>4
  <2> QED BY <1>2, <2>1, <2>2, <2>3, <2>4, <2>5 DEF WellMade
<1>5. \A i, at, l : Crowded(L, i, at, l) => Crowded(M, i, at, l)
  BY AlikeRange DEF Crowded, Overlap, End
<1>6. ASSUME NEW x \in asked PROVE Served(M, len, x.name, x.cfg.length)
  <2>1. Served(L, len, x.name, x.cfg.length)
    BY DEF Answers
  <2>2. \A l : Full(L, len, x.name, l) => Full(M, len, x.name, l)
    BY <1>5 DEF Full
  <2>3. ASSUME NEW l, \A c \in Range(M) : c.name = x.name => l < c.length
        PROVE  \A d \in Range(L) : d.name = x.name => l < d.length
    BY <2>3, AlikeRange
  <2> QED BY <2>1, <2>2, <2>3 DEF Served
<1>7. \A x : Given(L, x) => Given(M, x)
  BY AlikeRange DEF Given
<1>8. ASSUME NEW x \in asked PROVE Hinted(M, len, asked, x)
  <2>1. Hinted(L, len, asked, x)
    BY DEF Answers
  <2>2. ASSUME NEW d \in Range(L), NEW at, NEW l, d.name = EXCLUDED, Overlap(d, at, l)
        PROVE  \E c \in Range(M) : c.name = EXCLUDED /\ Overlap(c, at, l)
    BY <2>2, AlikeRange DEF Overlap, End
  <2> QED BY <1>7, <2>1, <2>2 DEF Hinted
<1> QED BY <1>4, <1>6, <1>8 DEF Answers

(***************************************************************************)
(* interface_set_prefix_address                                            *)
(***************************************************************************)

(* Only the marks of a prefix have changed. *)
SamePrefix(a, b) ==
  /\ b.live = a.live /\ b.length = a.length /\ b.excl = a.excl /\ b.asked = a.asked
  /\ Alike(a.list, b.list)

Has(T, p, c) == <<p, c>> \in T
Marked(T, value, p, c) == IF Has(T, p, c) THEN [c EXCEPT !.enabled = value] ELSE c
Lowered(T, p, c) == Marked(T, FALSE, p, c)
Raised(T, p, c) == Marked(T, TRUE, p, c)

LEMMA MarkIs ==
  ASSUME NEW n \in Nets, NEW T, NEW v \in BOOLEAN, NEW m, m = Mark(n, T, v)
  PROVE  /\ m \in [PrefixIds -> Prefix]
         /\ \A p \in PrefixIds :
              /\ SamePrefix(n.pfx[p], m[p]) /\ DOMAIN m[p].list = DOMAIN n.pfx[p].list
              /\ \A k \in DOMAIN n.pfx[p].list :
                   m[p].list[k] = Marked(T, v, p, n.pfx[p].list[k])
<1>1. ASSUME NEW p \in PrefixIds
      PROVE  /\ m[p] \in Prefix
             /\ SamePrefix(n.pfx[p], m[p]) /\ DOMAIN m[p].list = DOMAIN n.pfx[p].list
             /\ \A k \in DOMAIN n.pfx[p].list :
                  m[p].list[k] = Marked(T, v, p, n.pfx[p].list[k])
  <2> DEFINE L == n.pfx[p].list
             M == [k \in DOMAIN L |-> IF <<p, L[k]>> \in T
                                        THEN [L[k] EXCEPT !.enabled = v] ELSE L[k]]
  <2>1. n.pfx[p] \in Prefix /\ L \in Seq(Entries)
    BY PrefixIs
  <2>2. m[p] = [n.pfx[p] EXCEPT !.list = M]
    BY DEF Mark
  <2>3. DOMAIN L = 1 .. Len(L) /\ Len(L) \in Nat /\ \A k \in DOMAIN L : L[k] \in Entries
    BY <2>1, ListType, LenProperties
  <2> HIDE DEF L
  <2>4. \A k \in DOMAIN L : /\ M[k] \in Entries /\ M[k].name = L[k].name
                            /\ M[k].at = L[k].at /\ M[k].length = L[k].length
    BY <2>3 DEF Entries
  <2>5. M \in Seq(Entries) /\ Len(M) = Len(L) /\ DOMAIN M = DOMAIN L
    BY <2>3, <2>4
  <2>6. \A k \in DOMAIN L : M[k] = Marked(T, v, p, L[k])
    BY DEF Marked, Has
  <2>7. Alike(L, M)
    BY <2>4, <2>5 DEF Alike
  <2> HIDE DEF M
  <2>8. m[p].list = M /\ m[p] \in Prefix
    BY <2>1, <2>2, <2>5 DEF Prefix
  <2>9. SamePrefix(n.pfx[p], m[p])
    BY <2>1, <2>2, <2>7, <2>8 DEF SamePrefix, L, Prefix
  <2> QED BY <2>5, <2>6, <2>8, <2>9 DEF L
<1>2. m = [p \in PrefixIds |-> m[p]]
  BY DEF Mark
<1> QED BY <1>1, <1>2

LEMMA SamePrefixKeeps ==
  ASSUME NEW a \in Prefix, PrefixInv(a), NEW b, SamePrefix(a, b)
  PROVE  PrefixInv(b)
<1>1. a.list \in Seq(Entries) /\ Alike(a.list, b.list)
  BY DEF Prefix, SamePrefix
<1>2. ASSUME a.list = << >> PROVE b.list = << >>
  <2>1. b.list \in Seq(Entries) /\ Len(b.list) = 0
    BY <1>1, <1>2 DEF Alike
  <2> QED BY <2>1, EmptySeq
<1>3. Answers(a.list, a.length, a.asked) => Answers(b.list, b.length, b.asked)
  BY <1>1, AlikeAnswers DEF SamePrefix
<1> QED BY <1>2, <1>3 DEF PrefixInv, SamePrefix, ExclFits

(* Assignments with their prefix, and what the kernel gets for them. *)
Pairs(T) == \A x \in T : \E p, c : x = <<p, c>>
AddressesFor(n, T) == {AddressOf(n, x[1], x[2]) : x \in T}

(* Addresses of a prefix are those of different assignments. *)
LEMMA AddressesApart ==
  ASSUME NEW n, Core(n), NEW p \in PrefixIds, NEW q,
         NEW c \in Range(n.pfx[p].list), NEW d \in Range(n.pfx[q].list),
         AddressOf(n, p, c) = AddressOf(n, q, d)
  PROVE  p = q /\ c = d
<1>1. p = q /\ c.at = d.at
  BY DEF AddressOf
<1>2. n \in Nets /\ PrefixInv(n.pfx[p])
  BY DEF Core
<1>3. n.pfx[p].list \in Seq(Entries)
  BY <1>2, PrefixIs
<1>4. n.pfx[p].list # << >>
  BY <1>3 DEF Range
<1>5. Disjoint(n.pfx[p].list)
  BY <1>2, <1>4 DEF PrefixInv, Answers, WellMade
<1> QED BY <1>1, <1>3, <1>5, Distinct DEF Range

LEMMA AddressType ==
  ASSUME NEW n \in Nets, NEW p \in PrefixIds, NEW c \in Range(n.pfx[p].list),
         c.name \in Names, n.ifs[c.name].l3 # NoDevice
  PROVE  AddressOf(n, p, c) \in Address
<1>1. c \in Entries
  BY PrefixIs
<1>2. c.at \in Nat /\ c.length \in Lengths /\ n.ifs[c.name].l3 \in Devices
  BY <1>1, IfIs, EntryIs
<1> QED BY <1>2 DEF AddressOf, Address

(* The rest of the state. *)
Frame(n, m) ==
  /\ m.ifs = n.ifs /\ m.table = n.table /\ m.delegate = n.delegate /\ m.refresh = n.refresh

Unmarked(T) == {x \in T : ~x[2].enabled}
Announced(n, ps, is) == {x \in Concerned(n, ps, is) : x[2].enabled}

LEMMA AnnouncedIs ==
  ASSUME NEW n, NEW ps, NEW is, NEW T, T = Announced(n, ps, is)
  PROVE  /\ \A p, c : Has(T, p, c) <=>
              /\ p \in ps /\ c \in Range(n.pfx[p].list) /\ c.enabled
              /\ c.name \in is /\ n.ifs[c.name].l3 # NoDevice
         /\ Pairs(T)
BY DEF Announced, Concerned, Has, Pairs

LEMMA UnmarkedIs ==
  ASSUME NEW T, Pairs(T)
  PROVE  /\ \A p, c : Has(Unmarked(T), p, c) <=> Has(T, p, c) /\ ~c.enabled
         /\ Pairs(Unmarked(T))
BY DEF Unmarked, Has, Pairs

LEMMA AddressesOf ==
  ASSUME NEW n, NEW T, Pairs(T)
  PROVE  \A a : a \in AddressesFor(n, T) <=>
                  \E p, c : Has(T, p, c) /\ a = AddressOf(n, p, c)
<1>1. ASSUME NEW a, a \in AddressesFor(n, T)
      PROVE  \E p, c : Has(T, p, c) /\ a = AddressOf(n, p, c)
  <2>1. PICK x \in T : a = AddressOf(n, x[1], x[2])
    BY <1>1 DEF AddressesFor
  <2>2. PICK p, c : x = <<p, c>>
    BY <2>1 DEF Pairs
  <2>3. x[1] = p /\ x[2] = c
    BY <2>2
  <2>4. Has(T, p, c)
    BY <2>1, <2>2 DEF Has
  <2> QED BY <2>1, <2>3, <2>4
<1>2. ASSUME NEW p, NEW c, Has(T, p, c)
      PROVE  AddressOf(n, p, c) \in AddressesFor(n, T)
  <2>1. PICK x : x = <<p, c>>
    OBVIOUS
  <2>2. x[1] = p /\ x[2] = c /\ x \in T
    BY <1>2, <2>1 DEF Has
  <2> QED BY <2>2 DEF AddressesFor
<1> QED BY <1>1, <1>2, Zenon

RuleTo(n, p, c, t) == [to |-> AddressOf(n, p, c), table |-> t]

LEMMA RulesForIs ==
  ASSUME NEW n, NEW T, Pairs(T)
  PROVE  /\ \A r : r \in RulesFor(n, T) /\ r.table = 0 <=>
              \E p, c : Has(T, p, c) /\ p # Ula /\ r = Unreachable(n, p, c)
         /\ \A r \in RulesFor(n, T) : \E p, c : \E t \in {0, n.table} :
              /\ Has(T, p, c) /\ p # Ula
              /\ r = RuleTo(n, p, c, t)
<1>1. ASSUME NEW r \in RulesFor(n, T)
      PROVE  \E p, c : \E t \in {0, n.table} :
               /\ Has(T, p, c) /\ p # Ula
               /\ r = RuleTo(n, p, c, t)
  <2>1. PICK x \in T, t \in {0, n.table} :
          x[1] # Ula /\ r = RuleTo(n, x[1], x[2], t)
    BY DEF RulesFor, RuleTo
  <2>2. PICK p, c : x = <<p, c>>
    BY <2>1 DEF Pairs
  <2>3. x[1] = p /\ x[2] = c
    BY <2>2
  <2>4. Has(T, p, c)
    BY <2>1, <2>2 DEF Has
  <2> QED BY <2>1, <2>3, <2>4
<1>2. ASSUME NEW p, NEW c, Has(T, p, c), p # Ula
      PROVE  Unreachable(n, p, c) \in RulesFor(n, T) /\ Unreachable(n, p, c).table = 0
  <2>1. PICK x : x = <<p, c>>
    OBVIOUS
  <2>2. x[1] = p /\ x[2] = c /\ x \in T
    BY <1>2, <2>1 DEF Has
  <2>3. [to |-> AddressOf(n, x[1], x[2]), table |-> 0] \in RulesFor(n, T)
    <3>1. RulesFor(n, T) = {RuleTo(n, y[1], y[2], t) : y \in {z \in T : z[1] # Ula},
                                                       t \in {0, n.table}}
      BY DEF RulesFor, RuleTo
    <3>2. x \in {z \in T : z[1] # Ula} /\ 0 \in {0, n.table}
      BY <1>2, <2>2
    <3>3. RuleTo(n, x[1], x[2], 0) \in RulesFor(n, T)
      BY <3>1, <3>2
    <3> QED BY <3>3 DEF RuleTo
  <2> QED BY <2>2, <2>3 DEF Unreachable
<1>3. ASSUME NEW r \in RulesFor(n, T), r.table = 0
      PROVE  \E p, c : Has(T, p, c) /\ p # Ula /\ r = Unreachable(n, p, c)
  <2>1. PICK p, c, t : /\ Has(T, p, c) /\ p # Ula
                       /\ r = RuleTo(n, p, c, t)
    BY <1>1
  <2>2. t = 0
    BY <1>3, <2>1 DEF RuleTo
  <2> QED BY <2>1, <2>2 DEF Unreachable, RuleTo
<1>4. \A r : r \in RulesFor(n, T) /\ r.table = 0 <=>
                \E p, c : Has(T, p, c) /\ p # Ula /\ r = Unreachable(n, p, c)
  BY <1>2, <1>3, Zenon
<1> QED BY <1>1, <1>4

(* Those that a withdrawal is not about. *)
Spared(n, ps, is, p, c) == c \in On(n, p) /\ ~(p \in ps /\ c.name \in is)

LEMMA WithdrawIs ==
  ASSUME NEW n, Core(n), NEW ps \in SUBSET PrefixIds, NEW is, NEW m, m = Withdraw(n, ps, is)
  PROVE  /\ Core(m) /\ Frame(n, m) /\ m.refused = n.refused
         /\ \A p \in PrefixIds : SamePrefix(n.pfx[p], m.pfx[p])
         /\ \A p \in PrefixIds : \A c : c \in On(m, p) <=> Spared(n, ps, is, p, c)
<1>0. PICK T : T = Announced(n, ps, is)
  OBVIOUS
<1>13. n \in Nets
  BY DEF Core
<1>1. n \in Nets /\ Held(n) /\ AddrInv(n) /\ RuleInv(n) /\ \A p \in PrefixIds : PrefixInv(n.pfx[p])
  BY DEF Core
<1>2. /\ m \in Nets /\ Frame(n, m) /\ m.refused = n.refused
      /\ \A p \in PrefixIds :
           /\ SamePrefix(n.pfx[p], m.pfx[p]) /\ DOMAIN m.pfx[p].list = DOMAIN n.pfx[p].list
           /\ \A k \in DOMAIN n.pfx[p].list :
                m.pfx[p].list[k] = Lowered(T, p, n.pfx[p].list[k])
      /\ m.addrs = n.addrs \ AddressesFor(n, T)
      /\ m.rules = n.rules \ RulesFor(n, T)
  <2> DEFINE A == AddressesFor(n, T)
             R == RulesFor(n, T)
             K == Mark(n, T, FALSE)
  <2>1. m = [n EXCEPT !.addrs = @ \ A, !.rules = @ \ R, !.pfx = K]
    BY <1>0 DEF Withdraw, Announced, AddressesFor
  <2>2. K \in [PrefixIds -> Prefix]
    BY <1>13, MarkIs
  <2>3. \A v \in BOOLEAN : \A p \in PrefixIds :
          /\ SamePrefix(n.pfx[p], Mark(n, T, v)[p])
          /\ DOMAIN Mark(n, T, v)[p].list = DOMAIN n.pfx[p].list
          /\ \A k \in DOMAIN n.pfx[p].list :
               Mark(n, T, v)[p].list[k] = Marked(T, v, p, n.pfx[p].list[k])
    BY <1>13, MarkIs
  <2>4. \A p \in PrefixIds :
          /\ SamePrefix(n.pfx[p], K[p]) /\ DOMAIN K[p].list = DOMAIN n.pfx[p].list
          /\ \A k \in DOMAIN n.pfx[p].list :
               K[p].list[k] = Lowered(T, p, n.pfx[p].list[k])
    BY <2>3 DEF Lowered
  <2> HIDE DEF A, R, K
  <2>5. /\ m.ifs = n.ifs /\ m.table = n.table /\ m.delegate = n.delegate
        /\ m.refresh = n.refresh /\ m.refused = n.refused
        /\ m.addrs = n.addrs \ A /\ m.rules = n.rules \ R /\ m.pfx = K
    BY <1>13, <2>1 DEF Nets
  <2>6. m \in Nets
    BY <1>13, <2>1, <2>2 DEF Nets
  <2>7. Frame(n, m)
    BY <2>5 DEF Frame
  <2> QED BY <2>4, <2>5, <2>6, <2>7 DEF A, R
<1>3. \A p, c : Has(T, p, c) <=>
           /\ p \in ps /\ c \in Range(n.pfx[p].list) /\ c.enabled
           /\ c.name \in is /\ n.ifs[c.name].l3 # NoDevice
  BY <1>0, AnnouncedIs
<1>14. Pairs(T)
  BY <1>0, AnnouncedIs
<1>4. \A p, c : Has(T, p, c) <=> p \in ps /\ c \in On(n, p) /\ c.name \in is
  BY <1>1, <1>3 DEF Held, On
<1>5. \A p \in PrefixIds :
        /\ SamePrefix(n.pfx[p], m.pfx[p]) /\ DOMAIN m.pfx[p].list = DOMAIN n.pfx[p].list
        /\ \A k \in DOMAIN n.pfx[p].list :
             m.pfx[p].list[k] = Lowered(T, p, n.pfx[p].list[k])
  BY <1>2
<1>6. ASSUME NEW p \in PrefixIds
      PROVE  \A c : c \in On(m, p) <=> c \in On(n, p) /\ ~(p \in ps /\ c.name \in is)
  <2>1. ASSUME NEW c \in On(m, p) PROVE c \in On(n, p) /\ ~Has(T, p, c)
    <3>1. PICK k \in DOMAIN n.pfx[p].list : c = m.pfx[p].list[k] /\ c.enabled
      BY <1>5 DEF On, Range
    <3>2. n.pfx[p].list[k] \in Entries
      BY <1>1, PrefixIs, ListType
    <3>3. ~Has(T, p, n.pfx[p].list[k])
      BY <1>5, <3>1, <3>2 DEF Entries, Lowered, Marked
    <3>4. c = n.pfx[p].list[k]
      BY <1>5, <3>1, <3>3 DEF Lowered, Marked
    <3> QED BY <3>1, <3>3, <3>4 DEF On, Range
  <2>2. ASSUME NEW c \in On(n, p), ~Has(T, p, c) PROVE c \in On(m, p)
    <3>1. PICK k \in DOMAIN n.pfx[p].list : c = n.pfx[p].list[k] /\ c.enabled
      BY DEF On, Range
    <3>2. m.pfx[p].list[k] = c
      BY <1>5, <2>2, <3>1 DEF Lowered, Marked
    <3> QED BY <1>5, <3>1, <3>2 DEF On, Range
  <2> QED BY <1>4, <2>1, <2>2
<1>7. \A p, c : AddressOf(m, p, c) = AddressOf(n, p, c) /\ Unreachable(m, p, c) = Unreachable(n, p, c)
  BY <1>2 DEF Frame, AddressOf, Unreachable
<1>8. \A p \in PrefixIds : \A c : c \in On(m, p) <=> c \in On(n, p) /\ ~Has(T, p, c)
  BY <1>4, <1>6
<1>9. Held(m)
  BY <1>1, <1>2, <1>8 DEF Held, Frame
<1>10. AddrInv(m)
  <2>1. ASSUME NEW a \in m.addrs
        PROVE  \E p \in PrefixIds : \E c \in On(m, p) : a = AddressOf(m, p, c)
    <3>1. PICK p, c : p \in PrefixIds /\ c \in On(n, p) /\ a = AddressOf(n, p, c)
      BY <1>1, <1>2 DEF AddrInv
    <3>3. a \in AddressesFor(n, T) <=> \E q, d : Has(T, q, d) /\ a = AddressOf(n, q, d)
      BY <1>14, AddressesOf
    <3>2. ~Has(T, p, c)
      BY <1>2, <3>1, <3>3
    <3> QED BY <1>7, <1>8, <3>1, <3>2
  <2>2. ASSUME NEW p \in PrefixIds, NEW c \in On(m, p), NEW a, a = AddressOf(m, p, c)
        PROVE  a \in m.addrs
    <3>1. c \in On(n, p) /\ ~Has(T, p, c) /\ a = AddressOf(n, p, c)
      BY <1>7, <1>8, <2>2
    <3>2. a \in n.addrs
      BY <1>1, <3>1 DEF AddrInv
    <3>3. ASSUME NEW q, NEW d, Has(T, q, d), a = AddressOf(n, q, d) PROVE FALSE
      <4>1. c \in Range(n.pfx[p].list) /\ d \in Range(n.pfx[q].list)
        BY <1>3, <3>1, <3>3 DEF On
      <4>2. AddressOf(n, p, c) = AddressOf(n, q, d)
        BY <3>1, <3>3
      <4>3. p = q /\ c = d
        BY <4>1, <4>2, AddressesApart
      <4> QED BY <3>1, <3>3, <4>3
    <3>4. a \in AddressesFor(n, T) <=> \E q, d : Has(T, q, d) /\ a = AddressOf(n, q, d)
      BY <1>14, AddressesOf
    <3>5. a \notin AddressesFor(n, T)
      BY <3>3, <3>4
    <3> QED BY <1>2, <3>2, <3>5
  <2> QED BY <2>1, <2>2 DEF AddrInv
<1>11. RuleInv(m)
  <2>1. ASSUME NEW r \in m.rules, r.table = 0
        PROVE  \E p \in PrefixIds \ {Ula} : \E c \in On(m, p) : r = Unreachable(m, p, c)
    <3>1. PICK p, c : p \in PrefixIds \ {Ula} /\ c \in On(n, p) /\ r = Unreachable(n, p, c)
      BY <1>1, <1>2, <2>1 DEF RuleInv
    <3>3. r \in RulesFor(n, T) /\ r.table = 0 <=>
            \E q, d : Has(T, q, d) /\ q # Ula /\ r = Unreachable(n, q, d)
      BY <1>14, RulesForIs
    <3>2. ~Has(T, p, c)
      BY <1>2, <2>1, <3>1, <3>3
    <3> QED BY <1>7, <1>8, <3>1, <3>2
  <2>2. ASSUME NEW p \in PrefixIds \ {Ula}, NEW c \in On(m, p), NEW r, r = Unreachable(m, p, c)
        PROVE  r \in m.rules /\ r.table = 0
    <3>1. c \in On(n, p) /\ ~Has(T, p, c) /\ r = Unreachable(n, p, c)
      BY <1>7, <1>8, <2>2
    <3>2. r \in n.rules /\ r.table = 0
      BY <1>1, <3>1 DEF RuleInv
    <3>3. ASSUME NEW q, NEW d, Has(T, q, d), r = Unreachable(n, q, d) PROVE FALSE
      <4>1. c \in Range(n.pfx[p].list) /\ d \in Range(n.pfx[q].list)
        BY <1>3, <3>1, <3>3 DEF On
      <4>2. AddressOf(n, p, c) = AddressOf(n, q, d)
        BY <3>1, <3>3 DEF Unreachable
      <4>3. p = q /\ c = d
        BY <4>1, <4>2, AddressesApart
      <4> QED BY <3>1, <3>3, <4>3
    <3>4. r \notin RulesFor(n, T)
      <4>1. \A q, d : ~(Has(T, q, d) /\ r = Unreachable(n, q, d))
        BY <3>3
      <4>2. r \in RulesFor(n, T) /\ r.table = 0 <=>
              \E q, d : Has(T, q, d) /\ q # Ula /\ r = Unreachable(n, q, d)
        BY <1>14, RulesForIs
      <4> QED BY <3>2, <4>1, <4>2, Zenon
    <3> QED BY <1>2, <3>2, <3>4
  <2> QED BY <2>1, <2>2 DEF RuleInv
<1>12. \A p \in PrefixIds : PrefixInv(m.pfx[p])
  BY <1>1, <1>5, PrefixIs, SamePrefixKeeps
<1> QED BY <1>2, <1>5, <1>6, <1>9, <1>10, <1>11, <1>12 DEF Core, Spared

(* Those that an announcement is about. *)
Due(n, ps, is, willing, p, c) ==
  /\ p \in ps /\ c.name \in is \cap willing
  /\ n.ifs[c.name].l3 # NoDevice /\ n.ifs[c.name].state \in {"SETUP", "UP"}
Ready(n, ps, is, willing) ==
  {x \in Concerned(n, ps, is \cap willing) : n.ifs[x[2].name].state \in {"SETUP", "UP"}}

LEMMA ReadyIs ==
  ASSUME NEW n \in Nets, NEW ps \in SUBSET PrefixIds, NEW is \in SUBSET Names, NEW willing,
         NEW T, T = Ready(n, ps, is, willing)
  PROVE  /\ Pairs(T) /\ Pairs(Unmarked(T))
         /\ \A p, c : Has(T, p, c) <=>
              c \in Range(n.pfx[p].list) /\ Due(n, ps, is, willing, p, c)
         /\ \A p, c : Has(Unmarked(T), p, c) <=> Has(T, p, c) /\ ~c.enabled
         /\ AddressesFor(n, T) \subseteq Address
         /\ RulesFor(n, Unmarked(T)) \subseteq Rule
<1>1. /\ \A p, c : Has(T, p, c) <=>
           c \in Range(n.pfx[p].list) /\ Due(n, ps, is, willing, p, c)
      /\ Pairs(T)
  BY DEF Ready, Concerned, Due, Has, Pairs
<1>2. /\ \A p, c : Has(Unmarked(T), p, c) <=> Has(T, p, c) /\ ~c.enabled
      /\ Pairs(Unmarked(T))
  BY <1>1, UnmarkedIs
<1>7. Pairs(T) /\ Pairs(Unmarked(T))
  BY <1>1, <1>2
<1>3. ASSUME NEW p, NEW c, Has(T, p, c) PROVE AddressOf(n, p, c) \in Address
  BY <1>1, <1>3, AddressType DEF Due
<1>4. ASSUME NEW a \in AddressesFor(n, T) PROVE a \in Address
  <2>1. a \in AddressesFor(n, T) <=> \E p, c : Has(T, p, c) /\ a = AddressOf(n, p, c)
    BY <1>7, AddressesOf
  <2>2. PICK p, c : Has(T, p, c) /\ a = AddressOf(n, p, c)
    BY <2>1
  <2> QED BY <1>3, <2>2
<1>5. ASSUME NEW r \in RulesFor(n, Unmarked(T)) PROVE r \in Rule
  <2>3. \E p, c : \E t \in {0, n.table} :
          /\ Has(Unmarked(T), p, c) /\ p # Ula
          /\ r = RuleTo(n, p, c, t)
    BY <1>7, RulesForIs
  <2>1. PICK p, c, t : /\ Has(Unmarked(T), p, c) /\ t \in {0, n.table}
                       /\ r = RuleTo(n, p, c, t)
    BY <2>3
  <2>4. Has(T, p, c)
    BY <1>2, <2>1
  <2>2. AddressOf(n, p, c) \in Address /\ n.table \in Tables
    BY <1>3, <2>4, NetIs
  <2> QED BY <2>1, <2>2 DEF Rule, RuleTo
<1>6. AddressesFor(n, T) \subseteq Address /\ RulesFor(n, Unmarked(T)) \subseteq Rule
  BY <1>4, <1>5, Zenon
<1> QED BY <1>1, <1>2, <1>6

Refusing(n, is, willing) == n.refused \cup (is \ willing)

LEMMA AnnounceIs ==
  ASSUME NEW n, Core(n), NEW ps \in SUBSET PrefixIds, NEW is \in SUBSET Names, NEW willing,
         NEW m, m = Announce(n, ps, is, willing)
  PROVE  /\ Core(m) /\ Frame(n, m) /\ m.refused = Refusing(n, is, willing)
         /\ \A p \in PrefixIds : SamePrefix(n.pfx[p], m.pfx[p])
         /\ \A p \in PrefixIds : \A c \in Range(m.pfx[p].list) : \E d \in Range(n.pfx[p].list) :
              /\ d.name = c.name
              /\ c.enabled <=> d.enabled \/ Due(n, ps, is, willing, p, d)
<1>0. PICK T : T = Ready(n, ps, is, willing)
  OBVIOUS
<1>13. n \in Nets
  BY DEF Core
<1>1. Held(n) /\ AddrInv(n) /\ RuleInv(n) /\ \A p \in PrefixIds : PrefixInv(n.pfx[p])
  BY DEF Core
<1>16. PICK U : U = Unmarked(T)
  OBVIOUS
<1>3. \A p, c : Has(T, p, c) <=>
        c \in Range(n.pfx[p].list) /\ Due(n, ps, is, willing, p, c)
  <2>1. \A p, c : Has(Ready(n, ps, is, willing), p, c) <=>
          c \in Range(n.pfx[p].list) /\ Due(n, ps, is, willing, p, c)
    BY <1>13, ReadyIs
  <2> QED BY <1>0, <2>1
<1>17. \A p, c : Has(U, p, c) <=> Has(T, p, c) /\ ~c.enabled
  BY <1>0, <1>13, <1>16, ReadyIs
<1>18. Pairs(T) /\ Pairs(U)
  BY <1>0, <1>13, <1>16, ReadyIs
<1>19. AddressesFor(n, T) \subseteq Address /\ RulesFor(n, U) \subseteq Rule
  BY <1>0, <1>13, <1>16, ReadyIs
<1>2. /\ m \in Nets /\ Frame(n, m) /\ m.refused = n.refused \cup (is \ willing)
      /\ \A p \in PrefixIds :
           /\ SamePrefix(n.pfx[p], m.pfx[p]) /\ DOMAIN m.pfx[p].list = DOMAIN n.pfx[p].list
           /\ \A k \in DOMAIN n.pfx[p].list :
                m.pfx[p].list[k] = Raised(T, p, n.pfx[p].list[k])
      /\ m.addrs = n.addrs \cup AddressesFor(n, T)
      /\ m.rules = n.rules \cup RulesFor(n, U)
  <2> DEFINE A == AddressesFor(n, T)
             R == RulesFor(n, U)
             K == Mark(n, T, TRUE)
             S == is \ willing
  <2>1. m = [n EXCEPT !.refused = @ \cup S, !.addrs = @ \cup A, !.rules = @ \cup R, !.pfx = K]
    BY <1>0, <1>16 DEF Announce, Ready, Unmarked, AddressesFor
  <2>2. K \in [PrefixIds -> Prefix]
    BY <1>13, MarkIs
  <2>3. \A v \in BOOLEAN : \A p \in PrefixIds :
          /\ SamePrefix(n.pfx[p], Mark(n, T, v)[p])
          /\ DOMAIN Mark(n, T, v)[p].list = DOMAIN n.pfx[p].list
          /\ \A k \in DOMAIN n.pfx[p].list :
               Mark(n, T, v)[p].list[k] = Marked(T, v, p, n.pfx[p].list[k])
    BY <1>13, MarkIs
  <2>4. \A p \in PrefixIds :
          /\ SamePrefix(n.pfx[p], K[p]) /\ DOMAIN K[p].list = DOMAIN n.pfx[p].list
          /\ \A k \in DOMAIN n.pfx[p].list :
               K[p].list[k] = Raised(T, p, n.pfx[p].list[k])
    BY <2>3 DEF Raised
  <2>8. A \subseteq Address /\ R \subseteq Rule /\ S \subseteq Names
    BY <1>19
  <2> HIDE DEF A, R, K, S
  <2>5. /\ m.ifs = n.ifs /\ m.table = n.table /\ m.delegate = n.delegate
        /\ m.refresh = n.refresh /\ m.refused = n.refused \cup S
        /\ m.addrs = n.addrs \cup A /\ m.rules = n.rules \cup R /\ m.pfx = K
    BY <1>13, <2>1 DEF Nets
  <2>6. m \in Nets
    BY <1>13, <2>1, <2>2, <2>8, ZenonT(60) DEF Nets
  <2>7. Frame(n, m)
    BY <2>5 DEF Frame
  <2> QED BY <2>4, <2>5, <2>6, <2>7 DEF A, R, S
<1>4. ASSUME NEW p \in PrefixIds, NEW d \in Range(n.pfx[p].list)
      PROVE  /\ Raised(T, p, d).name = d.name /\ Raised(T, p, d).at = d.at
             /\ Raised(T, p, d).length = d.length
             /\ Raised(T, p, d).enabled <=> d.enabled \/ Has(T, p, d)
  <2>1. d \in Entries
    BY <1>13, PrefixIs
  <2> QED BY <2>1 DEF Raised, Marked, Entries
<1>5. ASSUME NEW p \in PrefixIds, NEW c \in Range(m.pfx[p].list)
      PROVE  \E d \in Range(n.pfx[p].list) : c = Raised(T, p, d)
  BY <1>2 DEF Range
<1>6. ASSUME NEW p \in PrefixIds, NEW d \in Range(n.pfx[p].list)
      PROVE  Raised(T, p, d) \in Range(m.pfx[p].list)
  BY <1>2 DEF Range
<1>7. ASSUME NEW p \in PrefixIds, NEW d \in Range(n.pfx[p].list), NEW c, c = Raised(T, p, d)
      PROVE  /\ AddressOf(m, p, c) = AddressOf(n, p, d)
             /\ Unreachable(m, p, c) = Unreachable(n, p, d)
  <2>1. m.ifs = n.ifs
    BY <1>2 DEF Frame
  <2>2. c.name = d.name /\ c.at = d.at /\ c.length = d.length
    BY <1>4, <1>7
  <2> QED BY <2>1, <2>2 DEF AddressOf, Unreachable
<1>8. ASSUME NEW p \in PrefixIds, NEW c \in On(m, p)
      PROVE  \E d \in Range(n.pfx[p].list) :
               c = Raised(T, p, d) /\ (d \in On(n, p) \/ Has(T, p, d))
  <2>1. c \in Range(m.pfx[p].list) /\ c.enabled
    BY DEF On
  <2>2. PICK d \in Range(n.pfx[p].list) : c = Raised(T, p, d)
    BY <1>5, <2>1
  <2>3. d.enabled \/ Has(T, p, d)
    BY <1>4, <2>1, <2>2
  <2> QED BY <2>2, <2>3 DEF On
<1>9. ASSUME NEW p \in PrefixIds, NEW d, d \in On(n, p) \/ Has(T, p, d)
      PROVE  d \in Range(n.pfx[p].list) /\ Raised(T, p, d) \in On(m, p)
  BY <1>3, <1>4, <1>6, <1>9 DEF On
<1>10. Held(m)
  <2>1. ASSUME NEW p \in PrefixIds, NEW c \in On(m, p)
        PROVE  c.name \in Names /\ n.ifs[c.name].l3 # NoDevice
    <3>1. PICK d \in Range(n.pfx[p].list) :
            c = Raised(T, p, d) /\ (d \in On(n, p) \/ Has(T, p, d))
      BY <1>8
    <3>2. c.name = d.name
      BY <1>4, <3>1
    <3> QED BY <1>1, <1>3, <3>1, <3>2 DEF Held, Due
  <2> QED BY <1>2, <2>1 DEF Held, Frame
<1>11. AddrInv(m)
  <2>1. ASSUME NEW a \in m.addrs
        PROVE  \E p \in PrefixIds : \E c \in On(m, p) : a = AddressOf(m, p, c)
    <3>1. CASE a \in n.addrs
      <4>1. PICK p, d : p \in PrefixIds /\ d \in On(n, p) /\ a = AddressOf(n, p, d)
        BY <1>1, <3>1 DEF AddrInv
      <4>2. d \in Range(n.pfx[p].list) /\ Raised(T, p, d) \in On(m, p)
        BY <1>9, <4>1
      <4> QED BY <1>7, <4>1, <4>2
    <3>2. CASE a \notin n.addrs
      <4>0. a \in AddressesFor(n, T) <=> \E p, d : Has(T, p, d) /\ a = AddressOf(n, p, d)
        BY <1>18, AddressesOf
      <4>1. PICK p, d : Has(T, p, d) /\ a = AddressOf(n, p, d)
        BY <1>2, <3>2, <4>0
      <4>2. p \in PrefixIds
        BY <1>3, <4>1 DEF Due
      <4> QED BY <1>7, <1>9, <4>1, <4>2
    <3> QED BY <3>1, <3>2
  <2>2. ASSUME NEW p \in PrefixIds, NEW c \in On(m, p), NEW a, a = AddressOf(m, p, c)
        PROVE  a \in m.addrs
    <3>1. PICK d \in Range(n.pfx[p].list) :
            c = Raised(T, p, d) /\ (d \in On(n, p) \/ Has(T, p, d))
      BY <1>8
    <3>2. a = AddressOf(n, p, d)
      BY <1>7, <2>2, <3>1
    <3>3. d \in On(n, p) => a \in n.addrs
      BY <1>1, <3>2 DEF AddrInv
    <3>5. a \in AddressesFor(n, T) <=> \E q, x : Has(T, q, x) /\ a = AddressOf(n, q, x)
      BY <1>18, AddressesOf
    <3>4. Has(T, p, d) => a \in AddressesFor(n, T)
      BY <3>2, <3>5
    <3> QED BY <1>2, <3>1, <3>3, <3>4
  <2> QED BY <2>1, <2>2 DEF AddrInv
<1>12. RuleInv(m)
  <2>1. ASSUME NEW r \in m.rules, r.table = 0
        PROVE  \E p \in PrefixIds \ {Ula} : \E c \in On(m, p) : r = Unreachable(m, p, c)
    <3>1. CASE r \in n.rules
      <4>1. PICK p, d : p \in PrefixIds \ {Ula} /\ d \in On(n, p) /\ r = Unreachable(n, p, d)
        BY <1>1, <2>1, <3>1 DEF RuleInv
      <4>2. d \in Range(n.pfx[p].list) /\ Raised(T, p, d) \in On(m, p)
        BY <1>9, <4>1
      <4> QED BY <1>7, <4>1, <4>2
    <3>2. CASE r \notin n.rules
      <4>0. r \in RulesFor(n, U) /\ r.table = 0
        BY <1>2, <2>1, <3>2
      <4>1. PICK p, d : Has(U, p, d) /\ p # Ula /\ r = Unreachable(n, p, d)
        <5>2. r \in RulesFor(n, U) /\ r.table = 0 <=>
                \E p, c : Has(U, p, c) /\ p # Ula /\ r = Unreachable(n, p, c)
          BY <1>18, RulesForIs
        <5> QED BY <4>0, <5>2
      <4>2. p \in PrefixIds /\ Has(T, p, d)
        BY <1>3, <1>17, <4>1 DEF Due
      <4> QED BY <1>7, <1>9, <4>1, <4>2
    <3> QED BY <3>1, <3>2
  <2>2. ASSUME NEW p \in PrefixIds \ {Ula}, NEW c \in On(m, p), NEW r, r = Unreachable(m, p, c)
        PROVE  r \in m.rules /\ r.table = 0
    <3>1. PICK d \in Range(n.pfx[p].list) :
            c = Raised(T, p, d) /\ (d \in On(n, p) \/ Has(T, p, d))
      BY <1>8
    <3>2. r = Unreachable(n, p, d)
      BY <1>7, <2>2, <3>1
    <3>3. d \in On(n, p) => r \in n.rules /\ r.table = 0
      BY <1>1, <3>2 DEF RuleInv
    <3>4. d \notin On(n, p) => Has(U, p, d)
      BY <1>17, <3>1 DEF On
    <3>6. r \in RulesFor(n, U) /\ r.table = 0 <=>
            \E q, x : Has(U, q, x) /\ q # Ula /\ r = Unreachable(n, q, x)
      BY <1>18, RulesForIs
    <3>5. Has(U, p, d) => r \in RulesFor(n, U) /\ r.table = 0
      BY <3>2, <3>6
    <3> QED BY <1>2, <3>3, <3>4, <3>5
  <2> QED BY <2>1, <2>2 DEF RuleInv
<1>14. \A p \in PrefixIds : PrefixInv(m.pfx[p])
  BY <1>1, <1>2, <1>13, PrefixIs, SamePrefixKeeps
<1>15. ASSUME NEW p \in PrefixIds, NEW c \in Range(m.pfx[p].list)
       PROVE  \E d \in Range(n.pfx[p].list) :
                d.name = c.name /\ (c.enabled <=> d.enabled \/ Due(n, ps, is, willing, p, d))
  <2>1. PICK d \in Range(n.pfx[p].list) : c = Raised(T, p, d)
    BY <1>5
  <2>2. d.name = c.name /\ (c.enabled <=> d.enabled \/ Has(T, p, d))
    BY <1>4, <2>1
  <2> QED BY <1>3, <2>2
<1> QED BY <1>2, <1>10, <1>11, <1>12, <1>14, <1>15 DEF Core, Refusing

(* Where nothing is announced for an interface, it may change its device.   *)
LEMMA CoreStays ==
  ASSUME NEW n, Core(n), NEW m \in Nets,
         m.pfx = n.pfx, m.addrs = n.addrs, m.rules = n.rules,
         \A j \in Names : m.ifs[j].l3 = n.ifs[j].l3 \/ Off(n, j)
  PROVE  Core(m) /\ \A p : On(m, p) = On(n, p)
<1>1. \A p : On(m, p) = On(n, p)
  BY DEF On
<1>2. n \in Nets /\ Held(n) /\ AddrInv(n) /\ RuleInv(n) /\ \A p \in PrefixIds : PrefixInv(n.pfx[p])
  BY DEF Core
<1>3. ASSUME NEW p \in PrefixIds, NEW c \in On(n, p)
      PROVE  /\ c.name \in Names /\ m.ifs[c.name].l3 = n.ifs[c.name].l3
             /\ AddressOf(m, p, c) = AddressOf(n, p, c)
             /\ Unreachable(m, p, c) = Unreachable(n, p, c)
  <2>1. c.name \in Names /\ m.ifs[c.name].l3 = n.ifs[c.name].l3
    BY <1>2 DEF Held, Off
  <2> QED BY <2>1 DEF AddressOf, Unreachable
<1>4. Held(m)
  BY <1>1, <1>2, <1>3 DEF Held
<1>5. AddrInv(m)
  BY <1>1, <1>2, <1>3 DEF AddrInv
<1>6. RuleInv(m)
  BY <1>1, <1>2, <1>3 DEF RuleInv
<1>7. \A p \in PrefixIds : PrefixInv(m.pfx[p])
  BY <1>2
<1> QED BY <1>1, <1>4, <1>5, <1>6, <1>7 DEF Core

(* No two assignments of a prefix are for the same. *)
LEMMA OnlyOne ==
  ASSUME NEW n, Core(n), NEW p \in PrefixIds,
         NEW c \in Range(n.pfx[p].list), NEW d \in Range(n.pfx[p].list), c.name = d.name
  PROVE  c = d
<1>1. n \in Nets /\ PrefixInv(n.pfx[p])
  BY DEF Core
<1>2. n.pfx[p].list # << >>
  BY <1>1, PrefixIs DEF Range
<1> QED BY <1>1, <1>2 DEF PrefixInv, Answers, WellMade

(* What has become of the marks of j in p: none has been set, none taken.   *)
Calmer(n, m, j, p) ==
  \A c \in On(m, p) : c.name = j => \E d \in On(n, p) : d.name = j
Brighter(n, m, j, p) ==
  \A c \in Range(m.pfx[p].list) :
    c.name = j => \E d \in Range(n.pfx[p].list) : d.name = j /\ (d.enabled => c.enabled)
Alight(m, j, p) == \A c \in Range(m.pfx[p].list) : c.name = j => c.enabled

LEMMA WithdrawMarks ==
  ASSUME NEW n, Core(n), NEW ps \in SUBSET PrefixIds, NEW is, NEW m, m = Withdraw(n, ps, is),
         NEW p \in PrefixIds, NEW j
  PROVE  /\ Calmer(n, m, j, p)
         /\ p \notin ps \/ j \notin is => Brighter(n, m, j, p)
         /\ p \in ps /\ j \in is => \A c \in On(m, p) : c.name # j
<1>4. Core(m)
  BY WithdrawIs
<1>5. \A q \in PrefixIds : SamePrefix(n.pfx[q], m.pfx[q])
  BY WithdrawIs
<1>6. \A q \in PrefixIds : \A c : c \in On(m, q) <=> Spared(n, ps, is, q, c)
  BY WithdrawIs
<1>1. Core(m) /\ SamePrefix(n.pfx[p], m.pfx[p])
  BY <1>4, <1>5
<1>2. \A c : c \in On(m, p) <=> c \in On(n, p) /\ ~(p \in ps /\ c.name \in is)
  BY <1>6 DEF Spared
<1>3. ASSUME p \notin ps \/ j \notin is, NEW c \in Range(m.pfx[p].list), c.name = j
      PROVE  \E d \in Range(n.pfx[p].list) : d.name = j /\ (d.enabled => c.enabled)
  <2>1. n.pfx[p].list \in Seq(Entries) /\ Alike(n.pfx[p].list, m.pfx[p].list)
    BY <1>1, PrefixIs DEF SamePrefix, Core
  <2>2. PICK d \in Range(n.pfx[p].list) : d.name = c.name
    BY <2>1, AlikeRange
  <2>3. ASSUME d.enabled PROVE c.enabled
    <3>1. d \in On(m, p)
      BY <1>2, <1>3, <2>2, <2>3 DEF On
    <3>2. d \in Range(m.pfx[p].list)
      BY <3>1 DEF On
    <3>3. c = d
      BY <1>1, <2>2, <3>2, OnlyOne
    <3> QED BY <2>3, <3>3
  <2> QED BY <1>3, <2>2, <2>3
<1> QED BY <1>2, <1>3 DEF Calmer, Brighter

LEMMA AnnounceMarks ==
  ASSUME NEW n, Core(n), NEW ps \in SUBSET PrefixIds, NEW is \in SUBSET Names, NEW willing,
         NEW m, m = Announce(n, ps, is, willing),
         NEW p \in PrefixIds, NEW j
  PROVE  /\ Brighter(n, m, j, p)
         /\ j \notin is \/ n.ifs[j].state \notin {"SETUP", "UP"} => Calmer(n, m, j, p)
         /\ /\ p \in ps /\ j \in is /\ j \notin m.refused
            /\ n.ifs[j].l3 # NoDevice /\ n.ifs[j].state \in {"SETUP", "UP"}
            => Alight(m, j, p)
<1>6. \A q \in PrefixIds : \A c \in Range(m.pfx[q].list) : \E d \in Range(n.pfx[q].list) :
        /\ d.name = c.name
        /\ c.enabled <=> d.enabled \/ Due(n, ps, is, willing, q, d)
  BY AnnounceIs, ZenonT(60)
<1>1. \A c \in Range(m.pfx[p].list) : \E d \in Range(n.pfx[p].list) :
        /\ d.name = c.name
        /\ c.enabled <=> d.enabled \/ Due(n, ps, is, willing, p, d)
  BY <1>6
<1>2. m.refused = Refusing(n, is, willing)
  BY AnnounceIs
<1>3. Brighter(n, m, j, p)
  BY <1>1 DEF Brighter
<1>4. ASSUME j \notin is \/ n.ifs[j].state \notin {"SETUP", "UP"} PROVE Calmer(n, m, j, p)
  BY <1>1, <1>4 DEF Calmer, On, Due
<1>5. ASSUME p \in ps, j \in is, j \notin m.refused,
             n.ifs[j].l3 # NoDevice, n.ifs[j].state \in {"SETUP", "UP"}
      PROVE  Alight(m, j, p)
  BY <1>1, <1>2, <1>5 DEF Alight, Due, Refusing
<1> QED BY <1>3, <1>4, <1>5

(* One that has not changed itself keeps to what it was told.               *)
LEMMA Unmoved ==
  ASSUME NEW n, NEW m, NEW j, m.ifs[j] = n.ifs[j], NEW p
  PROVE  /\ Stilled(n, j) /\ (\A q \in PrefixIds : Calmer(n, m, j, q)) => Stilled(m, j)
         /\ /\ Follows(n, j, p) /\ Brighter(n, m, j, p)
            /\ j \in n.refused => j \in m.refused
            => Follows(m, j, p)
<1>1. ASSUME Stilled(n, j), \A q \in PrefixIds : Calmer(n, m, j, q) PROVE Stilled(m, j)
  BY <1>1 DEF Stilled, Off, Calmer
<1>2. ASSUME Follows(n, j, p), Brighter(n, m, j, p), j \in n.refused => j \in m.refused
      PROVE  Follows(m, j, p)
  BY <1>2 DEF Follows, Brighter
<1> QED BY <1>1, <1>2

(***************************************************************************)
(* One interface alone                                                     *)
(***************************************************************************)

(* It has not changed, and its marks have not. *)
Untouched(n, m, j) ==
  /\ m.ifs[j] = n.ifs[j] /\ (j \in n.refused => j \in m.refused)
  /\ \A p \in PrefixIds : Calmer(n, m, j, p) /\ Brighter(n, m, j, p)
Alone(n, m, i) == \A j \in Names \ {i} : Untouched(n, m, j)

LEMMA AloneTwice ==
  ASSUME NEW n, NEW m, NEW t, NEW i, Alone(n, m, i), Alone(m, t, i)
  PROVE  Alone(n, t, i)
<1>1. ASSUME NEW j \in Names \ {i}, NEW p \in PrefixIds
      PROVE  Calmer(n, t, j, p) /\ Brighter(n, t, j, p)
  <2>1. /\ Calmer(n, m, j, p) /\ Brighter(n, m, j, p)
        /\ Calmer(m, t, j, p) /\ Brighter(m, t, j, p)
    BY DEF Alone, Untouched
  <2>2. Calmer(n, t, j, p)
    BY <2>1 DEF Calmer
  <2>3. Brighter(n, t, j, p)
    BY <2>1 DEF Brighter
  <2> QED BY <2>2, <2>3
<1> QED BY <1>1 DEF Alone, Untouched

(* One that changes only itself leaves the marks as they are. *)
LEMMA AloneStays ==
  ASSUME NEW n, NEW m, NEW i, m.pfx = n.pfx, n.refused \ {i} \subseteq m.refused,
         \A j \in Names \ {i} : m.ifs[j] = n.ifs[j]
  PROVE  Alone(n, m, i)
<1>1. ASSUME NEW j \in Names \ {i}, NEW p \in PrefixIds
      PROVE  Calmer(n, m, j, p) /\ Brighter(n, m, j, p)
  BY DEF Calmer, Brighter, On
<1> QED BY <1>1 DEF Alone, Untouched

LEMMA InvAlone ==
  ASSUME NEW n, Inv(n), NEW m, Core(m), NEW i, Alone(n, m, i),
         Stilled(m, i), \A p \in PrefixIds : Follows(m, i, p)
  PROVE  Inv(m)
<1>1. ASSUME NEW j \in Names \ {i}
      PROVE  Stilled(m, j) /\ \A p \in PrefixIds : Follows(m, j, p)
  <2>1. /\ m.ifs[j] = n.ifs[j] /\ (j \in n.refused => j \in m.refused)
        /\ \A p \in PrefixIds : Calmer(n, m, j, p) /\ Brighter(n, m, j, p)
    BY DEF Alone, Untouched
  <2>2. Stilled(n, j) /\ \A p \in PrefixIds : Follows(n, j, p)
    BY DEF Inv
  <2> QED BY <2>1, <2>2, Unmoved
<1> QED BY <1>1 DEF Inv

(* interface_ip_set_enabled *)
SetOff(n, i, w) == SetEnabled(n, i, FALSE, w)
SetOn(n, i, w) == SetEnabled(n, i, TRUE, w)
Dark(n, i) == [n.ifs EXCEPT ![i].enabled = FALSE]
Lit(n, i) == [n.ifs EXCEPT ![i].enabled = TRUE]
Forgiven(n, i) == n.refused \ {i}

LEMMA Dims ==
  ASSUME NEW n \in Nets, NEW i \in Names
  PROVE  /\ Dark(n, i) \in [Names -> IfState] /\ \A j \in Names \ {i} : Dark(n, i)[j] = n.ifs[j]
         /\ Dark(n, i)[i].l3 = n.ifs[i].l3 /\ Dark(n, i)[i].state = n.ifs[i].state
         /\ ~Dark(n, i)[i].enabled /\ Dark(n, i)[i].cfg = n.ifs[i].cfg
<1>1. n.ifs \in [Names -> IfState] /\ n.ifs[i] \in IfState
  BY DEF Nets
<1> QED BY <1>1 DEF Dark, IfState

LEMMA Lights ==
  ASSUME NEW n \in Nets, NEW i \in Names
  PROVE  /\ Lit(n, i) \in [Names -> IfState] /\ \A j \in Names \ {i} : Lit(n, i)[j] = n.ifs[j]
         /\ Lit(n, i)[i].l3 = n.ifs[i].l3 /\ Lit(n, i)[i].state = n.ifs[i].state
         /\ Lit(n, i)[i].enabled /\ Lit(n, i)[i].cfg = n.ifs[i].cfg
<1>1. n.ifs \in [Names -> IfState] /\ n.ifs[i] \in IfState
  BY DEF Nets
<1> QED BY <1>1 DEF Lit, IfState

LEMMA SetOffIs ==
  ASSUME NEW n, Core(n), NEW i \in Names, NEW w, NEW t, t = SetOff(n, i, w)
  PROVE  /\ Core(t) /\ Off(t, i) /\ t.ifs = Dark(n, i) /\ t.refused = Forgiven(n, i)
         /\ t.table = n.table /\ t.delegate = n.delegate /\ t.refresh = n.refresh
         /\ Alone(n, t, i)
<1>0. n \in Nets
  BY DEF Core
<1>1. PICK m : m = [n EXCEPT !.ifs = Dark(n, i), !.refused = Forgiven(n, i)]
  OBVIOUS
<1>2. t = Withdraw(m, PrefixIds, {i})
  BY <1>1, <1>0 DEF SetOff, SetEnabled, Dark, Forgiven, Nets
<1>3. /\ m.ifs = Dark(n, i) /\ m.refused = Forgiven(n, i) /\ m.pfx = n.pfx /\ m.addrs = n.addrs
      /\ m.rules = n.rules /\ m.table = n.table /\ m.delegate = n.delegate
      /\ m.refresh = n.refresh
  BY <1>0, <1>1 DEF Nets
<1>4. m \in Nets
  BY <1>0, <1>1, Dims DEF Nets, Forgiven
<1>5. Core(m)
  <2>1. \A j \in Names : m.ifs[j].l3 = n.ifs[j].l3
    BY <1>0, <1>3, Dims
  <2> QED BY <1>3, <1>4, <2>1, CoreStays
<1>6. Core(t) /\ Frame(m, t) /\ t.refused = m.refused
  BY <1>2, <1>5, WithdrawIs
<1>7. \A p \in PrefixIds : \A j :
        /\ Calmer(m, t, j, p)
        /\ j \notin {i} => Brighter(m, t, j, p)
        /\ j \in {i} => \A c \in On(t, p) : c.name # j
  <2> DEFINE is == {i}
  <2>1. t = Withdraw(m, PrefixIds, is) /\ PrefixIds \in SUBSET PrefixIds
    BY <1>2
  <2> HIDE DEF is
  <2>2. \A p \in PrefixIds : \A j :
          /\ Calmer(m, t, j, p)
          /\ p \notin PrefixIds \/ j \notin is => Brighter(m, t, j, p)
          /\ p \in PrefixIds /\ j \in is => \A c \in On(t, p) : c.name # j
    BY <1>5, <2>1, WithdrawMarks
  <2> QED BY <2>2 DEF is
<1>8. Off(t, i)
  BY <1>7 DEF Off
<1>9. Alone(m, t, i)
  <2>1. ASSUME NEW j \in Names \ {i} PROVE Untouched(m, t, j)
    BY <1>6, <1>7 DEF Untouched, Frame
  <2> QED BY <2>1 DEF Alone
<1>10. Alone(n, m, i)
  <2>1. \A j \in Names \ {i} : m.ifs[j] = n.ifs[j]
    BY <1>0, <1>3, Dims
  <2>2. n.refused \ {i} \subseteq m.refused
    BY <1>3 DEF Forgiven
  <2> QED BY <1>3, <2>1, <2>2, AloneStays
<1>11. Alone(n, t, i)
  BY <1>9, <1>10, AloneTwice
<1> QED BY <1>3, <1>6, <1>8, <1>11 DEF Frame

LEMMA SetOnIs ==
  ASSUME NEW n, Core(n), NEW i \in Names, NEW w, NEW t, t = SetOn(n, i, w)
  PROVE  /\ Core(t) /\ t.ifs = Lit(n, i)
         /\ t.table = n.table /\ t.delegate = n.delegate /\ t.refresh = n.refresh
         /\ Alone(n, t, i)
         /\ /\ n.ifs[i].l3 # NoDevice /\ n.ifs[i].state \in {"SETUP", "UP"} /\ i \notin t.refused
            => \A p \in PrefixIds : Alight(t, i, p)
<1>0. n \in Nets
  BY DEF Core
<1>1. PICK m : m = [n EXCEPT !.ifs = Lit(n, i)]
  OBVIOUS
<1>2. t = Announce(m, PrefixIds, {i}, w)
  BY <1>1, <1>0 DEF SetOn, SetEnabled, Lit, Nets
<1>3. /\ m.ifs = Lit(n, i) /\ m.refused = n.refused /\ m.pfx = n.pfx /\ m.addrs = n.addrs
      /\ m.rules = n.rules /\ m.table = n.table /\ m.delegate = n.delegate
      /\ m.refresh = n.refresh
  BY <1>0, <1>1 DEF Nets
<1>4. m \in Nets
  BY <1>0, <1>1, Lights DEF Nets
<1>5. Core(m)
  <2>1. \A j \in Names : m.ifs[j].l3 = n.ifs[j].l3
    BY <1>0, <1>3, Lights
  <2> QED BY <1>3, <1>4, <2>1, CoreStays
<1>6. PICK is : is = {i} /\ is \in SUBSET Names /\ t = Announce(m, PrefixIds, is, w)
  BY <1>2
<1>7. Core(t) /\ Frame(m, t) /\ t.refused = Refusing(m, is, w)
  BY <1>5, <1>6, AnnounceIs
<1>8. \A p \in PrefixIds : \A j :
        /\ Brighter(m, t, j, p)
        /\ j \notin is \/ m.ifs[j].state \notin {"SETUP", "UP"} => Calmer(m, t, j, p)
        /\ /\ p \in PrefixIds /\ j \in is /\ j \notin t.refused
           /\ m.ifs[j].l3 # NoDevice /\ m.ifs[j].state \in {"SETUP", "UP"}
           => Alight(t, j, p)
  BY <1>5, <1>6, AnnounceMarks
<1>9. Alone(m, t, i)
  <2>1. ASSUME NEW j \in Names \ {i} PROVE Untouched(m, t, j)
    BY <1>6, <1>7, <1>8 DEF Untouched, Frame, Refusing
  <2> QED BY <2>1 DEF Alone
<1>10. Alone(n, m, i)
  <2>1. \A j \in Names \ {i} : m.ifs[j] = n.ifs[j]
    BY <1>0, <1>3, Lights
  <2>2. n.refused \ {i} \subseteq m.refused
    BY <1>3
  <2> QED BY <1>3, <2>1, <2>2, AloneStays
<1>11. Alone(n, t, i)
  BY <1>9, <1>10, AloneTwice
<1>12. m.ifs[i].l3 = n.ifs[i].l3 /\ m.ifs[i].state = n.ifs[i].state /\ i \in is
  BY <1>0, <1>3, <1>6, Lights
<1> QED BY <1>3, <1>7, <1>8, <1>11, <1>12 DEF Frame

(* What an action changes of one interface. *)
LEMMA Altered ==
  ASSUME NEW n, Core(n), NEW i \in Names, NEW m \in Nets,
         m.pfx = n.pfx, m.addrs = n.addrs, m.rules = n.rules, m.refused = n.refused,
         \A j \in Names \ {i} : m.ifs[j] = n.ifs[j],
         m.ifs[i].l3 = n.ifs[i].l3 \/ Off(n, i)
  PROVE  /\ Core(m) /\ Alone(n, m, i) /\ (Off(n, i) => Off(m, i))
         /\ \A p \in PrefixIds : Alight(n, i, p) => Alight(m, i, p)
<1>1. Core(m) /\ \A p : On(m, p) = On(n, p)
  <2>1. \A j \in Names : m.ifs[j].l3 = n.ifs[j].l3 \/ Off(n, j)
    OBVIOUS
  <2> QED BY <2>1, CoreStays
<1>2. Alone(n, m, i)
  BY AloneStays
<1> QED BY <1>1, <1>2 DEF Off, Alight

(***************************************************************************)
(* The actions of an interface                                             *)
(***************************************************************************)

LEMMA SetupKeeps ==
  ASSUME IInv, NEW i \in Names, Setup(i)
  PROVE  IInv'
<1>1. /\ net.ifs[i].state = "DOWN" /\ net' = [net EXCEPT !.ifs[i].state = "SETUP"]
  BY DEF Setup
<1>2. Core(net) /\ net \in Nets /\ Stilled(net, i)
  BY DEF IInv, Inv, Core
<1>3. /\ net' \in Nets /\ net'.pfx = net.pfx /\ net'.addrs = net.addrs
      /\ net'.rules = net.rules /\ net'.refused = net.refused
      /\ \A j \in Names \ {i} : net'.ifs[j] = net.ifs[j]
      /\ net'.ifs[i].l3 = net.ifs[i].l3 /\ net'.ifs[i].state = "SETUP"
      /\ net'.ifs[i].enabled = net.ifs[i].enabled
  BY <1>1, <1>2 DEF Nets, IfState
<1>4. Core(net') /\ Alone(net, net', i)
  BY <1>2, <1>3, Altered
<1>5. Stilled(net', i) /\ \A p \in PrefixIds : Follows(net', i, p)
  BY <1>1, <1>2, <1>3 DEF Stilled, Follows
<1> QED BY <1>4, <1>5, InvAlone DEF IInv

LEMMA TeardownKeeps ==
  ASSUME IInv, NEW i \in Names, Teardown(i)
  PROVE  IInv'
<1>1. net' = [net EXCEPT !.ifs[i].state = "TEARDOWN"]
  BY DEF Teardown
<1>2. Core(net) /\ net \in Nets
  BY DEF IInv, Inv, Core
<1>3. /\ net' \in Nets /\ net'.pfx = net.pfx /\ net'.addrs = net.addrs
      /\ net'.rules = net.rules /\ net'.refused = net.refused
      /\ \A j \in Names \ {i} : net'.ifs[j] = net.ifs[j]
      /\ net'.ifs[i].l3 = net.ifs[i].l3 /\ net'.ifs[i].state = "TEARDOWN"
  BY <1>1, <1>2, ZenonT(60) DEF Nets, IfState
<1>4. Core(net') /\ Alone(net, net', i)
  BY <1>2, <1>3, Altered
<1>5. Stilled(net', i) /\ \A p \in PrefixIds : Follows(net', i, p)
  BY <1>3 DEF Stilled, Follows
<1> QED BY <1>4, <1>5, InvAlone DEF IInv

LEMMA UpKeeps ==
  ASSUME IInv, NEW i \in Names, Up(i)
  PROVE  IInv'
<1>1. PICK w : net.ifs[i].state = "SETUP" /\ net' = [SetOn(net, i, w) EXCEPT !.ifs[i].state = "UP"]
  BY DEF Up, SetOn
<1>2. Core(net) /\ net \in Nets
  BY DEF IInv, Inv, Core
<1>3. PICK m : m = SetOn(net, i, w)
  OBVIOUS
<1>4. /\ Core(m) /\ m.ifs = Lit(net, i) /\ Alone(net, m, i)
      /\ /\ net.ifs[i].l3 # NoDevice /\ net.ifs[i].state \in {"SETUP", "UP"} /\ i \notin m.refused
         => \A p \in PrefixIds : Alight(m, i, p)
  BY <1>2, <1>3, SetOnIs
<1>5. m.ifs[i].l3 = net.ifs[i].l3 /\ m \in Nets
  BY <1>2, <1>4, Lights DEF Core
<1>6. /\ net' \in Nets /\ net'.pfx = m.pfx /\ net'.addrs = m.addrs
      /\ net'.rules = m.rules /\ net'.refused = m.refused
      /\ \A j \in Names \ {i} : net'.ifs[j] = m.ifs[j]
      /\ net'.ifs[i].l3 = m.ifs[i].l3 /\ net'.ifs[i].state = "UP"
  BY <1>1, <1>3, <1>5, ZenonT(60) DEF Nets, IfState
<1>7. /\ Core(net') /\ Alone(m, net', i)
      /\ \A p \in PrefixIds : Alight(m, i, p) => Alight(net', i, p)
  BY <1>4, <1>6, Altered
<1>8. Alone(net, net', i)
  BY <1>4, <1>7, AloneTwice
<1>9. Stilled(net', i)
  BY <1>6 DEF Stilled
<1>10. ASSUME NEW p \in PrefixIds PROVE Follows(net', i, p)
  BY <1>1, <1>4, <1>5, <1>6, <1>7 DEF Follows, Alight
<1> QED BY <1>7, <1>8, <1>9, <1>10, InvAlone DEF IInv

(* Settings disabled, then state or device changed: none of its addresses   *)
(* is left.                                                                 *)
LEMMA DarkKeeps ==
  ASSUME NEW n, Core(n), NEW i \in Names, NEW w, NEW m, m = SetOff(n, i, w), NEW t \in Nets,
         t.pfx = m.pfx, t.addrs = m.addrs, t.rules = m.rules, t.refused = m.refused,
         \A j \in Names \ {i} : t.ifs[j] = m.ifs[j],
         t.ifs[i].enabled = m.ifs[i].enabled
  PROVE  /\ Core(t) /\ Alone(n, t, i) /\ Off(t, i) /\ ~t.ifs[i].enabled
         /\ Stilled(t, i) /\ \A p \in PrefixIds : Follows(t, i, p)
<1>1. Core(m) /\ Off(m, i) /\ m.ifs = Dark(n, i) /\ Alone(n, m, i) /\ n \in Nets
  BY SetOffIs DEF Core
<1>2. ~m.ifs[i].enabled
  BY <1>1, Dims
<1>3. Core(t) /\ Alone(m, t, i) /\ Off(t, i)
  BY <1>1, Altered
<1>4. Alone(n, t, i)
  BY <1>1, <1>3, AloneTwice
<1> QED BY <1>2, <1>3, <1>4 DEF Stilled, Follows

LEMMA SetL3DevKeeps ==
  ASSUME IInv, NEW i \in Names, SetL3Dev(i)
  PROVE  IInv'
<1>1. PICK d \in Devices \ {net.ifs[i].l3}, claimed \in BOOLEAN, w \in Willing :
        LET m == [SetOff(net, i, w) EXCEPT !.ifs[i].l3 = d]
        IN  net' = IF claimed /\ net.ifs[i].enabled THEN SetOn(m, i, w) ELSE m
  BY DEF SetL3Dev, SetOff, SetOn
<1>2. Core(net) /\ net \in Nets /\ Stilled(net, i)
        /\ net.ifs[i].state \in {"DOWN", "SETUP", "UP"}
  BY DEF IInv, Inv, Core, SetL3Dev
<1>3. PICK m : m = SetOff(net, i, w)
  OBVIOUS
<1>4. PICK t : t = [m EXCEPT !.ifs[i].l3 = d]
  OBVIOUS
<1>5. net' = IF claimed /\ net.ifs[i].enabled THEN SetOn(t, i, w) ELSE t
  BY <1>1, <1>3, <1>4
<1>6. m \in Nets /\ m.ifs = Dark(net, i)
  BY <1>2, <1>3, SetOffIs DEF Core
<1>7. m.ifs[i].state = net.ifs[i].state
  BY <1>2, <1>6, Dims
<1>8. /\ t \in Nets /\ t.pfx = m.pfx /\ t.addrs = m.addrs
      /\ t.rules = m.rules /\ t.refused = m.refused
      /\ \A j \in Names \ {i} : t.ifs[j] = m.ifs[j]
      /\ t.ifs[i].enabled = m.ifs[i].enabled /\ t.ifs[i].state = m.ifs[i].state
      /\ t.ifs[i].l3 = d
  BY <1>4, <1>6, ZenonT(60) DEF Nets, IfState
<1>9. /\ Core(t) /\ Alone(net, t, i) /\ Off(t, i) /\ ~t.ifs[i].enabled
      /\ Stilled(t, i) /\ \A p \in PrefixIds : Follows(t, i, p)
  BY <1>2, <1>3, <1>8, DarkKeeps
<1>10. CASE ~(claimed /\ net.ifs[i].enabled)
  <2>1. net' = t
    BY <1>5, <1>10
  <2> QED BY <1>9, <2>1, InvAlone DEF IInv
<1>11. CASE claimed /\ net.ifs[i].enabled
  <2>1. net' = SetOn(t, i, w)
    BY <1>5, <1>11
  <2>2. net.ifs[i].state \in {"SETUP", "UP"}
    BY <1>2, <1>11 DEF Stilled
  <2>3. /\ Core(net') /\ net'.ifs = Lit(t, i) /\ Alone(t, net', i)
        /\ /\ t.ifs[i].l3 # NoDevice /\ t.ifs[i].state \in {"SETUP", "UP"}
           /\ i \notin net'.refused
           => \A p \in PrefixIds : Alight(net', i, p)
    BY <1>9, <2>1, SetOnIs
  <2>4. net'.ifs[i].l3 = t.ifs[i].l3 /\ net'.ifs[i].state = t.ifs[i].state
    BY <1>8, <2>3, Lights
  <2>5. Alone(net, net', i)
    BY <1>9, <2>3, AloneTwice
  <2>6. Stilled(net', i)
    BY <1>7, <1>8, <2>2, <2>4 DEF Stilled
  <2>7. ASSUME NEW p \in PrefixIds PROVE Follows(net', i, p)
    BY <2>3, <2>4 DEF Follows, Alight
  <2> QED BY <2>3, <2>5, <2>6, <2>7, InvAlone DEF IInv
<1> QED BY <1>10, <1>11

LEMMA MarkDownKeeps ==
  ASSUME IInv, NEW i \in Names, MarkDown(i)
  PROVE  IInv'
<1>1. PICK n : n = [net EXCEPT !.ifs[i].state = "DOWN"]
  OBVIOUS
<1>2. PICK w : w = {}
  OBVIOUS
<1>3. PICK m : m = SetOff(n, i, w)
  OBVIOUS
<1>4. \/ net' = m
      \/ net' = [m EXCEPT !.ifs[i].l3 = NoDevice]
      \/ net' = [m EXCEPT !.ifs[i].state = "SETUP"]
  BY <1>1, <1>2, <1>3 DEF MarkDown, SetOff
<1>5. Core(net) /\ net \in Nets
  BY DEF IInv, Inv, Core
<1>6. /\ n \in Nets /\ n.pfx = net.pfx /\ n.addrs = net.addrs
      /\ n.rules = net.rules /\ n.refused = net.refused
      /\ \A j \in Names \ {i} : n.ifs[j] = net.ifs[j]
      /\ n.ifs[i].l3 = net.ifs[i].l3
  BY <1>1, <1>5, ZenonT(60) DEF Nets, IfState
<1>7. Core(n) /\ Alone(net, n, i)
  BY <1>5, <1>6, Altered
<1>8. m \in Nets
  BY <1>3, <1>7, SetOffIs DEF Core
<1>9. /\ net' \in Nets /\ net'.pfx = m.pfx /\ net'.addrs = m.addrs
      /\ net'.rules = m.rules /\ net'.refused = m.refused
      /\ \A j \in Names \ {i} : net'.ifs[j] = m.ifs[j]
      /\ net'.ifs[i].enabled = m.ifs[i].enabled
  BY <1>4, <1>8 DEF Nets, IfState
<1>10. /\ Core(net') /\ Alone(n, net', i)
       /\ Stilled(net', i) /\ \A p \in PrefixIds : Follows(net', i, p)
  BY <1>3, <1>7, <1>9, DarkKeeps
<1>11. Alone(net, net', i)
  BY <1>7, <1>10, AloneTwice
<1> QED BY <1>10, <1>11, InvAlone DEF IInv

LEMMA FreeKeeps ==
  ASSUME IInv, NEW i \in Names, Free(i)
  PROVE  IInv'
<1>1. PICK w, m :
        /\ m = SetOff(net, i, w)
        /\ net' = [m EXCEPT !.ifs[i].state = "ABSENT", !.ifs[i].l3 = NoDevice]
  BY DEF Free, SetOff
<1>4. Core(net)
  BY DEF IInv, Inv
<1>5. m \in Nets
  BY <1>1, <1>4, SetOffIs DEF Core
<1>2. m.ifs \in [Names -> IfState] /\ m.ifs[i] \in IfState
  BY <1>5 DEF Nets
<1>3. PICK f : f = [m.ifs EXCEPT ![i].state = "ABSENT", ![i].l3 = NoDevice]
  OBVIOUS
<1>8. /\ f \in [Names -> IfState] /\ f[i].enabled = m.ifs[i].enabled
      /\ \A j \in Names \ {i} : f[j] = m.ifs[j]
  BY <1>2, <1>3 DEF IfState
<1>9. PICK t : t = [m EXCEPT !.ifs = f]
  OBVIOUS
<1>10. net' = t
  BY <1>1, <1>3, <1>5, <1>9 DEF Nets
<1>6. /\ t \in Nets /\ t.pfx = m.pfx /\ t.addrs = m.addrs
      /\ t.rules = m.rules /\ t.refused = m.refused
      /\ \A j \in Names \ {i} : t.ifs[j] = m.ifs[j]
      /\ t.ifs[i].enabled = m.ifs[i].enabled
  BY <1>5, <1>8, <1>9 DEF Nets
<1>7. /\ Core(t) /\ Alone(net, t, i)
      /\ Stilled(t, i) /\ \A p \in PrefixIds : Follows(t, i, p)
  BY <1>1, <1>4, <1>6, DarkKeeps
<1> QED BY <1>7, <1>10, InvAlone DEF IInv

LEMMA CreateKeeps ==
  ASSUME IInv, NEW i \in Names, Create(i)
  PROVE  IInv'
<1>1. PICK c \in Configs :
        /\ net.ifs[i].state = "ABSENT"
        /\ net' = [net EXCEPT !.ifs[i].state = "DOWN", !.ifs[i].cfg = c]
  BY DEF Create
<1>2. Core(net) /\ net \in Nets /\ Stilled(net, i)
  BY DEF IInv, Inv, Core
<1>3. /\ net' \in Nets /\ net'.pfx = net.pfx /\ net'.addrs = net.addrs
      /\ net'.rules = net.rules /\ net'.refused = net.refused
      /\ \A j \in Names \ {i} : net'.ifs[j] = net.ifs[j]
      /\ net'.ifs[i].l3 = net.ifs[i].l3
      /\ net'.ifs[i].enabled = net.ifs[i].enabled
  BY <1>1, <1>2, ZenonT(60) DEF Nets, IfState
<1>4. Core(net') /\ Alone(net, net', i) /\ (Off(net, i) => Off(net', i))
  BY <1>2, <1>3, Altered
<1>5. Stilled(net', i) /\ \A p \in PrefixIds : Follows(net', i, p)
  BY <1>1, <1>2, <1>3, <1>4 DEF Stilled, Follows
<1> QED BY <1>4, <1>5, InvAlone DEF IInv

LEMMA ChangeConfigKeeps ==
  ASSUME IInv, NEW i \in Names, ChangeConfig(i)
  PROVE  IInv'
<1>1. PICK c \in Configs : net' = [net EXCEPT !.ifs[i].cfg = c, !.refresh = TRUE]
  BY DEF ChangeConfig
<1>2. /\ Core(net) /\ net \in Nets /\ Stilled(net, i)
      /\ \A p \in PrefixIds : Follows(net, i, p)
  BY DEF IInv, Inv, Core
<1>3. /\ net' \in Nets /\ net'.pfx = net.pfx /\ net'.addrs = net.addrs
      /\ net'.rules = net.rules /\ net'.refused = net.refused
      /\ \A j \in Names \ {i} : net'.ifs[j] = net.ifs[j]
      /\ net'.ifs[i].l3 = net.ifs[i].l3 /\ net'.ifs[i].state = net.ifs[i].state
      /\ net'.ifs[i].enabled = net.ifs[i].enabled
  BY <1>1, <1>2, ZenonT(60) DEF Nets, IfState
<1>4. Core(net') /\ Alone(net, net', i) /\ (Off(net, i) => Off(net', i))
  BY <1>2, <1>3, Altered
<1>5. Stilled(net', i) /\ \A p \in PrefixIds : Follows(net', i, p)
  BY <1>2, <1>3, <1>4 DEF Stilled, Follows
<1> QED BY <1>4, <1>5, InvAlone DEF IInv

LEMMA ChangeTableKeeps ==
  ASSUME IInv, ChangeTable
  PROVE  IInv'
<1>1. PICK t \in Tables : net' = [net EXCEPT !.table = t]
  BY DEF ChangeTable
<1>2. Core(net) /\ net \in Nets
  BY DEF IInv, Inv, Core
<1>3. /\ net' \in Nets /\ net'.pfx = net.pfx /\ net'.addrs = net.addrs
      /\ net'.rules = net.rules /\ net'.refused = net.refused /\ net'.ifs = net.ifs
  BY <1>1, <1>2 DEF Nets
<1>4. Core(net') /\ \A p : On(net', p) = On(net, p)
  BY <1>2, <1>3, CoreStays
<1>5. ASSUME NEW i \in Names PROVE Stilled(net', i) /\ \A p \in PrefixIds : Follows(net', i, p)
  BY <1>3, <1>4 DEF IInv, Inv, Stilled, Off, Follows
<1> QED BY <1>4, <1>5 DEF IInv, Inv

(***************************************************************************)
(* One prefix alone                                                        *)
(***************************************************************************)

(* All is well but the marks of p, which need not be set yet. *)
Partial(n, p) ==
  /\ Core(n)
  /\ \A i \in Names : Stilled(n, i) /\ \A q \in PrefixIds \ {p} : Follows(n, i, q)
Quiet(n, p) == \A c \in Range(n.pfx[p].list) : ~c.enabled

(* The same marks for the same interfaces. *)
LEMMA CoreLists ==
  ASSUME NEW n, Core(n), NEW m \in Nets,
         m.ifs = n.ifs, m.addrs = n.addrs, m.rules = n.rules,
         \A q \in PrefixIds : PrefixInv(m.pfx[q]) /\ On(m, q) = On(n, q)
  PROVE  Core(m) /\ \A i \in Names : Stilled(n, i) => Stilled(m, i)
<1>1. n \in Nets /\ Held(n) /\ AddrInv(n) /\ RuleInv(n)
  BY DEF Core
<1>2. \A p, c : AddressOf(m, p, c) = AddressOf(n, p, c) /\ Unreachable(m, p, c) = Unreachable(n, p, c)
  BY DEF AddressOf, Unreachable
<1>3. Held(m)
  BY <1>1 DEF Held
<1>4. AddrInv(m)
  BY <1>1, <1>2 DEF AddrInv
<1>5. RuleInv(m)
  BY <1>1, <1>2 DEF RuleInv
<1>6. \A i \in Names : Stilled(n, i) => Stilled(m, i)
  BY DEF Stilled, Off
<1> QED BY <1>3, <1>4, <1>5, <1>6 DEF Core

Swapped(n, p, pf) == [n EXCEPT !.pfx[p] = pf]

LEMMA PrefixSwapped ==
  ASSUME NEW n, NEW p \in PrefixIds, Partial(n, p), Quiet(n, p),
         NEW pf \in Prefix, PrefixInv(pf), \A c \in Range(pf.list) : ~c.enabled,
         NEW m, m = Swapped(n, p, pf)
  PROVE  /\ Partial(m, p) /\ Quiet(m, p) /\ m.pfx[p] = pf
         /\ \A q \in PrefixIds \ {p} : m.pfx[q] = n.pfx[q]
         /\ Frame(n, m) /\ m.refused = n.refused
<1>1. Core(n) /\ n \in Nets /\ \A q \in PrefixIds : PrefixInv(n.pfx[q])
  BY DEF Partial, Core
<1>2. /\ m \in Nets /\ m.ifs = n.ifs /\ m.addrs = n.addrs /\ m.rules = n.rules
      /\ m.table = n.table /\ m.delegate = n.delegate /\ m.refresh = n.refresh
      /\ m.refused = n.refused
      /\ m.pfx[p] = pf /\ \A q \in PrefixIds \ {p} : m.pfx[q] = n.pfx[q]
  BY <1>1 DEF Nets, Swapped
<1>3. ASSUME NEW q \in PrefixIds PROVE PrefixInv(m.pfx[q]) /\ On(m, q) = On(n, q)
  <2>1. CASE q = p
    BY <1>2, <2>1 DEF On, Quiet
  <2>2. CASE q # p
    BY <1>1, <1>2, <2>2 DEF On
  <2> QED BY <2>1, <2>2
<1>4. Core(m) /\ \A i \in Names : Stilled(m, i)
  BY <1>1, <1>2, <1>3, CoreLists DEF Partial
<1>5. ASSUME NEW i \in Names, NEW q \in PrefixIds \ {p} PROVE Follows(m, i, q)
  BY <1>2 DEF Partial, Follows
<1> QED BY <1>2, <1>4, <1>5 DEF Partial, Quiet, Frame

(* All is well with one that has no assignments. *)
LEMMA Undivided ==
  ASSUME NEW n, NEW p \in PrefixIds, Partial(n, p), n.pfx[p].list = << >>
  PROVE  Inv(n) /\ Quiet(n, p)
<1>1. \A c : c \notin Range(n.pfx[p].list)
  BY DEF Range
<1>2. ASSUME NEW i \in Names PROVE Follows(n, i, p)
  BY <1>1 DEF Follows
<1> QED BY <1>1, <1>2 DEF Partial, Inv, Quiet

LEMMA WithdrawPrefix ==
  ASSUME NEW n, NEW p \in PrefixIds, Partial(n, p),
         NEW m, m = Withdraw(n, {p}, Names)
  PROVE  /\ Partial(m, p) /\ Quiet(m, p) /\ Frame(n, m) /\ m.refused = n.refused
         /\ \A q \in PrefixIds : SamePrefix(n.pfx[q], m.pfx[q])
<1>1. PICK ps \in SUBSET PrefixIds : ps = {p} /\ m = Withdraw(n, ps, Names)
  OBVIOUS
<1>2. Core(n)
  BY DEF Partial
<1>3. Core(m) /\ Frame(n, m) /\ m.refused = n.refused
  BY <1>1, <1>2, WithdrawIs
<1>4. \A q \in PrefixIds : SamePrefix(n.pfx[q], m.pfx[q])
  BY <1>1, <1>2, WithdrawIs
<1>5. \A q \in PrefixIds : \A j :
        /\ Calmer(n, m, j, q)
        /\ q \notin ps \/ j \notin Names => Brighter(n, m, j, q)
        /\ q \in ps /\ j \in Names => \A c \in On(m, q) : c.name # j
  BY <1>1, <1>2, WithdrawMarks
<1>6. \A j \in Names : m.ifs[j] = n.ifs[j]
  BY <1>3 DEF Frame
<1>7. ASSUME NEW j \in Names PROVE Stilled(m, j)
  <2>1. Stilled(n, j) /\ \A q \in PrefixIds : Calmer(n, m, j, q)
    BY <1>5 DEF Partial
  <2> QED BY <1>6, <2>1, Unmoved
<1>8. ASSUME NEW j \in Names, NEW q \in PrefixIds \ {p} PROVE Follows(m, j, q)
  <2>1. Follows(n, j, q) /\ Brighter(n, m, j, q)
    BY <1>1, <1>5 DEF Partial
  <2> QED BY <1>3, <1>6, <2>1, Unmoved
<1>9. Quiet(m, p)
  BY <1>1, <1>3, <1>5 DEF Quiet, On, Core, Held
<1> QED BY <1>3, <1>4, <1>7, <1>8, <1>9 DEF Partial

LEMMA AnnouncePrefix ==
  ASSUME NEW n, NEW p \in PrefixIds, Partial(n, p), NEW w,
         NEW t, t = Announce(n, {p}, Names, w)
  PROVE  /\ Inv(t) /\ Frame(n, t)
         /\ \A q \in PrefixIds : SamePrefix(n.pfx[q], t.pfx[q])
<1>1. PICK ps \in SUBSET PrefixIds, is \in SUBSET Names :
        ps = {p} /\ is = Names /\ t = Announce(n, ps, is, w)
  OBVIOUS
<1>2. Core(n)
  BY DEF Partial
<1>3. Core(t) /\ Frame(n, t) /\ t.refused = Refusing(n, is, w)
  BY <1>1, <1>2, AnnounceIs
<1>4. \A q \in PrefixIds : SamePrefix(n.pfx[q], t.pfx[q])
  BY <1>1, <1>2, AnnounceIs
<1>5. \A q \in PrefixIds : \A j :
        /\ Brighter(n, t, j, q)
        /\ j \notin is \/ n.ifs[j].state \notin {"SETUP", "UP"} => Calmer(n, t, j, q)
        /\ /\ q \in ps /\ j \in is /\ j \notin t.refused
           /\ n.ifs[j].l3 # NoDevice /\ n.ifs[j].state \in {"SETUP", "UP"}
           => Alight(t, j, q)
  BY <1>1, <1>2, AnnounceMarks
<1>6. \A j \in Names : t.ifs[j] = n.ifs[j]
  BY <1>3 DEF Frame
<1>7. ASSUME NEW j \in Names PROVE Stilled(t, j)
  <2>1. CASE n.ifs[j].state \in {"SETUP", "UP"}
    BY <1>6, <2>1 DEF Stilled
  <2>2. CASE n.ifs[j].state \notin {"SETUP", "UP"}
    <3>1. Stilled(n, j) /\ \A q \in PrefixIds : Calmer(n, t, j, q)
      BY <1>5, <2>2 DEF Partial
    <3> QED BY <1>6, <3>1, Unmoved
  <2> QED BY <2>1, <2>2
<1>8. ASSUME NEW j \in Names, NEW q \in PrefixIds PROVE Follows(t, j, q)
  <2>1. CASE q = p
    BY <1>1, <1>5, <1>6, <2>1 DEF Follows, Alight
  <2>2. CASE q # p
    <3>1. Follows(n, j, q) /\ Brighter(n, t, j, q) /\ (j \in n.refused => j \in t.refused)
      BY <1>3, <1>5, <2>2 DEF Partial, Refusing
    <3> QED BY <1>6, <3>1, Unmoved
  <2> QED BY <2>1, <2>2
<1> QED BY <1>3, <1>4, <1>7, <1>8 DEF Inv

(***************************************************************************)
(* interface_update_prefix_assignments, interface_update_prefix            *)
(***************************************************************************)

LEMMA AskedIs ==
  ASSUME NEW n \in Nets, NEW p \in PrefixIds
  PROVE  Asked(n, p) \subseteq [name : Names, cfg : Configs]
<1>1. ASSUME NEW i \in Wanting(n, p) PROVE Wish(n, i) \in [name : Names, cfg : Configs]
  <2>1. i \in Names /\ n.ifs[i].cfg \in Configs
    BY WantingIs DEF Nets
  <2> QED BY <2>1 DEF Wish
<1> QED BY <1>1 DEF Asked

Divided(n, p) == [n.pfx[p] EXCEPT !.list = Divide(n, p), !.asked = Asked(n, p)]

LEMMA DividedIs ==
  ASSUME NEW n, Core(n), NEW p \in PrefixIds, n.pfx[p].live
  PROVE  /\ Divided(n, p) \in Prefix /\ PrefixInv(Divided(n, p)) /\ Divided(n, p).live
         /\ \A c \in Range(Divided(n, p).list) : ~c.enabled
<1>1. n \in Nets /\ PrefixInv(n.pfx[p])
  BY DEF Core
<1>2. Divisible(n, p)
  BY <1>1, NetIs, PrefixIs DEF Divisible, PrefixInv
<1>3. PICK L : L = Divide(n, p)
  OBVIOUS
<1>4. Answers(L, n.pfx[p].length, Asked(n, p)) /\ \A c \in Range(L) : ~c.enabled
  BY <1>2, <1>3, DivideIs
<1>5. L \in Seq(Entries)
  BY <1>4 DEF Answers, WellMade
<1>6. PICK A : A = Asked(n, p) /\ A \subseteq [name : Names, cfg : Configs]
  BY <1>1, AskedIs
<1>7. PICK pf : pf = [n.pfx[p] EXCEPT !.list = L, !.asked = A]
  OBVIOUS
<1>8. n.pfx[p] \in Prefix
  BY <1>1, PrefixIs
<1>9. /\ pf \in Prefix /\ pf.list = L /\ pf.asked = A /\ pf.live = n.pfx[p].live
      /\ pf.length = n.pfx[p].length /\ pf.excl = n.pfx[p].excl
  BY <1>5, <1>6, <1>7, <1>8 DEF Prefix
<1>10. PrefixInv(pf)
  BY <1>1, <1>4, <1>6, <1>9 DEF PrefixInv, ExclFits
<1>11. Divided(n, p) = pf
  BY <1>3, <1>6, <1>7 DEF Divided
<1> QED BY <1>4, <1>9, <1>10, <1>11

(* It depends on the interfaces and the prefix, not on the marks. *)
LEMMA UpdateKeeps ==
  ASSUME NEW n, NEW p \in PrefixIds, Partial(n, p), n.pfx[p].live, NEW w,
         NEW t, t = UpdatePrefixAssignments(n, p, w)
  PROVE  /\ Inv(t) /\ Frame(n, t)
         /\ \A q \in PrefixIds : t.pfx[q].live = n.pfx[q].live
<1>1. PICK m : m = Withdraw(n, {p}, Names)
  OBVIOUS
<1>2. PICK pf : pf = Divided(n, p)
  OBVIOUS
<1>3. PICK k : k = Swapped(m, p, pf)
  OBVIOUS
<1>4. /\ Partial(m, p) /\ Quiet(m, p) /\ Frame(n, m)
      /\ \A q \in PrefixIds : SamePrefix(n.pfx[q], m.pfx[q])
  BY <1>1, WithdrawPrefix
<1>5. pf \in Prefix /\ PrefixInv(pf) /\ pf.live /\ \A c \in Range(pf.list) : ~c.enabled
  BY <1>2, DividedIs DEF Partial
<1>6. t = Announce(k, {p}, Names, w)
  <2>1. n \in Nets /\ m \in Nets
    BY <1>4 DEF Partial, Core
  <2>2. PICK L, A : L = Divide(n, p) /\ A = Asked(n, p)
    OBVIOUS
  <2>3. t = Announce([m EXCEPT !.pfx[p].list = L, !.pfx[p].asked = A], {p}, Names, w)
    BY <1>1, <2>2 DEF UpdatePrefixAssignments, Asked, Wish
  <2>4. [m EXCEPT !.pfx[p].list = L, !.pfx[p].asked = A] = k
    <3>1. m.pfx[p] \in Prefix /\ n.pfx[p] \in Prefix /\ m.pfx \in [PrefixIds -> Prefix]
      BY <2>1 DEF Nets
    <3>2. /\ m.pfx[p].live = n.pfx[p].live /\ m.pfx[p].length = n.pfx[p].length
          /\ m.pfx[p].excl = n.pfx[p].excl
      BY <1>4 DEF SamePrefix
    <3>3. [m.pfx[p] EXCEPT !.list = L, !.asked = A] = pf
      BY <1>2, <2>2, <3>1, <3>2 DEF Divided, Prefix
    <3>4. [m EXCEPT !.pfx[p].list = L, !.pfx[p].asked = A]
            = [m EXCEPT !.pfx[p] = [m.pfx[p] EXCEPT !.list = L, !.asked = A]]
      BY <2>1, <3>1 DEF Nets
    <3> QED BY <1>3, <3>3, <3>4 DEF Swapped
  <2> QED BY <2>3, <2>4
<1>7. /\ Partial(k, p) /\ k.pfx[p] = pf /\ Frame(m, k)
      /\ \A q \in PrefixIds \ {p} : k.pfx[q] = m.pfx[q]
  BY <1>3, <1>4, <1>5, PrefixSwapped
<1>8. /\ Inv(t) /\ Frame(k, t)
      /\ \A q \in PrefixIds : SamePrefix(k.pfx[q], t.pfx[q])
  BY <1>6, <1>7, AnnouncePrefix
<1>9. ASSUME NEW q \in PrefixIds PROVE t.pfx[q].live = n.pfx[q].live
  <2>1. m.pfx[q].live = n.pfx[q].live /\ t.pfx[q].live = k.pfx[q].live
    BY <1>4, <1>8 DEF SamePrefix
  <2>2. p \in PrefixIds /\ pf.live = n.pfx[p].live
    BY <1>4, <1>5, PrefixIs DEF Partial, Core
  <2> QED BY <1>7, <2>1, <2>2
<1>10. Frame(n, t)
  BY <1>4, <1>7, <1>8 DEF Frame
<1> QED BY <1>8, <1>9, <1>10

LEMMA NoPrefixIs ==
  /\ NoPrefix \in Prefix /\ PrefixInv(NoPrefix) /\ NoPrefix.list = << >> /\ ~NoPrefix.live
  /\ \A c : c \notin Range(NoPrefix.list)
<1>1. 64 \in Lengths /\ NoExclusion \in Exclusions
  BY DelegationAssumption DEF Lengths
<1>2. /\ NoPrefix \in Prefix /\ NoPrefix.list = << >> /\ NoPrefix.live = FALSE
      /\ NoPrefix.asked = {} /\ NoPrefix.excl = NoExclusion
  BY <1>1 DEF NoPrefix, Prefix
<1>3. \A c : c \notin Range(NoPrefix.list)
  BY <1>2 DEF Range
<1>4. ExclFits(NoPrefix)
  BY <1>2 DEF ExclFits, NoExclusion
<1> QED BY <1>2, <1>3, <1>4 DEF PrefixInv

LEMMA InvPartial ==
  ASSUME NEW n, Inv(n), NEW p
  PROVE  Partial(n, p) /\ Core(n) /\ n \in Nets /\ \A q \in PrefixIds : PrefixInv(n.pfx[q])
BY DEF Inv, Partial, Core

LEMMA NewPrefixKeeps ==
  ASSUME NEW n, Inv(n), NEW p \in PrefixIds, ~n.pfx[p].live,
         NEW l \in PrefixLengths, NEW x \in Exclusions,
         x.length > 0 => x.length > l /\ x.at < Size(l),
         NEW w, NEW t, t = NewPrefix(n, p, l, x, w)
  PROVE  Inv(t)
<1>1. PICK pf : pf = [NoPrefix EXCEPT !.live = TRUE, !.length = l, !.excl = x]
  OBVIOUS
<1>2. l \in Lengths
  BY DelegationAssumption
<1>3. /\ pf \in Prefix /\ pf.live = TRUE /\ pf.length = l /\ pf.excl = x
      /\ pf.list = << >> /\ pf.asked = {}
  BY <1>1, <1>2, NoPrefixIs DEF NoPrefix, Prefix
<1>4. PrefixInv(pf)
  BY <1>3 DEF PrefixInv, ExclFits
<1>5. \A c \in Range(pf.list) : ~c.enabled
  BY <1>3 DEF Range
<1>6. Partial(n, p) /\ n.pfx[p].list = << >>
  BY InvPartial DEF PrefixInv
<1>7. Quiet(n, p)
  BY <1>6, Undivided
<1>8. PICK m : m = Swapped(n, p, pf)
  OBVIOUS
<1>9. Partial(m, p) /\ m.pfx[p] = pf
  BY <1>3, <1>4, <1>5, <1>6, <1>7, <1>8, PrefixSwapped
<1>10. t = IF Delegated(n, p) THEN UpdatePrefixAssignments(m, p, w) ELSE m
  BY <1>1, <1>8 DEF NewPrefix, Swapped
<1>11. CASE Delegated(n, p)
  <2>1. t = UpdatePrefixAssignments(m, p, w) /\ m.pfx[p].live
    BY <1>3, <1>9, <1>10, <1>11
  <2> QED BY <1>9, <2>1, UpdateKeeps
<1>12. CASE ~Delegated(n, p)
  <2>1. t = m /\ m.pfx[p].list = << >>
    BY <1>3, <1>9, <1>10, <1>12
  <2> QED BY <1>9, <2>1, Undivided
<1> QED BY <1>11, <1>12

LEMMA OldPrefixKeeps ==
  ASSUME NEW n, Inv(n), NEW p \in PrefixIds, NEW t, t = OldPrefix(n, p)
  PROVE  Inv(t) /\ ~t.pfx[p].live
<1>1. PICK m : m = Withdraw(n, {p}, Names)
  OBVIOUS
<1>2. Partial(n, p)
  BY InvPartial
<1>3. Partial(m, p) /\ Quiet(m, p)
  BY <1>1, <1>2, WithdrawPrefix
<1>4. PICK pf : pf = NoPrefix
  OBVIOUS
<1>5. t = Swapped(m, p, pf)
  BY <1>1, <1>4 DEF OldPrefix, Swapped
<1>6. pf \in Prefix /\ PrefixInv(pf) /\ \A c \in Range(pf.list) : ~c.enabled
  BY <1>4, NoPrefixIs
<1>7. Partial(t, p) /\ t.pfx[p] = pf
  BY <1>3, <1>5, <1>6, PrefixSwapped
<1>8. Inv(t)
  BY <1>4, <1>7, NoPrefixIs, Undivided
<1> QED BY <1>4, <1>7, <1>8, NoPrefixIs

(***************************************************************************)
(* The actions of a prefix                                                 *)
(***************************************************************************)

LEMMA AddPrefixKeeps ==
  ASSUME IInv, NEW p \in PrefixIds, AddPrefix(p)
  PROVE  IInv'
<1>1. PICK l \in PrefixLengths, x \in Exclusions, w \in Willing :
        /\ x.length > 0 => x.length > l /\ x.at < Size(l)
        /\ net' = NewPrefix(net, p, l, x, w)
  BY DEF AddPrefix
<1>2. Inv(net) /\ ~net.pfx[p].live
  BY DEF AddPrefix, IInv
<1>3. PICK t : t = net'
  OBVIOUS
<1>4. Inv(t)
  BY <1>1, <1>2, <1>3, NewPrefixKeeps
<1> QED BY <1>3, <1>4 DEF IInv

LEMMA RemovePrefixKeeps ==
  ASSUME IInv, NEW p \in PrefixIds, RemovePrefix(p)
  PROVE  IInv'
<1>1. PICK t : t = net' /\ t = OldPrefix(net, p)
  BY DEF RemovePrefix
<1>2. Inv(net)
  BY DEF IInv
<1>3. Inv(t)
  BY <1>1, <1>2, OldPrefixKeeps
<1> QED BY <1>1, <1>3 DEF IInv

LEMMA SetUlaPrefixKeeps ==
  ASSUME IInv, SetUlaPrefix
  PROVE  IInv'
<1>1. Inv(net) /\ Ula \in PrefixIds
  BY DelegationAssumption DEF IInv
<1>2. PICK m : m = OldPrefix(net, Ula)
  OBVIOUS
<1>3. Inv(m) /\ ~m.pfx[Ula].live
  BY <1>1, <1>2, OldPrefixKeeps
<1>4. CASE net' = OldPrefix(net, Ula)
  BY <1>2, <1>3, <1>4 DEF IInv
<1>5. CASE \E l \in PrefixLengths, w \in Willing : net' = NewPrefix(m, Ula, l, NoExclusion, w)
  <2>1. PICK l, w, x, t :
          /\ l \in PrefixLengths /\ w \in Willing /\ x = NoExclusion
          /\ t = net' /\ t = NewPrefix(m, Ula, l, x, w)
    BY <1>5
  <2>2. x \in Exclusions /\ ~(x.length > 0)
    BY <2>1, DelegationAssumption DEF NoExclusion
  <2>3. Inv(t)
    BY <1>1, <1>3, <2>1, <2>2, NewPrefixKeeps
  <2> QED BY <2>1, <2>3 DEF IInv
<1> QED BY <1>2, <1>4, <1>5 DEF SetUlaPrefix

LEMMA RenewPrefixKeeps ==
  ASSUME IInv, NEW p \in PrefixIds, RenewPrefix(p)
  PROVE  IInv'
<1>1. PICK x \in Exclusions, w \in Willing :
        /\ x.length > 0 => x.length > net.pfx[p].length /\ x.at < Size(net.pfx[p].length)
        /\ net' = Announce([net EXCEPT !.pfx[p].excl = x], {p}, Names, w)
  BY DEF RenewPrefix
<1>2. Partial(net, p) /\ Core(net) /\ net \in Nets /\ \A q \in PrefixIds : PrefixInv(net.pfx[q])
  BY InvPartial DEF IInv
<1>3. PICK m : m = [net EXCEPT !.pfx[p].excl = x]
  OBVIOUS
<1>4. net.pfx[p] \in Prefix
  BY <1>2, PrefixIs
<1>5. /\ m \in Nets /\ m.ifs = net.ifs /\ m.addrs = net.addrs /\ m.rules = net.rules
      /\ m.refused = net.refused
      /\ \A q \in PrefixIds \ {p} : m.pfx[q] = net.pfx[q]
      /\ m.pfx[p] = [net.pfx[p] EXCEPT !.excl = x]
  BY <1>2, <1>3, <1>4 DEF Nets, Prefix
<1>6. /\ m.pfx[p].list = net.pfx[p].list /\ m.pfx[p].live = net.pfx[p].live
      /\ m.pfx[p].length = net.pfx[p].length /\ m.pfx[p].asked = net.pfx[p].asked
      /\ m.pfx[p].excl = x
  BY <1>4, <1>5 DEF Prefix
<1>7. \A q \in PrefixIds : m.pfx[q].list = net.pfx[q].list
  BY <1>5, <1>6
<1>8. ASSUME NEW q \in PrefixIds PROVE PrefixInv(m.pfx[q]) /\ On(m, q) = On(net, q)
  <2>1. On(m, q) = On(net, q)
    BY <1>7 DEF On
  <2>2. CASE q = p
    <3>1. PrefixInv(net.pfx[p])
      BY <1>2
    <3>2. PrefixInv(m.pfx[p])
      BY <1>1, <1>6, <3>1 DEF PrefixInv, ExclFits
    <3> QED BY <2>1, <2>2, <3>2
  <2>3. CASE q # p
    BY <1>2, <1>5, <2>1, <2>3
  <2> QED BY <2>2, <2>3
<1>9. Core(m) /\ \A i \in Names : Stilled(m, i)
  BY <1>2, <1>5, <1>8, CoreLists DEF Partial
<1>10. \A i \in Names : \A q \in PrefixIds \ {p} : Follows(m, i, q)
  BY <1>2, <1>5 DEF Partial, Follows
<1>11. Partial(m, p)
  BY <1>9, <1>10 DEF Partial
<1>12. PICK t : t = net' /\ t = Announce(m, {p}, Names, w)
  BY <1>1, <1>3
<1>13. Inv(t)
  BY <1>11, <1>12, AnnouncePrefix
<1> QED BY <1>12, <1>13 DEF IInv

(* What there may be while the prefixes of D are divided anew. *)
Renewals(D) == {t \in Nets : Inv(t) /\ \A p \in D : t.pfx[p].live}

LEMMA RenewalTurn ==
  ASSUME NEW D \in SUBSET PrefixIds, NEW n \in Renewals(D), NEW p \in D, NEW w
  PROVE  UpdatePrefixAssignments(n, p, w) \in Renewals(D)
<1>1. PICK t : t = UpdatePrefixAssignments(n, p, w)
  OBVIOUS
<1>2. Inv(n) /\ n.pfx[p].live /\ p \in PrefixIds
  BY DEF Renewals
<1>3. Partial(n, p)
  BY <1>2, InvPartial
<1>4. Inv(t) /\ \A q \in PrefixIds : t.pfx[q].live = n.pfx[q].live
  BY <1>1, <1>2, <1>3, UpdateKeeps
<1>5. t \in Nets
  BY <1>4, InvPartial
<1>6. \A q \in D : t.pfx[q].live
  BY <1>4 DEF Renewals
<1>7. t \in Renewals(D)
  BY <1>4, <1>5, <1>6 DEF Renewals
<1> QED BY <1>1, <1>7

RenewAll(n, D, w) == FoldSet(LAMBDA p, m : UpdatePrefixAssignments(m, p, w), n, D)

LEMMA RenewalsLoop ==
  ASSUME NEW D \in SUBSET PrefixIds, NEW n \in Renewals(D), NEW w,
         NEW t, t = RenewAll(n, D, w)
  PROVE  t \in Renewals(D)
<1> DEFINE Pick(u) == CHOOSE x \in u : TRUE
           ch == [u \in SUBSET D |-> Pick(u)]
           G == [u \in SUBSET D |-> Renewals(D)]
           All == Renewals(D)
           F == [p \in D |-> [m \in All |-> UpdatePrefixAssignments(m, p, w)]]
           R(f) == f = [u \in SUBSET D |->
                          IF u = {} THEN n
                                    ELSE UpdatePrefixAssignments(f[u \ {Pick(u)}], Pick(u), w)]
<1>1. IsFiniteSet(D)
  BY DelegationAssumption, FS_Subset
<1>2. Chooses(ch, D)
  <2>1. ASSUME NEW u \in SUBSET D, u # {} PROVE Pick(u) \in u
    BY <2>1
  <2> QED BY <2>1 DEF Chooses
<1>3. \A u \in SUBSET D : Left(ch, u) = u \ {Pick(u)} /\ ch[u] = Pick(u)
  BY DEF Left
<1>4. n \in G[{}]
  OBVIOUS
<1>5. ASSUME NEW u \in SUBSET D, u # {}, NEW m \in G[Left(ch, u)]
      PROVE  /\ F[ch[u]][m] = UpdatePrefixAssignments(m, ch[u], w)
             /\ UpdatePrefixAssignments(m, ch[u], w) \in G[u]
  <2>1. ch[u] \in D /\ Left(ch, u) \in SUBSET D
    BY <1>1, <1>2, <1>5, LeftIs
  <2> HIDE DEF ch
  <2>2. m \in Renewals(D)
    BY <1>5, <2>1
  <2>3. UpdatePrefixAssignments(m, ch[u], w) \in Renewals(D)
    BY <2>1, <2>2, RenewalTurn
  <2> QED BY <2>1, <2>2, <2>3
<1> HIDE DEF F, G, ch
<1>7. PICK h : h \in Courses(D, ch, G, F, n)
  BY <1>1, <1>2, <1>4, <1>5, LoopRuns
<1>8. R(h)
  <2>1. ASSUME NEW u \in SUBSET D, u # {}
        PROVE  h[u] = UpdatePrefixAssignments(h[u \ {Pick(u)}], Pick(u), w)
    <3>1. h[u] = F[ch[u]][h[Left(ch, u)]]
      BY <1>7, <2>1 DEF Courses
    <3>2. Left(ch, u) \in SUBSET D
      BY <1>1, <1>2, <2>1, LeftIs
    <3>3. h[Left(ch, u)] \in G[Left(ch, u)]
      BY <1>7, <3>2 DEF Courses
    <3>4. h[u] = UpdatePrefixAssignments(h[Left(ch, u)], ch[u], w)
      BY <1>5, <2>1, <3>1, <3>3
    <3> HIDE DEF Pick
    <3> QED BY <1>3, <3>4
  <2>2. h = [u \in SUBSET D |-> h[u]] /\ h[{}] = n
    BY <1>7 DEF Courses
  <2>3. \A u \in SUBSET D :
          h[u] = IF u = {} THEN n
                           ELSE UpdatePrefixAssignments(h[u \ {Pick(u)}], Pick(u), w)
    <3> HIDE DEF Pick
    <3> QED BY <2>1, <2>2
  <2> HIDE DEF Pick
  <2> QED BY <2>2, <2>3, Zenon
<1>9. PICK g : g = CHOOSE f : R(f)
  OBVIOUS
<1>10. R(g)
  BY <1>8, <1>9
<1>11. t = g[D]
  BY <1>9 DEF RenewAll, FoldSet, MapThenFoldSet
<1> HIDE DEF Pick
<1>12. \A u \in SUBSET D :
          g[u] = IF u = {} THEN n
                           ELSE UpdatePrefixAssignments(g[u \ {Pick(u)}], Pick(u), w)
  BY <1>10, Zenon
<1> HIDE DEF R
<1>13. g[{}] \in G[{}]
  BY <1>4, <1>12
<1>14. ASSUME NEW u \in SUBSET D, u # {}, g[Left(ch, u)] \in G[Left(ch, u)]
       PROVE  g[u] \in G[u]
  <2>1. g[u] = UpdatePrefixAssignments(g[Left(ch, u)], ch[u], w)
    BY <1>3, <1>12, <1>14
  <2> QED BY <1>5, <1>14, <2>1
<1>15. g[D] \in G[D]
  BY <1>1, <1>2, <1>13, <1>14, LoopReaches
<1> QED BY <1>11, <1>15 DEF G

LEMMA RefreshKeeps ==
  ASSUME IInv, RefreshAssignments
  PROVE  IInv'
<1>1. PICK D : D = {p \in PrefixIds : net.pfx[p].live /\ Delegated(net, p)}
  OBVIOUS
<1>2. PICK n : n = [net EXCEPT !.refresh = FALSE]
  OBVIOUS
<1>3. PICK w \in Willing : net' = RenewAll(n, D, w)
  BY <1>1, <1>2 DEF RefreshAssignments, RenewAll
<1>4. Inv(net) /\ Core(net) /\ net \in Nets /\ \A q \in PrefixIds : PrefixInv(net.pfx[q])
  BY InvPartial DEF IInv
<1>5. /\ n \in Nets /\ n.ifs = net.ifs /\ n.pfx = net.pfx /\ n.addrs = net.addrs
      /\ n.rules = net.rules /\ n.refused = net.refused
  BY <1>2, <1>4 DEF Nets
<1>6. Core(n) /\ \A i \in Names : Stilled(n, i)
  <2>1. \A q \in PrefixIds : PrefixInv(n.pfx[q]) /\ On(n, q) = On(net, q)
    BY <1>4, <1>5 DEF On
  <2> QED BY <1>4, <1>5, <2>1, CoreLists DEF Inv
<1>7. \A i \in Names : \A p \in PrefixIds : Follows(n, i, p)
  BY <1>4, <1>5 DEF Inv, Follows
<1>8. Inv(n)
  BY <1>6, <1>7 DEF Inv
<1>9. D \in SUBSET PrefixIds /\ n \in Renewals(D)
  BY <1>1, <1>5, <1>8 DEF Renewals
<1>10. PICK t : t = net' /\ t = RenewAll(n, D, w)
  BY <1>3
<1>11. t \in Renewals(D)
  BY <1>9, <1>10, RenewalsLoop
<1> QED BY <1>10, <1>11 DEF Renewals, IInv

LEMMA InitInv ==
  ASSUME Init
  PROVE  IInv
<1>1. /\ net.ifs \in [Names -> {[state |-> "DOWN", l3 |-> NoDevice,
                                 enabled |-> FALSE, cfg |-> c] : c \in Configs}]
      /\ net.pfx \in [PrefixIds -> {NoPrefix}] /\ net.addrs = {} /\ net.rules = {}
      /\ net.table \in Tables /\ net.delegate \in BOOLEAN /\ net.refresh = FALSE
      /\ net.refused = {}
  BY DEF Init
<1>2. net = [ifs |-> net.ifs, pfx |-> net.pfx, addrs |-> net.addrs, rules |-> net.rules,
             table |-> net.table, delegate |-> net.delegate, refresh |-> net.refresh,
             refused |-> net.refused]
  BY DEF Init
<1>3. ASSUME NEW i \in Names
      PROVE  net.ifs[i] \in IfState /\ net.ifs[i].state = "DOWN" /\ net.ifs[i].enabled = FALSE
  <2>1. PICK c \in Configs : net.ifs[i] = [state |-> "DOWN", l3 |-> NoDevice,
                                           enabled |-> FALSE, cfg |-> c]
    BY <1>1, ZenonT(60)
  <2> QED BY <2>1 DEF IfState
<1>4. net.ifs \in [Names -> IfState]
  BY <1>1, <1>3
<1>5. ASSUME NEW p \in PrefixIds
      PROVE  /\ net.pfx[p] \in Prefix /\ PrefixInv(net.pfx[p])
             /\ \A c : c \notin Range(net.pfx[p].list) /\ c \notin On(net, p)
  <2>1. net.pfx[p] = NoPrefix
    BY <1>1
  <2> QED BY <2>1, NoPrefixIs DEF On
<1>6. net.pfx \in [PrefixIds -> Prefix]
  BY <1>1, <1>5
<1>7. net \in Nets
  BY <1>1, <1>2, <1>4, <1>6 DEF Nets
<1>8. Held(net) /\ AddrInv(net) /\ RuleInv(net)
  BY <1>1, <1>5 DEF Held, AddrInv, RuleInv
<1>9. Core(net)
  BY <1>5, <1>7, <1>8 DEF Core
<1>10. ASSUME NEW i \in Names
       PROVE  Stilled(net, i) /\ \A p \in PrefixIds : Follows(net, i, p)
  BY <1>3, <1>5 DEF Stilled, Off, Follows
<1> QED BY <1>9, <1>10 DEF IInv, Inv

LEMMA NextInv ==
  ASSUME IInv, [Next]_net
  PROVE  IInv'
<1>1. CASE UNCHANGED net
  BY <1>1 DEF IInv
<1>2. ASSUME NEW p \in PrefixIds, AddPrefix(p) PROVE IInv'
  BY <1>2, AddPrefixKeeps
<1>3. ASSUME NEW p \in PrefixIds, RenewPrefix(p) PROVE IInv'
  BY <1>3, RenewPrefixKeeps
<1>4. ASSUME NEW p \in PrefixIds, RemovePrefix(p) PROVE IInv'
  BY <1>4, RemovePrefixKeeps
<1>5. ASSUME SetUlaPrefix PROVE IInv'
  BY <1>5, SetUlaPrefixKeeps
<1>6. ASSUME NEW i \in Names, Setup(i) PROVE IInv'
  BY <1>6, SetupKeeps
<1>7. ASSUME NEW i \in Names, SetL3Dev(i) PROVE IInv'
  BY <1>7, SetL3DevKeeps
<1>8. ASSUME NEW i \in Names, Up(i) PROVE IInv'
  BY <1>8, UpKeeps
<1>9. ASSUME NEW i \in Names, Teardown(i) PROVE IInv'
  BY <1>9, TeardownKeeps
<1>10. ASSUME NEW i \in Names, MarkDown(i) PROVE IInv'
  BY <1>10, MarkDownKeeps
<1>11. ASSUME NEW i \in Names, Create(i) PROVE IInv'
  BY <1>11, CreateKeeps
<1>12. ASSUME NEW i \in Names, Free(i) PROVE IInv'
  BY <1>12, FreeKeeps
<1>13. ASSUME NEW i \in Names, ChangeConfig(i) PROVE IInv'
  BY <1>13, ChangeConfigKeeps
<1>14. ASSUME RefreshAssignments PROVE IInv'
  BY <1>14, RefreshKeeps
<1>15. ASSUME ChangeTable PROVE IInv'
  BY <1>15, ChangeTableKeeps
<1> QED
  BY <1>1, <1>2, <1>3, <1>4, <1>5, <1>6, <1>7, <1>8, <1>9, <1>10, <1>11, <1>12, <1>13,
     <1>14, <1>15 DEF Next

LEMMA Always == Spec => []IInv
<1>1. Init => IInv
  BY InitInv
<1>2. IInv /\ [Next]_net => IInv'
  BY NextInv
<1> QED BY <1>1, <1>2, PTL DEF Spec

(***************************************************************************)
(* What a division comes to                                                *)
(***************************************************************************)

(* No assignment reaches beyond the prefix. *)
LEMMA Within ==
  ASSUME NEW L \in Seq(Entries), NEW len \in Lengths, WellMade(L, len),
         NEW c \in Range(L), c.name \in Names
  PROVE  End(c) <= Size(len)
<1>1. DOMAIN L = 1 .. Len(L) /\ Len(L) \in Nat
  BY RangeEntries
<1>2. PICK k \in DOMAIN L : c = L[k]
  BY DEF Range
<1>3. k # Len(L)
  BY <1>2, NamesAre DEF WellMade
<1>4. k \in DOMAIN L /\ Len(L) \in DOMAIN L /\ k < Len(L)
  BY <1>1, <1>2, <1>3
<1>5. End(L[k]) <= L[Len(L)].at
  BY <1>4 DEF WellMade, Disjoint
<1> QED BY <1>2, <1>5 DEF WellMade

(* A prefix that has assignments, or wishes to answer, is divided. *)
LEMMA IsDivided ==
  ASSUME IInv, NEW p \in PrefixIds,
         net.pfx[p].asked # {} \/ \E c \in Assigned(p) : TRUE
  PROVE  /\ net.pfx[p].list \in Seq(Entries) /\ net.pfx[p].length \in Lengths
         /\ Answers(net.pfx[p].list, net.pfx[p].length, net.pfx[p].asked)
<1>1. net \in Nets /\ PrefixInv(net.pfx[p])
  BY InvPartial DEF IInv
<1>2. ASSUME net.pfx[p].list = << >> PROVE \A c : c \notin Assigned(p)
  BY <1>2 DEF Assigned, Range
<1> QED BY <1>1, <1>2, PrefixIs DEF PrefixInv

LEMMA InvDisjoint ==
  ASSUME IInv
  PROVE  SubprefixesDisjoint
<1>1. ASSUME NEW p \in PrefixIds PROVE Disjoint(net.pfx[p].list)
  <2>1. PrefixInv(net.pfx[p])
    BY InvPartial DEF IInv
  <2>2. CASE net.pfx[p].list = << >>
    BY <2>2 DEF Disjoint
  <2>3. CASE net.pfx[p].list # << >>
    BY <2>1, <2>3 DEF PrefixInv, Answers, WellMade
  <2> QED BY <2>2, <2>3
<1>2. ASSUME NEW p \in PrefixIds, NEW c \in Assigned(p)
      PROVE  /\ Aligned(c) /\ End(c) <= Size(net.pfx[p].length)
             /\ \A d \in Assigned(p) : c.name = d.name => c = d
  <2>1. /\ net.pfx[p].list \in Seq(Entries) /\ net.pfx[p].length \in Lengths
        /\ WellMade(net.pfx[p].list, net.pfx[p].length)
    BY IsDivided DEF Answers
  <2>2. c \in Range(net.pfx[p].list) /\ c.name \in Names
    BY DEF Assigned
  <2>3. End(c) <= Size(net.pfx[p].length)
    BY <2>1, <2>2, Within
  <2> QED BY <2>1, <2>2, <2>3 DEF WellMade, Assigned
<1> QED BY <1>1, <1>2 DEF SubprefixesDisjoint

LEMMA InvNothingWasted ==
  ASSUME IInv
  PROVE  NothingWasted
<1> SUFFICES ASSUME NEW p \in PrefixIds, NEW x \in net.pfx[p].asked, NEW granted,
                    granted = {c.length : c \in {d \in Assigned(p) : d.name = x.name}},
                    NEW l \in x.cfg.length .. (IF granted = {} THEN 64 ELSE Max(granted) - 1),
                    NEW b \in 0 .. (Size(net.pfx[p].length) \div Size(l)) - 1,
                    Vacant(p, x.name, b * Size(l), l)
             PROVE  FALSE
  BY DEF NothingWasted
<1>1. /\ net.pfx[p].list \in Seq(Entries) /\ net.pfx[p].length \in Lengths
      /\ Answers(net.pfx[p].list, net.pfx[p].length, net.pfx[p].asked)
  BY IsDivided
<1> DEFINE L == net.pfx[p].list
           len == net.pfx[p].length
<1>2. WellMade(L, len) /\ Served(L, len, x.name, x.cfg.length)
  BY <1>1 DEF Answers
<1>3. x.name \in Names /\ x.cfg.length \in Nat
  <2>1. net.pfx[p].asked \subseteq [name : Names, cfg : Configs]
    BY InvPartial, PrefixIs DEF IInv
  <2>2. x.name \in Names /\ x.cfg \in Configs
    BY <2>1
  <2> QED BY <2>2, DelegationAssumption
<1>4. ASSUME NEW d \in Range(L), d.name = x.name
      PROVE  d.length \in Nat /\ d.length <= 64 /\ granted = {d.length} /\ Max(granted) = d.length
  <2>1. d \in Entries
    BY <1>1, RangeEntries
  <2>2. d.length \in Nat /\ d.length <= 64
    BY <2>1, EntryIs DEF Lengths
  <2>3. d \in Assigned(p)
    BY <1>3, <1>4 DEF Assigned
  <2>4. \A c \in Assigned(p) : c.name = x.name => c = d
    BY <1>2, <1>4 DEF WellMade, Assigned
  <2>5. granted = {d.length}
    BY <1>4, <2>3, <2>4
  <2>6. Max({d.length}) = d.length
    BY <2>2 DEF Max
  <2> QED BY <2>2, <2>5, <2>6
<1>5. l \in x.cfg.length .. 64
  <2>1. CASE granted = {}
    BY <2>1
  <2>2. CASE granted # {}
    <3>1. PICK d \in Range(L) : d.name = x.name
      BY <2>2 DEF Assigned
    <3> QED BY <1>3, <1>4, <2>2, <3>1
  <2> QED BY <2>1, <2>2
<1>6. \A d \in Range(L) : d.name = x.name => l < d.length
  <2>1. ASSUME NEW d \in Range(L), d.name = x.name PROVE l < d.length
    <3>1. d.length \in Nat /\ granted # {} /\ Max(granted) = d.length
      BY <1>4, <2>1, ZenonT(60)
    <3>2. l \in x.cfg.length .. d.length - 1
      BY <3>1
    <3> QED BY <1>3, <3>1, <3>2
  <2> QED BY <2>1
<1>7. Full(L, len, x.name, l)
  BY <1>2, <1>5, <1>6 DEF Served
<1>8. b \in Nat /\ ~Crowded(L, x.name, b * Size(l), l)
      /\ b * Size(l) + Size(l) <= Size(len)
  BY DEF Vacant, Crowded
<1> QED BY <1>7, <1>8 DEF Full

LEMMA InvHintsHonoured ==
  ASSUME IInv
  PROVE  HintsHonoured
<1> SUFFICES ASSUME NEW p \in PrefixIds, NEW x \in net.pfx[p].asked, x.cfg.hint # NoHint,
                    ~Given(net.pfx[p].list, x)
             PROVE  \/ x.cfg.hint + Size(x.cfg.length) > Size(net.pfx[p].length)
                    \/ \E c \in Range(net.pfx[p].list) :
                         c.name = EXCLUDED /\ Overlap(c, x.cfg.hint, x.cfg.length)
                    \/ \E y \in net.pfx[p].asked :
                         /\ y.name < x.name /\ y.cfg.hint # NoHint /\ Given(net.pfx[p].list, y)
                         /\ Overlap(AtHint(y), x.cfg.hint, x.cfg.length)
  <2>1. ASSUME NEW p \in PrefixIds, NEW y \in net.pfx[p].asked
        PROVE  Given(net.pfx[p].list, y) <=>
                 \E c \in Assigned(p) :
                   c.name = y.name /\ c.at = y.cfg.hint /\ c.length = y.cfg.length
    <3>1. net.pfx[p].asked \subseteq [name : Names, cfg : Configs]
      BY InvPartial, PrefixIs DEF IInv
    <3>2. y.name \in Names
      BY <3>1
    <3> QED BY <3>2 DEF Given, Assigned
  <2> QED BY <2>1 DEF HintsHonoured, AtHint
<1>1. Hinted(net.pfx[p].list, net.pfx[p].length, net.pfx[p].asked, x)
  BY IsDivided DEF Answers
<1> QED BY <1>1 DEF Hinted

(***************************************************************************)
(* What the kernel has                                                     *)
(***************************************************************************)

LEMMA InvTypeOK ==
  ASSUME IInv
  PROVE  TypeOK
<1>1. net \in Nets
  BY DEF IInv, Inv, Core
<1>2. \A p \in PrefixIds : net.pfx[p].list \in Seq(Entries)
  BY <1>1, PrefixIs
<1>3. {r.to : r \in net.rules} \subseteq Address
  BY <1>1, NetIs DEF Rule
<1> QED BY <1>1, <1>2, <1>3, NetIs DEF TypeOK

(* The assignments that are on, with their prefixes. *)
OnPairs == {x \in UNION {{p} \X Assigned(p) : p \in PrefixIds} : x[2].enabled}
RulesOf(T) == {[to |-> AddressOf(net, x[1], x[2]), table |-> 0] : x \in {y \in T : y[1] # Ula}}

LEMMA OnPairsAre ==
  ASSUME IInv, NEW T, T = OnPairs
  PROVE  /\ Pairs(T)
         /\ \A p, c : Has(T, p, c) <=> p \in PrefixIds /\ c \in On(net, p)
<1>1. /\ Pairs(T)
      /\ \A p, c : Has(T, p, c) <=> p \in PrefixIds /\ c \in Assigned(p) /\ c.enabled
  BY DEF OnPairs, Pairs, Has
<1>2. Held(net)
  BY DEF IInv, Inv, Core
<1>3. ASSUME NEW p \in PrefixIds, NEW c PROVE c \in Assigned(p) /\ c.enabled <=> c \in On(net, p)
  BY <1>2 DEF Assigned, On, Held
<1> QED BY <1>1, <1>3

LEMMA RulesOfAre ==
  ASSUME NEW T, Pairs(T)
  PROVE  \A r : r \in RulesOf(T) <=> \E p, c : Has(T, p, c) /\ p # Ula /\ r = Unreachable(net, p, c)
<1>1. ASSUME NEW r \in RulesOf(T)
      PROVE  \E p, c : Has(T, p, c) /\ p # Ula /\ r = Unreachable(net, p, c)
  <2>1. PICK x \in T : x[1] # Ula /\ r = Unreachable(net, x[1], x[2])
    BY DEF RulesOf, Unreachable
  <2>2. PICK p, c : x = <<p, c>>
    BY <2>1 DEF Pairs
  <2>3. x[1] = p /\ x[2] = c
    BY <2>2
  <2>4. Has(T, p, c)
    BY <2>1, <2>2 DEF Has
  <2> QED BY <2>1, <2>3, <2>4
<1>2. ASSUME NEW p, NEW c, Has(T, p, c), p # Ula
      PROVE  Unreachable(net, p, c) \in RulesOf(T)
  <2>1. PICK x : x = <<p, c>>
    OBVIOUS
  <2>2. x[1] = p /\ x[2] = c /\ x \in T
    BY <1>2, <2>1 DEF Has
  <2>3. Unreachable(net, x[1], x[2]) \in RulesOf(T)
    BY <1>2, <2>2 DEF RulesOf, Unreachable
  <2> QED BY <2>2, <2>3
<1> QED BY <1>1, <1>2, Zenon

LEMMA InvAddressesAgree ==
  ASSUME IInv
  PROVE  AddressesAgree
<1>1. AddrInv(net) /\ RuleInv(net)
  BY DEF IInv, Inv, Core
<1>2. PICK T : T = OnPairs
  OBVIOUS
<1>3. Pairs(T) /\ \A p, c : Has(T, p, c) <=> p \in PrefixIds /\ c \in On(net, p)
  BY <1>2, OnPairsAre
<1>4. net.addrs = AddressesFor(net, T)
  <2>1. ASSUME NEW a PROVE a \in net.addrs <=> a \in AddressesFor(net, T)
    <3>1. a \in AddressesFor(net, T) <=> \E p, c : Has(T, p, c) /\ a = AddressOf(net, p, c)
      BY <1>3, AddressesOf
    <3>2. a \in net.addrs <=> \E p \in PrefixIds : \E c \in On(net, p) : a = AddressOf(net, p, c)
      BY <1>1 DEF AddrInv
    <3> QED BY <1>3, <3>1, <3>2
  <2> QED BY <2>1
<1>5. {r \in net.rules : r.table = 0} = RulesOf(T)
  <2>1. ASSUME NEW r PROVE r \in net.rules /\ r.table = 0 <=> r \in RulesOf(T)
    <3>1. r \in RulesOf(T) <=> \E p, c : Has(T, p, c) /\ p # Ula /\ r = Unreachable(net, p, c)
      BY <1>3, RulesOfAre
    <3>2. r \in net.rules /\ r.table = 0 <=>
            \E p \in PrefixIds \ {Ula} : \E c \in On(net, p) : r = Unreachable(net, p, c)
      BY <1>1 DEF RuleInv
    <3> QED BY <1>3, <3>1, <3>2
  <2> QED BY <2>1
<1>6. TypeOK
  BY InvTypeOK
<1> QED BY <1>2, <1>4, <1>5, <1>6 DEF AddressesAgree, AddressesFor, RulesOf, OnPairs

LEMMA InvFollows ==
  ASSUME IInv
  PROVE  AddressesFollowState
<1>1. ASSUME NEW i \in Names, NEW p \in PrefixIds, net.ifs[i].enabled, net.ifs[i].state = "UP",
             net.ifs[i].l3 # NoDevice, i \notin net.refused,
             NEW c \in Assigned(p), c.name = i
      PROVE  c.enabled
  BY <1>1 DEF IInv, Inv, Follows, Assigned
<1>2. ASSUME NEW i \in Names, NEW p \in PrefixIds, net.ifs[i].state = "DOWN",
             NEW c \in Assigned(p), c.name = i
      PROVE  ~c.enabled
  BY <1>2 DEF IInv, Inv, Stilled, Off, On, Assigned
<1> QED BY <1>1, <1>2 DEF AddressesFollowState

(***************************************************************************)
(* The theorems                                                            *)
(***************************************************************************)

(* The types of an interface, a prefix and the kernel's addresses, after    *)
(* any course of interfaces, protocols, reloads and refusals                *)
(* (interface-ip.c).                                                        *)
THEOREM TypeCorrect == Spec => []TypeOK
<1>1. IInv => TypeOK
  BY InvTypeOK
<1> QED BY <1>1, Always, PTL

(* interface_prefix_assign, interface_update_prefix_assignments: whatever   *)
(* the prefixes, their exclusions and what interfaces ask for, sub-prefixes *)
(* are proper prefixes within the delegated one, one an interface, and none *)
(* overlaps another or what the delegator keeps.                            *)
THEOREM NeverOverlap == Spec => []SubprefixesDisjoint
<1>1. IInv => SubprefixesDisjoint
  BY InvDisjoint
<1> QED BY <1>1, Always, PTL

(* interface_update_prefix_assignments: the largest block there was that is *)
(* no larger than the one asked for; nothing only where no /64 was left.    *)
THEOREM NothingIsWasted == Spec => []NothingWasted
<1>1. IInv => NothingWasted
  BY InvNothingWasted
<1> QED BY <1>1, Always, PTL

(* The same function: an ip6hint is followed unless the prefix ends before  *)
(* it or it is taken by the delegator or at the hint of a lesser name.      *)
THEOREM HintsAreHonoured == Spec => []HintsHonoured
<1>1. IInv => HintsHonoured
  BY InvHintsHonoured
<1> QED BY <1>1, Always, PTL

(* interface_set_prefix_address: the kernel has just the addresses, and the *)
(* rules for what is unreachable, of the assignments marked enabled, on the *)
(* devices their interfaces have now.                                       *)
THEOREM AddressesAlwaysAgree == Spec => []AddressesAgree
<1>1. IInv => AddressesAgree
  BY InvAddressesAgree
<1> QED BY <1>1, Always, PTL

(* interface_ip_set_enabled: an interface that is up with its settings      *)
(* enabled has the addresses of all that it was assigned but those the      *)
(* kernel refused, and one that is down has none.                           *)
THEOREM AddressesAlwaysFollow == Spec => []AddressesFollowState
<1>1. IInv => AddressesFollowState
  BY InvFollows
<1> QED BY <1>1, Always, PTL
=============================================================================
