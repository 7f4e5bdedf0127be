-------------------------- MODULE BridgeDeviceProofs --------------------------
(***************************************************************************)
(* The invariants of BridgeDevice: the counts kept beside its lists, for   *)
(* every set of users and members and whatever fails; and, where a bridge  *)
(* can be created and brought up, that it is announced while it has        *)
(* members and that its members are its ports while it is claimed.         *)
(*                                                                         *)
(* There is a lemma per operator, about the state t it returns; the loops  *)
(* over users and members are folds, and a loop keeps what a turn keeps.   *)
(***************************************************************************)
EXTENDS BridgeDevice, FiniteSetTheorems, SequenceTheorems, NaturalsInduction,
        WellFoundedInduction, TLAPS

(***************************************************************************)
(* Loops                                                                   *)
(***************************************************************************)

(* A property of 0 that every turn hands on holds at the end.  G[i] is the  *)
(* set of what may be there after i turns.                                  *)
LEMMA LoopReaches ==
  ASSUME NEW n \in Nat, NEW g, NEW G, g[0] \in G[0],
         \A i \in 1 .. n : g[i - 1] \in G[i - 1] => g[i] \in G[i]
  PROVE  g[n] \in G[n]
<1> DEFINE T == {i \in 0 .. n : g[i] \notin G[i]}
<1>1. CASE T = {}
  BY <1>1
<1>2. CASE T # {}
  <2>8. T # {} /\ T \subseteq Nat
    BY <1>2
  <2>1. PICK k \in T : \A j \in T : ~(<<j, k>> \in OpToRel(<, Nat))
    BY <2>8, WFMin, NatLessThanWellFounded
  <2>0. k \in 0 .. n /\ g[k] \notin G[k]
    BY <2>1
  <2>9. k # 0
    BY <2>0
  <2>2. k \in 1 .. n /\ k - 1 \in 0 .. n /\ k - 1 \in Nat
    BY <2>0, <2>9, SMT
  <2>3. <<k - 1, k>> \in OpToRel(<, Nat)
    BY <2>2 DEF OpToRel
  <2>4. g[k - 1] \in G[k - 1]
    BY <2>1, <2>2, <2>3
  <2> QED BY <2>0, <2>2, <2>4
<1> QED BY <1>1, <1>2

(* The values a loop over s goes through, from b on, with F as its turn.     *)
Runs(S, F, s, b) ==
  {h \in [0 .. Len(s) -> S] :
     h[0] = b /\ \A i \in 1 .. Len(s) : h[i] = F[h[i - 1]][s[i]]}

(* They exist, whatever the turn does within S. *)
LEMMA LoopRuns ==
  ASSUME NEW S, NEW D, NEW F \in [S -> [D -> S]], NEW s \in Seq(D), NEW b \in S
  PROVE  Runs(S, F, s, b) # {}
<1> DEFINE n == Len(s)
           Run(h, k) == /\ h \in [0 .. k -> S] /\ h[0] = b
                        /\ \A i \in 1 .. k : h[i] = F[h[i - 1]][s[i]]
           G == [k \in 0 .. n |-> {x \in {k} : \E h : Run(h, k)}]
           g == [k \in 0 .. n |-> k]
<1>0. n \in Nat /\ \A i \in 1 .. n : s[i] \in D
  BY LenProperties, ElementOfSeq
<1>1. g[0] \in G[0]
  <2> DEFINE h0 == [i \in 0 .. 0 |-> b]
  <2>1. Run(h0, 0)
    <3>1. h0 \in [0 .. 0 -> S] /\ h0[0] = b
      OBVIOUS
    <3>2. 1 .. 0 = {}
      OBVIOUS
    <3> QED BY <3>1, <3>2
  <2> HIDE DEF Run
  <2>2. \E h : Run(h, 0)
    BY <2>1
  <2>3. 0 \in {x \in {0} : \E h : Run(h, 0)}
    BY <2>2
  <2>4. 0 \in 0 .. n
    BY <1>0
  <2> QED BY <2>3, <2>4
<1>2. ASSUME NEW k \in 1 .. n, g[k - 1] \in G[k - 1]
      PROVE  g[k] \in G[k]
  <2>1. k - 1 \in 0 .. n /\ k \in 0 .. n /\ k \in Nat
    BY <1>0
  <2>2. PICK h : Run(h, k - 1)
    BY <1>2, <2>1
  <2>3. PICK x : x = F[h[k - 1]][s[k]]
    OBVIOUS
  <2>4. x \in S
    BY <1>0, <2>1, <2>2, <2>3
  <2> DEFINE m == [i \in 0 .. k |-> IF i = k THEN x ELSE h[i]]
  <2>5. m \in [0 .. k -> S] /\ m[0] = b
    BY <2>1, <2>2, <2>4
  <2>6. ASSUME NEW i \in 1 .. k PROVE m[i] = F[m[i - 1]][s[i]]
    <3>1. i - 1 \in 0 .. k - 1 /\ m[i - 1] = h[i - 1]
      BY <2>1
    <3>2. CASE i = k
      BY <2>3, <3>1, <3>2
    <3>3. CASE i # k
      <4>1. i \in 1 .. k - 1 /\ m[i] = h[i]
        BY <2>1, <3>3
      <4> QED BY <2>2, <3>1, <4>1
    <3> QED BY <3>2, <3>3
  <2>7. Run(m, k)
    BY <2>5, <2>6
  <2> QED BY <2>1, <2>7
<1> HIDE DEF G, g
<1>3. g[n] \in G[n]
  BY <1>0, <1>1, <1>2, LoopReaches
<1>4. \E h : Run(h, n)
  <2>1. n \in 0 .. n
    BY <1>0
  <2> HIDE DEF Run, n
  <2> QED BY <1>3, <2>1 DEF G, g
<1>5. PICK h : h \in [0 .. Len(s) -> S] /\ h[0] = b
               /\ \A i \in 1 .. Len(s) : h[i] = F[h[i - 1]][s[i]]
  BY <1>4 DEF Run, n
<1> QED BY <1>5 DEF Runs

(***************************************************************************)
(* Counting                                                                *)
(***************************************************************************)

LEMMA FiniteSides == IsFiniteSet(Users) /\ IsFiniteSet(Members)
<1>1. ASSUME NEW X, NEW s \in Seq(X), X = {s[i] : i \in DOMAIN s}
      PROVE  IsFiniteSet(X)
  <2>1. DOMAIN s = 1 .. Len(s) /\ Len(s) \in Nat /\ s \in [1 .. Len(s) -> X]
    BY LenProperties
  <2>2. s \in Surjection(1 .. Len(s), X)
    BY <1>1, <2>1 DEF Surjection
  <2>3. IsFiniteSet(1 .. Len(s))
    BY <2>1, FS_Interval
  <2> QED BY <2>2, <2>3, FS_Surjection
<1> QED BY <1>1, BridgeAssumption DEF Users, Members

(* What is counted of a finite set X when elements join a or leave it.      *)
LEMMA Counting ==
  ASSUME NEW X, IsFiniteSet(X), NEW a \in SUBSET X
  PROVE  /\ Cardinality(a) \in Nat
         /\ Cardinality(a) <= Cardinality(X) /\ Cardinality(X) \in Nat
         /\ Cardinality(a) = 0 <=> a = {}
         /\ \A x \in X \ a : Cardinality(a \union {x}) = Cardinality(a) + 1
         /\ \A x \in a : Cardinality(a \ {x}) = Cardinality(a) - 1
         /\ \A c \in SUBSET X :
              /\ Cardinality(c) \in Nat
              /\ Cardinality(a \union c) = Cardinality(a) + Cardinality(c \ a)
              /\ c \subseteq a => Cardinality(a \ c) = Cardinality(a) - Cardinality(c)
<1>1. \A c \in SUBSET X : IsFiniteSet(c) /\ Cardinality(c) \in Nat
  BY FS_Subset, FS_CardinalityType
<1>2. \A x \in X \ a : Cardinality(a \union {x}) = Cardinality(a) + 1
  BY <1>1, FS_AddElement
<1>3. \A x \in a : Cardinality(a \ {x}) = Cardinality(a) - 1
  BY <1>1, FS_RemoveElement
<1>4. ASSUME NEW c \in SUBSET X
      PROVE  /\ Cardinality(a \union c) = Cardinality(a) + Cardinality(c \ a)
             /\ c \subseteq a => Cardinality(a \ c) = Cardinality(a) - Cardinality(c)
  <2>1. a \union c = a \union (c \ a) /\ a \intersect (c \ a) = {} /\ c \ a \in SUBSET X
    OBVIOUS
  <2>2. Cardinality(a \union (c \ a))
          = Cardinality(a) + Cardinality(c \ a) - Cardinality(a \intersect (c \ a))
    BY <1>1, <2>1, FS_Union
  <2>3. Cardinality(a \intersect (c \ a)) = 0
    BY <2>1, FS_EmptySet
  <2>4. Cardinality(a \union c) = Cardinality(a) + Cardinality(c \ a)
    <3>1. Cardinality(a) \in Nat /\ Cardinality(c \ a) \in Nat
      BY <1>1, <2>1
    <3>2. Cardinality(a \union (c \ a)) = Cardinality(a) + Cardinality(c \ a) - 0
      BY <2>2, <2>3
    <3>3. Cardinality(a \union (c \ a)) = Cardinality(a) + Cardinality(c \ a)
      BY <3>1, <3>2
    <3> QED BY <2>1, <3>3
  <2>5. Cardinality(a \ c) = Cardinality(a) - Cardinality(a \intersect c)
    BY <1>1, FS_Difference
  <2>6. c \subseteq a => a \intersect c = c
    OBVIOUS
  <2> QED BY <2>4, <2>5, <2>6
<1>5. Cardinality(a) <= Cardinality(X) /\ Cardinality(X) \in Nat
  BY FS_Subset, FS_CardinalityType
<1>6. Cardinality(a) = 0 <=> a = {}
  BY <1>1, FS_EmptySet
<1> QED BY <1>1, <1>2, <1>3, <1>4, <1>5, <1>6

(***************************************************************************)
(* The parts of the invariant                                              *)
(***************************************************************************)

(* State, with counts that may be any number. *)
Raw ==
  [cfg : SUBSET Members, hot : SUBSET Members, kept : SUBSET Members,
   netdevs : SUBSET Members, present : SUBSET Members, n : Int,
   claimed : SUBSET Members, ports : SUBSET Members, failed : BOOLEAN,
   retry : BOOLEAN, kernel : BOOLEAN, force : BOOLEAN, empty : BOOLEAN,
   sys : BOOLEAN, active : Int, users : SUBSET Users, told : SUBSET Users]

(* The counts agree with the sets they are kept beside. *)
Counted(b) ==
  /\ b \in Raw
  /\ b.n = Cardinality(b.present) /\ b.active = Cardinality(b.users)

(* A member that is present is on the list and its device is there. *)
Listed(b) == b.present \subseteq b.cfg \intersect b.netdevs

(* The bridge is announced if it has reason to be. *)
Open(b) == b.sys \/ (b.n = 0 /\ ~b.force)

(* A bridge that ought to be announced and is not (one whose restart has    *)
(* failed) has been told to nobody: a claim meets Open, and a failed claim, *)
(* which leaves nobody (device_claim sets `active` to 0), cannot have let   *)
(* other users in while the bridge was being brought up.                    *)
Told(b) == Open(b) \/ b.told = {}

(* The members left behind: present, and not ports while the bridge is up.  *)
Behind(b) ==
  IF b.active > 0 THEN b.present \ (b.ports \intersect b.claimed) ELSE {}

(* What every operator does for the state b it is given and the t it        *)
(* returns.                                                                 *)
Keeps(b, t) ==
  /\ Counted(t) /\ Behind(t) \subseteq Behind(b)
  /\ Listed(b) => Listed(t)
  /\ Told(b) => Told(t)

LEMMA KeepsOn ==
  ASSUME NEW b, NEW c, NEW t, Keeps(b, c), Keeps(c, t)
  PROVE  Keeps(b, t)
BY DEF Keeps

LEMMA CountedIs ==
  ASSUME NEW b, Counted(b)
  PROVE  /\ b \in Raw /\ b.n \in Nat /\ b.active \in Nat
         /\ b.n = 0 <=> b.present = {}
         /\ b.active = 0 <=> b.users = {}
         /\ \A m \in Members \ b.present : Cardinality(b.present \union {m}) = b.n + 1
         /\ \A m \in b.present : Cardinality(b.present \ {m}) = b.n - 1
         /\ \A us \in SUBSET Users :
              /\ Cardinality(us) \in Nat
              /\ Cardinality(b.users \union us) = b.active + Cardinality(us \ b.users)
              /\ us \subseteq b.users =>
                   Cardinality(b.users \ us) = b.active - Cardinality(us)
<1>1. b \in Raw /\ b.present \in SUBSET Members /\ b.users \in SUBSET Users
  BY DEF Counted, Raw
<1>2. b.n = Cardinality(b.present) /\ b.active = Cardinality(b.users)
  BY DEF Counted
<1>3. /\ b.n \in Nat
      /\ b.n = 0 <=> b.present = {}
      /\ \A m \in Members \ b.present : Cardinality(b.present \union {m}) = b.n + 1
      /\ \A m \in b.present : Cardinality(b.present \ {m}) = b.n - 1
  <2> DEFINE p == b.present
  <2>1. p \in SUBSET Members /\ IsFiniteSet(Members)
    BY <1>1, FiniteSides
  <2> HIDE DEF p
  <2>2. /\ Cardinality(p) \in Nat
        /\ Cardinality(p) = 0 <=> p = {}
        /\ \A m \in Members \ p : Cardinality(p \union {m}) = Cardinality(p) + 1
        /\ \A m \in p : Cardinality(p \ {m}) = Cardinality(p) - 1
    BY <2>1, Counting
  <2> QED BY <1>2, <2>2 DEF p
<1>4. /\ b.active \in Nat
      /\ b.active = 0 <=> b.users = {}
      /\ \A us \in SUBSET Users :
              /\ Cardinality(us) \in Nat
              /\ Cardinality(b.users \union us) = b.active + Cardinality(us \ b.users)
              /\ us \subseteq b.users =>
                   Cardinality(b.users \ us) = b.active - Cardinality(us)
  <2> DEFINE p == b.users
  <2>1. p \in SUBSET Users /\ IsFiniteSet(Users)
    BY <1>1, FiniteSides
  <2> HIDE DEF p
  <2>2. /\ Cardinality(p) \in Nat
        /\ Cardinality(p) = 0 <=> p = {}
        /\ \A us \in SUBSET Users :
              /\ Cardinality(us) \in Nat
              /\ Cardinality(p \union us) = Cardinality(p) + Cardinality(us \ p)
              /\ us \subseteq p => Cardinality(p \ us) = Cardinality(p) - Cardinality(us)
    BY <2>1, Counting
  <2> QED BY <1>2, <2>2 DEF p
<1> QED BY <1>1, <1>3, <1>4

(***************************************************************************)
(* Down                                                                    *)
(***************************************************************************)

(* bridge_set_down counts nothing; nobody is left behind when nobody claims *)
(* the bridge.                                                              *)
LEMMA DownIs ==
  ASSUME NEW b, Counted(b), NEW t, t = SetDown(b)
  PROVE  /\ Counted(t) /\ (b.active = 0 => Behind(t) = {})
         /\ t.present = b.present /\ t.cfg = b.cfg /\ t.netdevs = b.netdevs
         /\ t.n = b.n /\ t.active = b.active /\ t.users = b.users
         /\ t.sys = b.sys /\ t.force = b.force /\ t.told = b.told
<1>0. t \in Raw
  BY Zenon DEF Counted, Raw, SetDown, DisableInterface
<1>1. /\ t.present = b.present /\ t.cfg = b.cfg /\ t.netdevs = b.netdevs
      /\ t.n = b.n /\ t.active = b.active /\ t.users = b.users
      /\ t.sys = b.sys /\ t.force = b.force /\ t.told = b.told
  BY SMT DEF Counted, Raw, SetDown, DisableInterface
<1>2. Counted(t)
  BY <1>0, <1>1 DEF Counted
<1>3. b.active = 0 => Behind(t) = {}
  BY <1>1 DEF Behind
<1> QED BY <1>1, <1>2, <1>3

(* Users that let go are no longer counted; the last takes the bridge down. *)
LEMMA ReleaseIs ==
  ASSUME NEW b, Counted(b), NEW us \in SUBSET Users, NEW t, t = Release(b, us)
  PROVE  /\ Keeps(b, t) /\ t.users \subseteq b.users
         /\ t.present = b.present /\ t.cfg = b.cfg /\ t.netdevs = b.netdevs
         /\ t.n = b.n /\ t.sys = b.sys /\ t.force = b.force /\ t.told = b.told
<1> DEFINE held == us \intersect b.users
           c == [b EXCEPT !.users = @ \ held, !.active = @ - Cardinality(held)]
<1>1. held \in SUBSET Users /\ held \subseteq b.users
  OBVIOUS
<1>2. Cardinality(held) \in Nat /\ Cardinality(b.users \ held) = b.active - Cardinality(held)
  BY <1>1, CountedIs
<1>8. b.active - Cardinality(held) \in Int /\ b \in Raw
  BY <1>2, CountedIs
<1>9. c \in Raw
  BY <1>8, Zenon DEF Raw
<1>3. /\ c.present = b.present /\ c.cfg = b.cfg /\ c.netdevs = b.netdevs
      /\ c.n = b.n /\ c.active = b.active - Cardinality(held)
      /\ c.users = b.users \ held /\ c.ports = b.ports /\ c.claimed = b.claimed
      /\ c.sys = b.sys /\ c.force = b.force /\ c.told = b.told
  BY <1>8, SMT DEF Raw
<1>4. Counted(c) /\ (c.active > 0 => b.active > 0)
  BY <1>2, <1>3, <1>9, CountedIs DEF Counted
<1>5. t = IF held # {} /\ c.active = 0 THEN SetDown(c) ELSE c
  BY DEF Release
<1> HIDE DEF c, held
<1>6. CASE held # {} /\ c.active = 0
  <2>1. t = SetDown(c)
    BY <1>5, <1>6
  <2>2. /\ Counted(t) /\ Behind(t) = {}
        /\ t.present = c.present /\ t.cfg = c.cfg /\ t.netdevs = c.netdevs
        /\ t.n = c.n /\ t.active = c.active /\ t.users = c.users
        /\ t.sys = c.sys /\ t.force = c.force /\ t.told = c.told
    BY <1>4, <1>6, <2>1, DownIs
  <2> QED BY <1>3, <2>2 DEF Keeps, Listed, Told, Open
<1>7. CASE ~(held # {} /\ c.active = 0)
  <2>1. t = c
    BY <1>5, <1>7
  <2>2. Behind(t) \subseteq Behind(b)
    BY <1>3, <1>4, <2>1 DEF Behind
  <2> QED BY <1>3, <1>4, <2>1, <2>2 DEF Keeps, Listed, Told, Open
<1> QED BY <1>6, <1>7

(* Told that the bridge is gone, users let go or keep their claims. *)
LEMMA AbsentIs ==
  ASSUME NEW b, Counted(b), NEW prompt \in SUBSET Users, NEW t,
         t = SetAbsent(b, prompt)
  PROVE  /\ Keeps(b, t) /\ t.users \subseteq b.users
         /\ t.present = b.present /\ t.cfg = b.cfg /\ t.netdevs = b.netdevs
         /\ t.n = b.n /\ t.force = b.force
         /\ ~t.sys
<1> DEFINE c == [b EXCEPT !.sys = FALSE, !.told = {}]
<1>1. CASE ~b.sys
  <2>1. t = b
    BY <1>1 DEF SetAbsent
  <2> QED BY <1>1, <2>1 DEF Keeps
<1>2. CASE b.sys
  <2>1. t = Release(c, prompt)
    BY <1>2 DEF SetAbsent
  <2>0. c \in Raw
    BY Zenon DEF Counted, Raw
  <2>2. /\ c.present = b.present /\ c.cfg = b.cfg /\ c.netdevs = b.netdevs
        /\ c.n = b.n /\ c.active = b.active /\ c.users = b.users
        /\ c.ports = b.ports /\ c.claimed = b.claimed
        /\ c.sys = FALSE /\ c.force = b.force /\ c.told = {}
    BY SMT DEF Counted, Raw
  <2> HIDE DEF c
  <2>3. Keeps(b, c)
    BY <2>0, <2>2 DEF Keeps, Counted, Behind, Listed, Told
  <2>4. /\ Keeps(c, t) /\ t.users \subseteq c.users
        /\ t.present = c.present /\ t.cfg = c.cfg /\ t.netdevs = c.netdevs
        /\ t.n = c.n /\ t.sys = c.sys /\ t.force = c.force
    BY <2>1, <2>3, ReleaseIs DEF Keeps
  <2>5. Keeps(b, t)
    BY <2>3, <2>4, KeepsOn
  <2> QED BY <2>2, <2>4, <2>5
<1> QED BY <1>1, <1>2

(***************************************************************************)
(* Up                                                                      *)
(***************************************************************************)

(* More users claim a bridge that is held. *)
LEMMA MoreIs ==
  ASSUME NEW b, Counted(b), NEW us \in SUBSET Users, NEW t, t = ClaimMore(b, us)
  PROVE  /\ Counted(t) /\ (b.active > 0 => Keeps(b, t) /\ t.active > 0)
         /\ t.users = b.users \union us
         /\ t.present = b.present /\ t.cfg = b.cfg /\ t.netdevs = b.netdevs
         /\ t.n = b.n /\ t.sys = b.sys /\ t.force = b.force /\ t.told = b.told
         /\ t.ports = b.ports /\ t.claimed = b.claimed /\ t.active >= b.active
<1>1. us \ b.users \in SUBSET Users
  OBVIOUS
<1>2. /\ Cardinality(us \ b.users) \in Nat /\ b.active \in Nat
      /\ Cardinality(b.users \union us) = b.active + Cardinality(us \ b.users)
  BY <1>1, CountedIs
<1>0. b.active + Cardinality(us \ b.users) \in Int /\ b \in Raw
  BY <1>2, CountedIs
<1>6. t \in Raw
  BY <1>0, Zenon DEF Raw, ClaimMore
<1>3. /\ t.users = b.users \union us /\ t.active = b.active + Cardinality(us \ b.users)
      /\ t.present = b.present /\ t.cfg = b.cfg /\ t.netdevs = b.netdevs
      /\ t.n = b.n /\ t.sys = b.sys /\ t.force = b.force /\ t.told = b.told
      /\ t.ports = b.ports /\ t.claimed = b.claimed
  BY <1>0, SMT DEF Raw, ClaimMore
<1>4. Counted(t) /\ t.active >= b.active
  BY <1>2, <1>3, <1>6 DEF Counted
<1>5. b.active > 0 => Keeps(b, t) /\ t.active > 0
  BY <1>2, <1>3, <1>4 DEF Keeps, Behind, Listed, Told, Open
<1> QED BY <1>3, <1>4, <1>5

LEMMA EnvIs ==
  ASSUME NEW e \in Env
  PROVE  /\ e.eager \in SUBSET Users /\ e.prompt \in SUBSET Users
         /\ e.addbr \in BOOLEAN /\ e.up \in BOOLEAN
         /\ BridgeOutcomes = {TRUE} => e.addbr /\ e.up
BY BridgeAssumption DEF Env

(* A bridge that is held, on its way up, is announced. *)
LEMMA PresentWhileUpIs ==
  ASSUME NEW b, Counted(b), b.active > 0, NEW e \in Env, NEW t,
         t = SetPresentWhileUp(b, e)
  PROVE  /\ Keeps(b, t) /\ t.active > 0 /\ t.sys
         /\ b.sys => t = b
<1> DEFINE c == [b EXCEPT !.sys = TRUE, !.told = Users]
<1>1. CASE b.sys
  BY <1>1 DEF SetPresentWhileUp, Keeps
<1>2. CASE ~b.sys
  <2>1. t = ClaimMore(c, e.eager)
    BY <1>2 DEF SetPresentWhileUp
  <2>2. c \in Raw
    BY Zenon DEF Counted, Raw
  <2>3. /\ c.present = b.present /\ c.cfg = b.cfg /\ c.netdevs = b.netdevs
        /\ c.n = b.n /\ c.active = b.active /\ c.users = b.users
        /\ c.ports = b.ports /\ c.claimed = b.claimed /\ c.sys = TRUE
    BY SMT DEF Counted, Raw
  <2> HIDE DEF c
  <2>4. Keeps(b, c) /\ Counted(c)
    BY <2>2, <2>3 DEF Keeps, Counted, Behind, Listed, Told, Open
  <2>5. Keeps(c, t) /\ t.active > 0 /\ t.sys = c.sys
    <3>1. e.eager \in SUBSET Users /\ c.active > 0
      BY <2>3, EnvIs
    <3> QED BY <2>1, <2>4, <3>1, MoreIs
  <2> QED BY <1>2, <2>3, <2>4, <2>5, KeepsOn
<1> QED BY <1>1, <1>2

LEMMA MemberFailedIs ==
  ASSUME NEW b, Counted(b), NEW m \in b.present, NEW e \in Env, NEW t,
         t = MemberFailed(b, m, e)
  PROVE  /\ Keeps(b, t) /\ Behind(t) \subseteq Behind(b) \ {m}
         /\ t.n = b.n - 1 /\ t.present = b.present \ {m} /\ t.force = b.force
         /\ t.active = b.active /\ t.users = b.users
         /\ t.sys = b.sys /\ t.told = b.told /\ b.n # 0
<1>6. b.n \in Nat /\ (b.n = 0 <=> b.present = {})
  BY CountedIs
<1>1. /\ b \in Raw /\ b.n \in Nat /\ b.n - 1 \in Int
      /\ Cardinality(b.present \ {m}) = b.n - 1 /\ b.n # 0
  <2>1. Cardinality(b.present \ {m}) = b.n - 1
    BY CountedIs
  <2> QED BY <1>6, <2>1 DEF Counted
<1>2. t \in Raw
  BY <1>1, EnvIs, Zenon DEF Raw, MemberFailed
<1>3. /\ t.present = b.present \ {m} /\ t.cfg = b.cfg /\ t.netdevs = b.netdevs
      /\ t.n = b.n - 1 /\ t.active = b.active /\ t.users = b.users
      /\ t.ports = b.ports /\ t.claimed = b.claimed \ {m}
      /\ t.sys = b.sys /\ t.force = b.force /\ t.told = b.told
  BY <1>1, SMT DEF Raw, MemberFailed
<1>4. Behind(t) \subseteq Behind(b) \ {m}
  BY <1>3 DEF Behind
<1>5. Keeps(b, t)
  BY <1>1, <1>2, <1>3, <1>4 DEF Keeps, Counted, Listed, Told, Open
<1> QED BY <1>1, <1>3, <1>4, <1>5

LEMMA EnslavedIs ==
  ASSUME NEW b, Counted(b), NEW m \in Members, NEW t, t = Enslaved(b, m)
  PROVE  /\ Keeps(b, t) /\ Behind(t) \subseteq Behind(b) \ {m}
         /\ t.n = b.n /\ t.present = b.present /\ t.force = b.force
         /\ t.active = b.active /\ t.users = b.users
         /\ t.sys = b.sys /\ t.told = b.told
<1>1. b \in Raw
  BY CountedIs
<1>2. t \in Raw
  BY <1>1, Zenon DEF Raw, Enslaved
<1>3. /\ t.present = b.present /\ t.cfg = b.cfg /\ t.netdevs = b.netdevs
      /\ t.n = b.n /\ t.active = b.active /\ t.users = b.users
      /\ t.ports = b.ports \union {m} /\ t.claimed = b.claimed \union {m}
      /\ t.sys = b.sys /\ t.force = b.force /\ t.told = b.told
  BY <1>1, SMT DEF Raw, Enslaved
<1>4. Behind(t) \subseteq Behind(b) \ {m}
  BY <1>3 DEF Behind
<1>5. Keeps(b, t)
  BY <1>1, <1>2, <1>3, <1>4 DEF Keeps, Counted, Listed, Told, Open
<1> QED BY <1>3, <1>4, <1>5

(* What bridge_enable_member does while the bridge goes up or is up: the    *)
(* member becomes a port or is present no more, and nobody else claims the  *)
(* bridge if it was announced already.                                      *)
LEMMA EnableWhileUpIs ==
  ASSUME NEW b, Counted(b), b.active > 0, NEW m \in Members, NEW e \in Env,
         NEW t, t = EnableMemberWhileUp(b, m, e)
  PROVE  /\ Keeps(b, t) /\ m \notin Behind(t) /\ t.active > 0
         /\ Open(b) => Open(t)
         /\ b.sys => t.sys /\ t.users = b.users
<1>1. CASE m \notin b.present
  <2>1. t = b
    BY <1>1 DEF EnableMemberWhileUp
  <2> QED BY <1>1, <2>1 DEF Keeps, Behind
<1>2. CASE m \in b.present /\ EnslaveFails(b, m, e)
  <2>1. t = MemberFailed(b, m, e)
    BY <1>2 DEF EnableMemberWhileUp
  <2>2. /\ Keeps(b, t) /\ Behind(t) \subseteq Behind(b) \ {m}
        /\ t.active = b.active /\ t.users = b.users
        /\ t.sys = b.sys /\ b.n # 0
    BY <1>2, <2>1, MemberFailedIs
  <2> QED BY <2>2 DEF Open
<1>3. CASE m \in b.present /\ ~EnslaveFails(b, m, e)
  <2> DEFINE c == Enslaved(b, m)
  <2>1. t = SetPresentWhileUp(c, e)
    BY <1>3 DEF EnableMemberWhileUp
  <2>2. /\ Keeps(b, c) /\ Behind(c) \subseteq Behind(b) \ {m} /\ Counted(c)
        /\ c.active = b.active /\ c.users = b.users
        /\ c.sys = b.sys
    BY EnslavedIs DEF Keeps
  <2> HIDE DEF c
  <2>3. Keeps(c, t) /\ t.active > 0 /\ t.sys /\ (c.sys => t = c)
    BY <2>1, <2>2, PresentWhileUpIs
  <2>4. Keeps(b, t)
    BY <2>2, <2>3, KeepsOn
  <2>5. m \notin Behind(t)
    BY <2>2, <2>3 DEF Keeps
  <2> QED BY <2>2, <2>3, <2>4, <2>5 DEF Open
<1> QED BY <1>1, <1>2, <1>3

(* The loop of bridge_set_up over the members, written out.                 *)
EnableAll(b, e) ==
  LET f[i \in 0 .. Len(MemberOrder)] ==
        IF i = 0 THEN b ELSE EnableMemberWhileUp(f[i - 1], MemberOrder[i], e)
  IN f[Len(MemberOrder)]

(* It leaves no member behind. *)
LEMMA SetUpLoop ==
  ASSUME NEW e \in Env, NEW b, Counted(b), b.active > 0, NEW t, t = EnableAll(b, e)
  PROVE  /\ Keeps(b, t) /\ Behind(t) = {} /\ t.active > 0
         /\ Open(b) => Open(t)
         /\ b.sys => t.sys /\ t.users = b.users
<1> DEFINE n == Len(MemberOrder)
           Fine(c) == /\ Keeps(b, c) /\ c.active > 0
                      /\ Open(b) => Open(c)
                      /\ b.sys => c.sys /\ c.users = b.users
           S == {c \in Raw : Fine(c)}
           F == [c \in S |-> [m \in Members |-> EnableMemberWhileUp(c, m, e)]]
           R(f) == f = [i \in 0 .. n |->
                          IF i = 0 THEN b
                          ELSE EnableMemberWhileUp(f[i - 1], MemberOrder[i], e)]
<1>1. /\ n \in Nat /\ MemberOrder \in Seq(Members)
      /\ \A i \in 1 .. n : MemberOrder[i] \in Members
      /\ \A m \in Members : \E i \in 1 .. n : MemberOrder[i] = m
  BY BridgeAssumption, LenProperties, ElementOfSeq DEF Members
<1>2. b \in S
  BY CountedIs DEF Keeps
<1>3. ASSUME NEW c \in S, NEW m \in Members, NEW d, d = EnableMemberWhileUp(c, m, e)
      PROVE  d \in S /\ m \notin Behind(d) /\ Keeps(c, d)
  <2>1. Counted(c) /\ c.active > 0 /\ Fine(c)
    BY DEF Keeps
  <2>2. /\ Keeps(c, d) /\ m \notin Behind(d) /\ d.active > 0
        /\ Open(c) => Open(d)
        /\ c.sys => d.sys /\ d.users = c.users
    BY <1>3, <2>1, EnableWhileUpIs
  <2>3. Keeps(b, d) /\ d \in Raw
    BY <2>1, <2>2, KeepsOn DEF Keeps, Counted
  <2> QED BY <2>1, <2>2, <2>3
<1> HIDE DEF S, n
<1>4. F \in [S -> [Members -> S]]
  BY <1>3
<1>5. PICK h \in [0 .. n -> S] :
        h[0] = b /\ \A i \in 1 .. n : h[i] = F[h[i - 1]][MemberOrder[i]]
  <2> HIDE DEF F
  <2>1. MemberOrder \in Seq(Members)
    BY <1>1
  <2>2. Runs(S, F, MemberOrder, b) # {}
    BY <1>2, <1>4, <2>1, LoopRuns
  <2> QED BY <2>2 DEF n, Runs
<1>6. R(h)
  <2>1. ASSUME NEW i \in 1 .. n
        PROVE  h[i] = EnableMemberWhileUp(h[i - 1], MemberOrder[i], e)
    <3>1. i - 1 \in 0 .. n
      BY <1>1
    <3>2. h[i - 1] \in S /\ MemberOrder[i] \in Members
      BY <1>1, <1>5, <3>1
    <3> QED BY <1>5, <3>2
  <2>2. \A i \in 0 .. n : i = 0 \/ i \in 1 .. n
    BY <1>1
  <2> HIDE DEF F
  <2>3. \A i \in 0 .. n :
          h[i] = IF i = 0 THEN b ELSE EnableMemberWhileUp(h[i - 1], MemberOrder[i], e)
    BY <1>5, <2>1, <2>2
  <2> QED BY <2>3, Zenon
<1>7. PICK g : g = CHOOSE f : R(f)
  OBVIOUS
<1>8. R(g)
  BY <1>6, <1>7
<1>9. t = g[n]
  BY <1>7 DEF EnableAll, n
<1>10. g[0] = b /\ \A i \in 1 .. n : g[i] = EnableMemberWhileUp(g[i - 1], MemberOrder[i], e)
  <2>1. \A i \in 0 .. n :
          g[i] = IF i = 0 THEN b ELSE EnableMemberWhileUp(g[i - 1], MemberOrder[i], e)
    BY <1>8, Zenon
  <2>2. 0 \in 0 .. n /\ \A i \in 1 .. n : i \in 0 .. n /\ i # 0
    BY <1>1
  <2> HIDE DEF R, F
  <2> QED BY <2>1, <2>2
<1> HIDE DEF R, F
<1> DEFINE G == [i \in 0 .. n |-> {c \in S : \A j \in 1 .. i : MemberOrder[j] \notin Behind(c)}]
<1>11. g[0] \in G[0]
  BY <1>1, <1>2, <1>10
<1>12. ASSUME NEW i \in 1 .. n, g[i - 1] \in G[i - 1]
       PROVE  g[i] \in G[i]
  <2>1. i - 1 \in 0 .. n /\ i \in 0 .. n /\ MemberOrder[i] \in Members
    BY <1>1
  <2>2. g[i - 1] \in S /\ \A j \in 1 .. i - 1 : MemberOrder[j] \notin Behind(g[i - 1])
    BY <1>12, <2>1
  <2>3. g[i] \in S /\ MemberOrder[i] \notin Behind(g[i]) /\ Keeps(g[i - 1], g[i])
    BY <1>3, <1>10, <2>1, <2>2
  <2>4. \A j \in 1 .. i : MemberOrder[j] \notin Behind(g[i])
    <3>1. \A j \in 1 .. i : j = i \/ j \in 1 .. i - 1
      BY <2>1
    <3> QED BY <2>2, <2>3, <3>1 DEF Keeps
  <2> QED BY <2>1, <2>3, <2>4
<1> HIDE DEF G
<1>13. g[n] \in G[n]
  BY <1>1, <1>11, <1>12, LoopReaches
<1>14. t \in S /\ \A j \in 1 .. n : MemberOrder[j] \notin Behind(t)
  BY <1>1, <1>9, <1>13 DEF G
<1>15. Behind(t) \subseteq Members
  BY <1>14 DEF S, Raw, Behind
<1>16. Behind(t) = {}
  BY <1>1, <1>14, <1>15
<1> QED BY <1>14, <1>16 DEF S

(* What bridge_set_up comes to.  If it fails it lets nobody in, unless the  *)
(* bridge was to be announced by it; and given that the bridge can be made  *)
(* and brought up it fails only when it is left without a member.           *)
LEMMA SetUpIs ==
  ASSUME NEW e \in Env, NEW b, Counted(b), b.active > 0, NEW r, r = SetUp(b, e)
  PROVE  /\ Counted(r.st)
         /\ Listed(b) => Listed(r.st)
         /\ Told(b) => Told(r.st)
         /\ Open(b) => Open(r.st)
         /\ r.ok => Behind(r.st) = {} /\ r.st.active > 0
         /\ ~r.ok /\ Open(b) => r.st.users \subseteq b.users
         /\ ~r.ok /\ e.addbr /\ e.up => Open(r.st) /\ Behind(r.st) = {}
<1> DEFINE c0 == [b EXCEPT !.failed = FALSE, !.kernel = @ \/ b.n = 0]
           c  == EnableAll(c0, e)
           t  == CheckRetry(c)
           a  == SetAbsent(DisableInterface(t), e.prompt)
           d  == SetDown(t)
<1>1. r = CASE b.n = 0 /\ (~b.force \/ (~b.kernel /\ ~e.addbr)) -> [st |-> b, ok |-> FALSE]
            [] OTHER ->
               IF ~t.force /\ t.n = 0 THEN [st |-> a, ok |-> FALSE]
               ELSE [st |-> IF e.up THEN t ELSE d, ok |-> e.up]
  BY DEF SetUp, EnableAll, ForMembers, Folded
<1>2. b \in Raw /\ b.n \in Nat
  BY CountedIs
<1>3. c0 \in Raw
  BY <1>2, Zenon DEF Raw
<1>4. /\ c0.present = b.present /\ c0.cfg = b.cfg /\ c0.netdevs = b.netdevs
      /\ c0.n = b.n /\ c0.active = b.active /\ c0.users = b.users
      /\ c0.ports = b.ports /\ c0.claimed = b.claimed
      /\ c0.sys = b.sys /\ c0.force = b.force /\ c0.told = b.told
  BY <1>2, SMT DEF Raw
<1> HIDE DEF c0
<1>5. Keeps(b, c0) /\ Counted(c0) /\ c0.active > 0 /\ (Open(c0) <=> Open(b))
  BY <1>3, <1>4 DEF Keeps, Counted, Behind, Listed, Told, Open
<1>6. /\ Keeps(c0, c) /\ Behind(c) = {} /\ c.active > 0
      /\ Open(c0) => Open(c)
      /\ c0.sys => c.sys /\ c.users = c0.users
  BY <1>5, SetUpLoop
<1> HIDE DEF c
<1>7. c \in Raw /\ Counted(c)
  BY <1>6, CountedIs DEF Keeps
<1>8. t \in Raw
  BY <1>7, Zenon DEF Raw, CheckRetry
<1>9. /\ t.present = c.present /\ t.cfg = c.cfg /\ t.netdevs = c.netdevs
      /\ t.n = c.n /\ t.active = c.active /\ t.users = c.users
      /\ t.ports = c.ports /\ t.claimed = c.claimed
      /\ t.sys = c.sys /\ t.force = c.force /\ t.told = c.told
  BY <1>7, SMT DEF Raw, CheckRetry
<1> HIDE DEF t
<1>10. Keeps(c, t) /\ Counted(t) /\ (Open(t) <=> Open(c))
  BY <1>7, <1>8, <1>9 DEF Keeps, Counted, Behind, Listed, Told, Open
<1>11. /\ Keeps(b, t) /\ Behind(t) = {} /\ t.active > 0 /\ Counted(t)
       /\ Open(b) => Open(t)
       /\ b.sys => t.sys /\ t.users = b.users
  <2>1. Keeps(b, t)
    BY <1>5, <1>6, <1>10, KeepsOn
  <2>2. Behind(t) = {}
    BY <1>6, <1>10 DEF Keeps
  <2> QED BY <1>4, <1>5, <1>6, <1>9, <1>10, <2>1, <2>2
<1>12. CASE b.n = 0 /\ (~b.force \/ (~b.kernel /\ ~e.addbr))
  <2>1. r.st = b /\ r.ok = FALSE
    BY <1>1, <1>12
  <2>2. b.present = {}
    BY <1>12, CountedIs
  <2>3. Behind(b) = {}
    BY <2>2 DEF Behind
  <2>4. e.addbr => Open(b)
    BY <1>12 DEF Open
  <2> QED BY <2>1, <2>3, <2>4
<1>13. CASE /\ ~(b.n = 0 /\ (~b.force \/ (~b.kernel /\ ~e.addbr)))
            /\ ~t.force /\ t.n = 0
  <2> DEFINE u == DisableInterface(t)
  <2>1. r.st = a /\ r.ok = FALSE
    BY <1>1, <1>13
  <2>2. u \in Raw
    BY <1>8, Zenon DEF Raw, DisableInterface
  <2>3. /\ u.present = t.present /\ u.cfg = t.cfg /\ u.netdevs = t.netdevs
        /\ u.n = t.n /\ u.active = t.active /\ u.users = t.users
        /\ u.sys = t.sys /\ u.force = t.force
    BY <1>8, SMT DEF Raw, DisableInterface
  <2> HIDE DEF u
  <2>4. Counted(u)
    BY <1>11, <2>2, <2>3 DEF Counted
  <2>5. /\ Counted(a) /\ a.users \subseteq u.users
        /\ a.present = u.present /\ a.cfg = u.cfg /\ a.netdevs = u.netdevs
        /\ a.n = u.n /\ a.force = u.force
    <3>1. e.prompt \in SUBSET Users /\ a = SetAbsent(u, e.prompt)
      BY EnvIs DEF u
    <3> HIDE DEF a
    <3> QED BY <2>4, <3>1, AbsentIs DEF Keeps
  <2>6. Open(a) /\ Told(a)
    BY <1>13, <2>3, <2>5 DEF Open, Told
  <2>7. a.present = {}
    BY <1>13, <2>3, <2>5, CountedIs
  <2>8. Behind(a) = {} /\ Listed(a)
    BY <2>7 DEF Behind, Listed
  <2>9. Open(b) => a.users \subseteq b.users
    BY <1>11, <1>13, <2>3, <2>5 DEF Open
  <2> QED BY <2>1, <2>5, <2>6, <2>8, <2>9
<1>14. CASE /\ ~(b.n = 0 /\ (~b.force \/ (~b.kernel /\ ~e.addbr)))
            /\ ~(~t.force /\ t.n = 0)
  <2>0. r = [st |-> IF e.up THEN t ELSE d, ok |-> e.up]
    BY <1>1, <1>14, Zenon
  <2> HIDE DEF d
  <2>1. r.st = (IF e.up THEN t ELSE d) /\ (r.ok <=> e.up)
    BY <2>0, EnvIs
  <2>2. CASE e.up
    BY <1>11, <2>1, <2>2 DEF Keeps
  <2>3. CASE ~e.up
    <3>1. r.st = d /\ ~r.ok
      BY <2>1, <2>3
    <3>2. /\ Counted(d)
          /\ d.present = t.present /\ d.cfg = t.cfg /\ d.netdevs = t.netdevs
          /\ d.n = t.n /\ d.users = t.users
          /\ d.sys = t.sys /\ d.force = t.force /\ d.told = t.told
      BY <1>11, DownIs DEF d
    <3>3. /\ Listed(t) => Listed(d)
          /\ Told(t) => Told(d)
          /\ Open(t) => Open(d)
      BY <3>2 DEF Listed, Told, Open
    <3>4. Open(b) => d.users \subseteq b.users
      BY <1>11, <1>14, <3>2 DEF Open
    <3> QED BY <1>11, <2>3, <3>1, <3>2, <3>3, <3>4 DEF Keeps
  <2> QED BY <2>2, <2>3
<1> QED BY <1>12, <1>13, <1>14

(* device_claim, of a bridge that is announced if it has reason to be: one  *)
(* that fails leaves no user to be counted.                                 *)
LEMMA ClaimIs ==
  ASSUME NEW e \in Env, NEW b, Counted(b), Open(b), NEW u \in Users,
         NEW t, t = Claim(b, u, e)
  PROVE  Keeps(b, t) /\ Open(t)
<1> DEFINE c == ClaimMore(b, {u})
           r == SetUp(c, e)
           f == [r.st EXCEPT !.active = 0, !.users = @ \ {u}]
<1>1. /\ Counted(c) /\ (b.active > 0 => Keeps(b, c) /\ c.active > 0)
      /\ c.users = b.users \union {u}
      /\ c.present = b.present /\ c.cfg = b.cfg /\ c.netdevs = b.netdevs
      /\ c.n = b.n /\ c.sys = b.sys /\ c.force = b.force /\ c.told = b.told
      /\ c.ports = b.ports /\ c.claimed = b.claimed /\ c.active >= b.active
  BY MoreIs
<1>2. /\ b.active \in Nat /\ c.active \in Nat
      /\ b.active = 0 <=> b.users = {}
      /\ c.active = 0 <=> c.users = {}
  BY <1>1, CountedIs
<1>3. Open(c) /\ (Listed(b) => Listed(c)) /\ (Told(b) => Told(c))
  BY <1>1 DEF Open, Listed, Told
<1>4. t = CASE u \in b.users \/ c.active # 1 -> c
            [] OTHER -> IF r.ok THEN r.st ELSE f
  BY DEF Claim
<1> HIDE DEF c
<1>5. CASE u \in b.users \/ c.active # 1
  <2>1. t = c
    BY <1>4, <1>5
  <2>2. b.active > 0
    <3>1. CASE u \in b.users
      BY <1>2, <3>1
    <3>2. CASE c.active # 1 /\ u \notin b.users
      <4>1. c.active = b.active + 1
        <5>1. {u} \in SUBSET Users /\ {u} \ b.users = {u}
          BY <3>2
        <5>2. Cardinality({u}) = 1
          BY FS_Singleton
        <5>3. c.active = b.active + Cardinality({u} \ b.users)
          BY CountedIs, SMT DEF c, ClaimMore, Raw
        <5> QED BY <5>1, <5>2, <5>3
      <4> QED BY <1>2, <3>2, <4>1
    <3> QED BY <1>5, <3>1, <3>2
  <2> QED BY <1>1, <1>3, <2>1, <2>2
<1>6. CASE ~(u \in b.users \/ c.active # 1)
  <2>1. c.active = 1 /\ u \notin b.users /\ c.active > 0
    BY <1>6
  <2>2. b.users = {} /\ c.users = {u}
    <3>1. Cardinality(c.users) = 1
      BY <1>1, <2>1 DEF Counted
    <3>2. IsFiniteSet(c.users)
      <4>1. c.users \in SUBSET Users
        BY <1>1 DEF Counted, Raw
      <4> QED BY <4>1, FiniteSides, FS_Subset
    <3>3. PICK x : c.users = {x}
      BY <3>1, <3>2, FS_Singleton
    <3> QED BY <1>1, <2>1, <3>3
  <2>3. /\ Counted(r.st)
        /\ Listed(c) => Listed(r.st)
        /\ Told(c) => Told(r.st)
        /\ Open(c) => Open(r.st)
        /\ r.ok => Behind(r.st) = {} /\ r.st.active > 0
        /\ ~r.ok /\ Open(c) => r.st.users \subseteq c.users
    BY <1>1, <2>1, SetUpIs
  <2> HIDE DEF r
  <2>4. CASE r.ok
    <3>1. t = r.st
      BY <1>4, <1>6, <2>4
    <3> QED BY <1>3, <2>3, <2>4, <3>1 DEF Keeps
  <2>5. CASE ~r.ok
    <3> DEFINE q == r.st
    <3>1. t = [q EXCEPT !.active = 0, !.users = @ \ {u}]
      BY <1>4, <1>6, <2>5
    <3>2. Counted(q) /\ q \in Raw /\ q.users \subseteq {u} /\ Open(q)
      BY <1>3, <2>2, <2>3, <2>5, CountedIs
    <3>3. /\ Listed(b) => Listed(q)
          /\ Told(b) => Told(q)
      BY <1>3, <2>3
    <3> HIDE DEF q
    <3>9. 0 \in Int
      OBVIOUS
    <3>4. t \in Raw
      BY <3>1, <3>2, <3>9, Zenon DEF Raw
    <3>5. /\ t.present = q.present /\ t.cfg = q.cfg /\ t.netdevs = q.netdevs
          /\ t.n = q.n /\ t.active = 0 /\ t.users = q.users \ {u}
          /\ t.sys = q.sys /\ t.force = q.force /\ t.told = q.told
      BY <3>1, <3>2, SMT DEF Raw
    <3>6. t.users = {} /\ Cardinality(t.users) = 0
      BY <3>2, <3>5, FS_EmptySet
    <3>7. Counted(t)
      BY <3>2, <3>4, <3>5, <3>6 DEF Counted
    <3>8. Behind(t) = {}
      BY <3>5 DEF Behind
    <3> QED BY <3>2, <3>3, <3>5, <3>7, <3>8 DEF Keeps, Listed, Told, Open
  <2> QED BY <2>4, <2>5
<1> QED BY <1>5, <1>6

(* The loop of device_set_present over the users, written out. *)
Tell(c, u, e) ==
  IF u \in e.eager THEN Claim([c EXCEPT !.told = @ \union {u}], u, e)
  ELSE [c EXCEPT !.told = @ \union {u}]

TellAll(b, e) ==
  LET f[i \in 0 .. Len(UserOrder)] ==
        IF i = 0 THEN b ELSE Tell(f[i - 1], UserOrder[i], e)
  IN f[Len(UserOrder)]

LEMMA TellIs ==
  ASSUME NEW e \in Env, NEW b, Counted(b), Open(b), NEW u \in Users,
         NEW t, t = Tell(b, u, e)
  PROVE  Keeps(b, t) /\ Open(t)
<1> DEFINE c == [b EXCEPT !.told = @ \union {u}]
<1>1. b \in Raw
  BY CountedIs
<1>2. c \in Raw
  BY <1>1, Zenon DEF Raw
<1>3. /\ c.present = b.present /\ c.cfg = b.cfg /\ c.netdevs = b.netdevs
      /\ c.n = b.n /\ c.active = b.active /\ c.users = b.users
      /\ c.ports = b.ports /\ c.claimed = b.claimed
      /\ c.sys = b.sys /\ c.force = b.force
  BY <1>1, SMT DEF Raw
<1>4. t = IF u \in e.eager THEN Claim(c, u, e) ELSE c
  BY DEF Tell
<1> HIDE DEF c
<1>5. Keeps(b, c) /\ Counted(c) /\ Open(c)
  BY <1>2, <1>3 DEF Keeps, Counted, Behind, Listed, Told, Open
<1>6. CASE u \in e.eager
  BY <1>4, <1>5, <1>6, ClaimIs, KeepsOn
<1>7. CASE u \notin e.eager
  BY <1>4, <1>5, <1>7
<1> QED BY <1>6, <1>7

LEMMA TellAllIs ==
  ASSUME NEW e \in Env, NEW b, Counted(b), Open(b), NEW t, t = TellAll(b, e)
  PROVE  Keeps(b, t) /\ Open(t)
<1> DEFINE n == Len(UserOrder)
           Fine(c) == Keeps(b, c) /\ Open(c)
           S == {c \in Raw : Fine(c)}
           F == [c \in S |-> [m \in Users |-> Tell(c, m, e)]]
           R(f) == f = [i \in 0 .. n |->
                          IF i = 0 THEN b ELSE Tell(f[i - 1], UserOrder[i], e)]
<1>1. /\ n \in Nat /\ UserOrder \in Seq(Users)
      /\ \A i \in 1 .. n : UserOrder[i] \in Users
  BY BridgeAssumption, LenProperties, ElementOfSeq
<1>2. b \in S
  BY CountedIs DEF Keeps
<1>3. ASSUME NEW c \in S, NEW m \in Users, NEW d, d = Tell(c, m, e)
      PROVE  d \in S
  <2>1. Counted(c) /\ Keeps(b, c) /\ Open(c)
    BY DEF Keeps
  <2>2. Keeps(c, d) /\ Open(d)
    BY <1>3, <2>1, TellIs
  <2>3. Keeps(b, d)
    BY <2>1, <2>2, KeepsOn
  <2>4. d \in Raw
    BY <2>2 DEF Keeps, Counted
  <2> QED BY <2>2, <2>3, <2>4
<1> HIDE DEF S, n
<1>4. F \in [S -> [Users -> S]]
  BY <1>3
<1>5. PICK h \in [0 .. n -> S] :
        h[0] = b /\ \A i \in 1 .. n : h[i] = F[h[i - 1]][UserOrder[i]]
  <2> HIDE DEF F
  <2>1. UserOrder \in Seq(Users)
    BY <1>1
  <2>2. Runs(S, F, UserOrder, b) # {}
    BY <1>2, <1>4, <2>1, LoopRuns
  <2> QED BY <2>2 DEF n, Runs
<1>6. R(h)
  <2>1. ASSUME NEW i \in 1 .. n
        PROVE  h[i] = Tell(h[i - 1], UserOrder[i], e)
    <3>1. i - 1 \in 0 .. n
      BY <1>1
    <3>2. h[i - 1] \in S /\ UserOrder[i] \in Users
      BY <1>1, <1>5, <3>1
    <3> QED BY <1>5, <3>2
  <2>2. \A i \in 0 .. n : i = 0 \/ i \in 1 .. n
    BY <1>1
  <2> HIDE DEF F
  <2>3. \A i \in 0 .. n :
          h[i] = IF i = 0 THEN b ELSE Tell(h[i - 1], UserOrder[i], e)
    BY <1>5, <2>1, <2>2
  <2> QED BY <2>3, Zenon
<1>7. PICK g : g = CHOOSE f : R(f)
  OBVIOUS
<1>8. R(g)
  BY <1>6, <1>7
<1>9. t = g[n]
  BY <1>7 DEF TellAll, n
<1>10. g[0] = b /\ \A i \in 1 .. n : g[i] = Tell(g[i - 1], UserOrder[i], e)
  <2>1. \A i \in 0 .. n :
          g[i] = IF i = 0 THEN b ELSE Tell(g[i - 1], UserOrder[i], e)
    BY <1>8, Zenon
  <2>2. 0 \in 0 .. n /\ \A i \in 1 .. n : i \in 0 .. n /\ i # 0
    BY <1>1
  <2> HIDE DEF R, F
  <2> QED BY <2>1, <2>2
<1> HIDE DEF R, F
<1> DEFINE G == [i \in 0 .. n |-> S]
<1>11. g[0] \in G[0]
  BY <1>1, <1>2, <1>10
<1>12. ASSUME NEW i \in 1 .. n, g[i - 1] \in G[i - 1]
       PROVE  g[i] \in G[i]
  <2>1. i - 1 \in 0 .. n /\ i \in 0 .. n /\ UserOrder[i] \in Users
    BY <1>1
  <2>2. g[i - 1] \in S
    BY <1>12, <2>1
  <2>3. g[i] \in S
    BY <1>3, <1>10, <2>1, <2>2
  <2> QED BY <2>1, <2>3
<1> HIDE DEF G
<1>13. g[n] \in G[n]
  BY <1>1, <1>11, <1>12, LoopReaches
<1>14. t \in S
  BY <1>1, <1>9, <1>13 DEF G
<1> QED BY <1>14 DEF S

(* device_set_present(TRUE) leaves a bridge that is announced, or one that  *)
(* has lost its members to users that claimed it.                           *)
LEMMA PresentIs ==
  ASSUME NEW e \in Env, NEW b, Counted(b), NEW t, t = SetPresent(b, e)
  PROVE  Keeps(b, t) /\ Open(t)
<1> DEFINE c == [b EXCEPT !.sys = TRUE]
<1>1. t = IF b.sys THEN b ELSE TellAll(c, e)
  BY DEF SetPresent, ForUsers, Folded, TellAll, Tell
<1>2. b \in Raw
  BY CountedIs
<1>3. c \in Raw
  BY <1>2, Zenon DEF Raw
<1>4. /\ c.present = b.present /\ c.cfg = b.cfg /\ c.netdevs = b.netdevs
      /\ c.n = b.n /\ c.active = b.active /\ c.users = b.users
      /\ c.ports = b.ports /\ c.claimed = b.claimed /\ c.sys
  BY <1>2, SMT DEF Raw
<1> HIDE DEF c
<1>5. Keeps(b, c) /\ Counted(c) /\ Open(c)
  BY <1>3, <1>4 DEF Keeps, Counted, Behind, Listed, Told, Open
<1>6. CASE b.sys
  BY <1>1, <1>6 DEF Keeps, Open
<1>7. CASE ~b.sys
  <2>1. Keeps(c, t) /\ Open(t)
    BY <1>1, <1>5, <1>7, TellAllIs
  <2> QED BY <1>5, <2>1, KeepsOn
<1> QED BY <1>6, <1>7

(***************************************************************************)
(* Members come and go                                                     *)
(***************************************************************************)

LEMMA EnableMemberIs ==
  ASSUME NEW e \in Env, NEW b, Counted(b), NEW m \in Members,
         NEW t, t = EnableMember(b, m, e)
  PROVE  /\ Keeps(b, t) /\ Behind(t) \subseteq Behind(b) \ {m}
         /\ (m \notin b.present /\ t = b)
            \/ Open(t)
            \/ (/\ t.n = b.n - 1 /\ t.present = b.present \ {m} /\ t.force = b.force
                /\ t.sys = b.sys /\ t.told = b.told)
<1>1. CASE m \notin b.present
  <2>1. t = b
    BY <1>1 DEF EnableMember
  <2> QED BY <1>1, <2>1 DEF Keeps, Behind
<1>2. CASE m \in b.present /\ EnslaveFails(b, m, e)
  <2>1. t = MemberFailed(b, m, e)
    BY <1>2 DEF EnableMember
  <2> QED BY <1>2, <2>1, MemberFailedIs
<1>3. CASE m \in b.present /\ ~EnslaveFails(b, m, e)
  <2> DEFINE c == Enslaved(b, m)
  <2>1. t = SetPresent(c, e)
    BY <1>3 DEF EnableMember
  <2>2. Keeps(b, c) /\ Behind(c) \subseteq Behind(b) \ {m} /\ Counted(c)
    BY EnslavedIs DEF Keeps
  <2> HIDE DEF c
  <2>3. Keeps(c, t) /\ Open(t)
    BY <2>1, <2>2, PresentIs
  <2>4. Keeps(b, t)
    BY <2>2, <2>3, KeepsOn
  <2>5. Behind(t) \subseteq Behind(b) \ {m}
    BY <2>2, <2>3 DEF Keeps
  <2> QED BY <2>3, <2>4, <2>5
<1> QED BY <1>1, <1>2, <1>3

(* One more member is present and counted. *)
OneMore(b, m) == [b EXCEPT !.present = @ \union {m}, !.n = @ + 1]

LEMMA OneMoreIs ==
  ASSUME NEW b, Counted(b), NEW m \in Members, m \notin b.present,
         NEW t, t = OneMore(b, m)
  PROVE  /\ Counted(t) /\ Behind(t) \subseteq Behind(b) \union {m}
         /\ Listed(b) /\ m \in b.cfg \intersect b.netdevs => Listed(t)
         /\ t.n = b.n + 1 /\ t.present = b.present \union {m} /\ t.active = b.active
         /\ t.sys = b.sys /\ t.force = b.force /\ t.told = b.told
<1>1. b \in Raw /\ b.n \in Nat /\ b.n + 1 \in Int
  BY CountedIs
<1>2. Cardinality(b.present \union {m}) = b.n + 1
  BY CountedIs
<1>3. t \in Raw
  BY <1>1, Zenon DEF Raw, OneMore
<1>4. /\ t.present = b.present \union {m} /\ t.cfg = b.cfg /\ t.netdevs = b.netdevs
      /\ t.n = b.n + 1 /\ t.active = b.active /\ t.users = b.users
      /\ t.ports = b.ports /\ t.claimed = b.claimed
      /\ t.sys = b.sys /\ t.force = b.force /\ t.told = b.told
  BY <1>1, SMT DEF Raw, OneMore
<1>5. Counted(t)
  BY <1>2, <1>3, <1>4 DEF Counted
<1> QED BY <1>4, <1>5 DEF Behind, Listed

(* bridge_member_cb, ADD: the first member that comes has the bridge        *)
(* announced, and one that comes to a bridge that is up becomes its port.   *)
LEMMA MemberAddIs ==
  ASSUME NEW e \in Env, NEW b, Counted(b), NEW m \in Members, m \notin b.present,
         NEW t, t = MemberAdd(b, m, e)
  PROVE  /\ Counted(t) /\ Behind(t) \subseteq Behind(b)
         /\ Listed(b) /\ m \in b.cfg \intersect b.netdevs => Listed(t)
         /\ Told(b) => Told(t)
         /\ Open(b) => Open(t)
<1> DEFINE c == OneMore(b, m)
           s == IF c.n = 1 THEN SetPresent(c, e) ELSE c
<1>1. /\ Counted(c) /\ Behind(c) \subseteq Behind(b) \union {m}
      /\ Listed(b) /\ m \in b.cfg \intersect b.netdevs => Listed(c)
      /\ c.n = b.n + 1 /\ c.active = b.active
      /\ c.sys = b.sys /\ c.force = b.force /\ c.told = b.told
  BY OneMoreIs
<1>2. t = IF s.active > 0 THEN EnableMemberWhileUp(s, m, e) ELSE s
  BY DEF MemberAdd, OneMore
<1> HIDE DEF c
<1>3. /\ Counted(s) /\ Behind(s) \subseteq Behind(c)
      /\ Listed(c) => Listed(s)
      /\ Told(b) => Told(s)
      /\ Open(b) => Open(s)
  <2>1. CASE c.n = 1
    <3>1. Keeps(c, s) /\ Open(s)
      BY <1>1, <2>1, PresentIs
    <3> QED BY <3>1 DEF Keeps, Told
  <2>2. CASE c.n # 1
    <3>1. s = c
      BY <2>2
    <3>2. b.n # 0
      BY <1>1, <2>2
    <3> QED BY <1>1, <3>1, <3>2 DEF Told, Open
  <2> QED BY <2>1, <2>2
<1> HIDE DEF s
<1>4. CASE s.active > 0
  <2>1. /\ Keeps(s, t) /\ m \notin Behind(t)
        /\ Open(s) => Open(t)
    BY <1>2, <1>3, <1>4, EnableWhileUpIs
  <2>2. Behind(t) \subseteq Behind(b)
    BY <1>1, <1>3, <2>1 DEF Keeps
  <2> QED BY <1>1, <1>3, <2>1, <2>2 DEF Keeps
<1>5. CASE ~(s.active > 0)
  <2>1. t = s /\ Behind(t) = {}
    BY <1>2, <1>5 DEF Behind
  <2> QED BY <1>1, <1>3, <2>1
<1> QED BY <1>4, <1>5

(* A member that goes is no longer counted, nor missed. *)
LEMMA RemoveIs ==
  ASSUME NEW b, Counted(b), NEW m \in Members, NEW prompt \in SUBSET Users,
         NEW t, t = RemoveMember(b, m, prompt)
  PROVE  /\ Counted(t) /\ Behind(t) \subseteq Behind(b) \ {m}
         /\ t.present = b.present \ {m}
         /\ t.cfg = b.cfg /\ t.netdevs = b.netdevs
         /\ Told(b) => Told(t)
         /\ Open(b) => Open(t)
<1> DEFINE d == IF b.active > 0 THEN DisableMember(b, m) ELSE b
           s == [d EXCEPT !.present = @ \ {m}, !.n = @ - 1]
           f == [s EXCEPT !.force = FALSE]
<1>1. CASE m \notin b.present
  <2>1. t = b
    BY <1>1 DEF RemoveMember
  <2> QED BY <1>1, <2>1 DEF Behind
<1>2. CASE m \in b.present
  <2>1. /\ b \in Raw /\ b.n \in Nat /\ b.n - 1 \in Int
    BY CountedIs
  <2>2. Cardinality(b.present \ {m}) = b.n - 1
    BY <1>2, CountedIs
  <2>3. b.n # 0
    BY <1>2, CountedIs
  <2>4. t = IF b.empty THEN s ELSE IF f.n = 0 THEN SetAbsent(f, prompt) ELSE f
    BY <1>2 DEF RemoveMember
  <2>5. d \in Raw
    BY <2>1, Zenon DEF Raw, DisableMember
  <2>6. /\ d.present = b.present /\ d.cfg = b.cfg /\ d.netdevs = b.netdevs
        /\ d.n = b.n /\ d.active = b.active /\ d.users = b.users
        /\ d.ports \in {b.ports, b.ports \ {m}}
        /\ d.claimed \in {b.claimed, b.claimed \ {m}}
        /\ d.sys = b.sys /\ d.force = b.force /\ d.told = b.told
    BY <2>1, SMT DEF Raw, DisableMember
  <2> HIDE DEF d
  <2>7. d.n - 1 \in Int
    BY <2>1, <2>6
  <2>8. s \in Raw
    BY <2>5, <2>7, Zenon DEF Raw
  <2>9. /\ s.present = d.present \ {m} /\ s.cfg = d.cfg /\ s.netdevs = d.netdevs
        /\ s.n = d.n - 1 /\ s.active = d.active /\ s.users = d.users
        /\ s.ports = d.ports /\ s.claimed = d.claimed
        /\ s.sys = d.sys /\ s.force = d.force /\ s.told = d.told
    BY <2>5, SMT DEF Raw
  <2> HIDE DEF s
  <2>10. f \in Raw
    BY <2>8, Zenon DEF Raw
  <2>11. /\ f.present = s.present /\ f.cfg = s.cfg /\ f.netdevs = s.netdevs
         /\ f.n = s.n /\ f.active = s.active /\ f.users = s.users
         /\ f.ports = s.ports /\ f.claimed = s.claimed
         /\ f.sys = s.sys /\ f.force = FALSE /\ f.told = s.told
    BY <2>8, SMT DEF Raw
  <2> HIDE DEF f
  <2>12. Counted(s) /\ Counted(f)
    BY <2>2, <2>6, <2>8, <2>9, <2>10, <2>11 DEF Counted
  <2>13. Behind(s) \subseteq Behind(b) \ {m} /\ Behind(f) = Behind(s)
    BY <2>6, <2>9, <2>11 DEF Behind
  <2>14. /\ Open(b) => b.sys
         /\ Told(b) => b.sys \/ b.told = {}
    BY <2>3 DEF Open, Told
  <2>15. CASE t = s
    BY <2>6, <2>9, <2>12, <2>13, <2>14, <2>15 DEF Open, Told
  <2>16. CASE t = f
    BY <2>6, <2>9, <2>11, <2>12, <2>13, <2>14, <2>16 DEF Open, Told
  <2>17. CASE f.n = 0 /\ t = SetAbsent(f, prompt)
    <3>1. /\ Keeps(f, t)
          /\ t.present = f.present /\ t.cfg = f.cfg /\ t.netdevs = f.netdevs
          /\ t.n = f.n /\ t.force = f.force
      BY <2>12, <2>17, AbsentIs
    <3>2. Open(t) /\ Told(t)
      BY <2>11, <2>17, <3>1 DEF Open, Told
    <3> QED BY <2>6, <2>9, <2>11, <2>13, <3>1, <3>2 DEF Keeps
  <2> QED BY <2>4, <2>15, <2>16, <2>17
<1> QED BY <1>1, <1>2

LEMMA FreeIs ==
  ASSUME NEW b, Counted(b), NEW m \in Members, NEW prompt \in SUBSET Users,
         NEW t, t = FreeMember(b, m, prompt)
  PROVE  /\ Counted(t) /\ Behind(t) \subseteq Behind(b) \ {m}
         /\ t.present = b.present \ {m}
         /\ t.cfg = b.cfg \ {m} /\ t.netdevs = b.netdevs
         /\ Told(b) => Told(t)
         /\ Open(b) => Open(t)
<1> DEFINE c == [b EXCEPT !.cfg = @ \ {m}, !.hot = @ \ {m}, !.kept = @ \ {m}]
           d == RemoveMember(c, m, prompt)
<1>1. b \in Raw
  BY CountedIs
<1>2. c \in Raw
  BY <1>1, Zenon DEF Raw
<1>3. /\ c.present = b.present /\ c.cfg = b.cfg \ {m} /\ c.netdevs = b.netdevs
      /\ c.n = b.n /\ c.active = b.active /\ c.users = b.users
      /\ c.ports = b.ports /\ c.claimed = b.claimed
      /\ c.sys = b.sys /\ c.force = b.force /\ c.told = b.told
  BY <1>1, SMT DEF Raw
<1>4. t = [d EXCEPT !.claimed = @ \ {m}]
  BY DEF FreeMember
<1> HIDE DEF c
<1>5. Counted(c) /\ Behind(c) = Behind(b) /\ (Open(c) <=> Open(b)) /\ (Told(c) <=> Told(b))
  BY <1>2, <1>3 DEF Counted, Behind, Open, Told
<1>6. /\ Counted(d) /\ Behind(d) \subseteq Behind(c) \ {m}
      /\ d.present = c.present \ {m}
      /\ d.cfg = c.cfg /\ d.netdevs = c.netdevs
      /\ Told(c) => Told(d)
      /\ Open(c) => Open(d)
  BY <1>5, RemoveIs
<1> HIDE DEF d
<1>7. d \in Raw
  BY <1>6, CountedIs
<1>8. t \in Raw
  BY <1>4, <1>7, Zenon DEF Raw
<1>9. /\ t.present = d.present /\ t.cfg = d.cfg /\ t.netdevs = d.netdevs
      /\ t.n = d.n /\ t.active = d.active /\ t.users = d.users
      /\ t.ports = d.ports /\ t.claimed = d.claimed \ {m}
      /\ t.sys = d.sys /\ t.force = d.force /\ t.told = d.told
  BY <1>4, <1>7, SMT DEF Raw
<1>10. Counted(t) /\ (Open(t) <=> Open(d)) /\ (Told(t) <=> Told(d))
  BY <1>6, <1>8, <1>9 DEF Counted, Open, Told
<1>11. Behind(t) \subseteq Behind(b) \ {m}
  BY <1>3, <1>5, <1>6, <1>9 DEF Behind
<1> QED BY <1>3, <1>5, <1>6, <1>9, <1>10, <1>11

(* bridge_create_member: one that is on the list already stays as it is. *)
LEMMA CreateIs ==
  ASSUME NEW e \in Env, NEW b, Counted(b), Listed(b), NEW m \in Members,
         NEW hotplug \in BOOLEAN, NEW t, t = CreateMember(b, m, hotplug, e)
  PROVE  Keeps(b, t) /\ (Open(b) => Open(t))
<1> DEFINE hot  == IF hotplug /\ m \notin b.cfg THEN b.hot \union {m} ELSE b.hot
           kept == IF hotplug THEN b.kept \union {m} ELSE b.kept \ {m}
           c == [b EXCEPT !.cfg = @ \union {m}, !.hot = hot, !.kept = kept]
<1>1. b \in Raw
  BY CountedIs
<1>2. c \in Raw
  <2>1. hot \in SUBSET Members /\ kept \in SUBSET Members
    BY <1>1 DEF Raw
  <2> HIDE DEF hot, kept
  <2> QED BY <1>1, <2>1, Zenon DEF Raw
<1>3. /\ c.present = b.present /\ c.cfg = b.cfg \union {m} /\ c.netdevs = b.netdevs
      /\ c.n = b.n /\ c.active = b.active /\ c.users = b.users
      /\ c.ports = b.ports /\ c.claimed = b.claimed
      /\ c.sys = b.sys /\ c.force = b.force /\ c.told = b.told
  BY <1>1, SMT DEF Raw
<1>4. t = IF m \notin b.cfg /\ m \in b.netdevs THEN MemberAdd(c, m, e) ELSE c
  BY DEF CreateMember
<1> HIDE DEF c
<1>5. /\ Counted(c) /\ Behind(c) = Behind(b) /\ Listed(c)
      /\ (Open(c) <=> Open(b)) /\ (Told(c) <=> Told(b))
  BY <1>2, <1>3 DEF Counted, Behind, Listed, Open, Told
<1>6. CASE m \notin b.cfg /\ m \in b.netdevs
  <2>1. m \notin c.present /\ m \in c.cfg \intersect c.netdevs
    BY <1>3, <1>6 DEF Listed
  <2>2. /\ Counted(t) /\ Behind(t) \subseteq Behind(c)
        /\ Listed(c) /\ m \in c.cfg \intersect c.netdevs => Listed(t)
        /\ Told(c) => Told(t)
        /\ Open(c) => Open(t)
    BY <1>4, <1>5, <1>6, <2>1, MemberAddIs
  <2> QED BY <1>5, <2>1, <2>2 DEF Keeps
<1>7. CASE ~(m \notin b.cfg /\ m \in b.netdevs)
  BY <1>4, <1>5, <1>7 DEF Keeps
<1> QED BY <1>6, <1>7

(***************************************************************************)
(* Loops over the members                                                  *)
(***************************************************************************)

(* The turns of the three loops, and the loops written out: the members     *)
(* that are named, those that are no longer, and those to be retried.       *)
NameOne(c, m, names, e) == IF m \in names THEN CreateMember(c, m, FALSE, e) ELSE c

FlushOne(c, m, names, e) ==
  IF m \in c.cfg \ (names \union c.kept) THEN FreeMember(c, m, e.prompt) ELSE c

RetryOne(c, m, e) ==
  IF m \in (c.cfg \intersect c.netdevs) \ c.present
  THEN EnableMember(OneMore(c, m), m, e) ELSE c

NameAll(b, names, e) ==
  LET f[i \in 0 .. Len(MemberOrder)] ==
        IF i = 0 THEN b ELSE NameOne(f[i - 1], MemberOrder[i], names, e)
  IN f[Len(MemberOrder)]

FlushAll(b, names, e) ==
  LET f[i \in 0 .. Len(MemberOrder)] ==
        IF i = 0 THEN b ELSE FlushOne(f[i - 1], MemberOrder[i], names, e)
  IN f[Len(MemberOrder)]

RetryAll(b, e) ==
  LET f[i \in 0 .. Len(MemberOrder)] ==
        IF i = 0 THEN b ELSE RetryOne(f[i - 1], MemberOrder[i], e)
  IN f[Len(MemberOrder)]

LEMMA NameOneIs ==
  ASSUME NEW e \in Env, NEW b, Counted(b), Listed(b), NEW m \in Members,
         NEW names, NEW t, t = NameOne(b, m, names, e)
  PROVE  Keeps(b, t) /\ (Open(b) => Open(t))
<1>1. CASE m \in names
  <2>1. t = CreateMember(b, m, FALSE, e)
    BY <1>1 DEF NameOne
  <2> QED BY <2>1, CreateIs
<1>2. CASE m \notin names
  <2>1. t = b
    BY <1>2 DEF NameOne
  <2> QED BY <2>1 DEF Keeps
<1> QED BY <1>1, <1>2

LEMMA FlushOneIs ==
  ASSUME NEW e \in Env, NEW b, Counted(b), Listed(b), NEW m \in Members,
         NEW names, NEW t, t = FlushOne(b, m, names, e)
  PROVE  Keeps(b, t) /\ (Open(b) => Open(t))
<1>1. CASE m \in b.cfg \ (names \union b.kept)
  <2>1. t = FreeMember(b, m, e.prompt) /\ e.prompt \in SUBSET Users
    BY <1>1, EnvIs DEF FlushOne
  <2>2. /\ Counted(t) /\ Behind(t) \subseteq Behind(b) \ {m}
        /\ t.present = b.present \ {m}
        /\ t.cfg = b.cfg \ {m} /\ t.netdevs = b.netdevs
        /\ Told(b) => Told(t)
        /\ Open(b) => Open(t)
    BY <2>1, FreeIs
  <2> QED BY <2>2 DEF Keeps, Listed
<1>2. CASE m \notin b.cfg \ (names \union b.kept)
  <2>1. t = b
    BY <1>2 DEF FlushOne
  <2> QED BY <2>1 DEF Keeps
<1> QED BY <1>1, <1>2

LEMMA RetryOneIs ==
  ASSUME NEW e \in Env, NEW b, Counted(b), Listed(b), NEW m \in Members,
         NEW t, t = RetryOne(b, m, e)
  PROVE  Keeps(b, t) /\ (Open(b) => Open(t))
<1> DEFINE c == OneMore(b, m)
<1>1. CASE m \in (b.cfg \intersect b.netdevs) \ b.present
  <2>1. t = EnableMember(c, m, e)
    BY <1>1 DEF RetryOne
  <2>2. /\ Counted(c) /\ Behind(c) \subseteq Behind(b) \union {m}
        /\ Listed(c)
        /\ c.n = b.n + 1 /\ c.present = b.present \union {m}
        /\ c.sys = b.sys /\ c.force = b.force /\ c.told = b.told
    BY <1>1, OneMoreIs
  <2> HIDE DEF c
  <2>3. /\ Keeps(c, t) /\ Behind(t) \subseteq Behind(c) \ {m}
        /\ (m \notin c.present /\ t = c)
           \/ Open(t)
           \/ (/\ t.n = c.n - 1 /\ t.present = c.present \ {m} /\ t.force = c.force
               /\ t.sys = c.sys /\ t.told = c.told)
    BY <2>1, <2>2, EnableMemberIs
  <2>4. Behind(t) \subseteq Behind(b) /\ Counted(t) /\ Listed(t)
    BY <2>2, <2>3 DEF Keeps
  <2>5. CASE Open(t)
    BY <2>4, <2>5 DEF Keeps, Told
  <2>6. CASE /\ t.n = c.n - 1 /\ t.force = c.force
             /\ t.sys = c.sys /\ t.told = c.told
    <3>1. b.n \in Nat
      BY CountedIs
    <3>2. t.n = b.n
      BY <2>2, <2>6, <3>1
    <3> QED BY <2>2, <2>4, <2>6, <3>2 DEF Keeps, Told, Open
  <2> QED BY <2>2, <2>3, <2>5, <2>6
<1>2. CASE m \notin (b.cfg \intersect b.netdevs) \ b.present
  <2>1. t = b
    BY <1>2 DEF RetryOne
  <2> QED BY <2>1 DEF Keeps
<1> QED BY <1>1, <1>2

LEMMA NameAllIs ==
  ASSUME NEW e \in Env, NEW b, Counted(b), Listed(b), NEW names,
         NEW t, t = NameAll(b, names, e)
  PROVE  Keeps(b, t) /\ (Open(b) => Open(t))
<1> DEFINE n == Len(MemberOrder)
           Fine(c) == Keeps(b, c) /\ (Open(b) => Open(c))
           S == {c \in Raw : Fine(c)}
           F == [c \in S |-> [m \in Members |-> NameOne(c, m, names, e)]]
           R(f) == f = [i \in 0 .. n |->
                          IF i = 0 THEN b ELSE NameOne(f[i - 1], MemberOrder[i], names, e)]
<1>1. /\ n \in Nat /\ MemberOrder \in Seq(Members)
      /\ \A i \in 1 .. n : MemberOrder[i] \in Members
  BY BridgeAssumption, LenProperties, ElementOfSeq
<1>2. b \in S
  BY CountedIs DEF Keeps
<1>3. ASSUME NEW c \in S, NEW m \in Members, NEW d, d = NameOne(c, m, names, e)
      PROVE  d \in S
  <2>1. Counted(c) /\ Listed(c) /\ Fine(c)
    BY DEF Keeps
  <2>2. Keeps(c, d) /\ (Open(c) => Open(d))
    BY <1>3, <2>1, NameOneIs
  <2>3. Keeps(b, d)
    BY <2>1, <2>2, KeepsOn
  <2>4. d \in Raw
    BY <2>2 DEF Keeps, Counted
  <2> QED BY <2>1, <2>2, <2>3, <2>4
<1> HIDE DEF S, n
<1>4. F \in [S -> [Members -> S]]
  BY <1>3
<1>5. PICK h \in [0 .. n -> S] :
        h[0] = b /\ \A i \in 1 .. n : h[i] = F[h[i - 1]][MemberOrder[i]]
  <2> HIDE DEF F
  <2>1. MemberOrder \in Seq(Members)
    BY <1>1
  <2>2. Runs(S, F, MemberOrder, b) # {}
    BY <1>2, <1>4, <2>1, LoopRuns
  <2> QED BY <2>2 DEF n, Runs
<1>6. R(h)
  <2>1. ASSUME NEW i \in 1 .. n
        PROVE  h[i] = NameOne(h[i - 1], MemberOrder[i], names, e)
    <3>1. i - 1 \in 0 .. n
      BY <1>1
    <3>2. h[i - 1] \in S /\ MemberOrder[i] \in Members
      BY <1>1, <1>5, <3>1
    <3> QED BY <1>5, <3>2
  <2>2. \A i \in 0 .. n : i = 0 \/ i \in 1 .. n
    BY <1>1
  <2> HIDE DEF F
  <2>3. \A i \in 0 .. n :
          h[i] = IF i = 0 THEN b ELSE NameOne(h[i - 1], MemberOrder[i], names, e)
    BY <1>5, <2>1, <2>2
  <2> QED BY <2>3, Zenon
<1>7. PICK g : g = CHOOSE f : R(f)
  OBVIOUS
<1>8. R(g)
  BY <1>6, <1>7
<1>9. t = g[n]
  BY <1>7 DEF NameAll, n
<1>10. g[0] = b /\ \A i \in 1 .. n : g[i] = NameOne(g[i - 1], MemberOrder[i], names, e)
  <2>1. \A i \in 0 .. n :
          g[i] = IF i = 0 THEN b ELSE NameOne(g[i - 1], MemberOrder[i], names, e)
    BY <1>8, Zenon
  <2>2. 0 \in 0 .. n /\ \A i \in 1 .. n : i \in 0 .. n /\ i # 0
    BY <1>1
  <2> HIDE DEF R, F
  <2> QED BY <2>1, <2>2
<1> HIDE DEF R, F
<1> DEFINE G == [i \in 0 .. n |-> S]
<1>11. g[0] \in G[0]
  BY <1>1, <1>2, <1>10
<1>12. ASSUME NEW i \in 1 .. n, g[i - 1] \in G[i - 1]
       PROVE  g[i] \in G[i]
  <2>1. i - 1 \in 0 .. n /\ i \in 0 .. n /\ MemberOrder[i] \in Members
    BY <1>1
  <2>2. g[i - 1] \in S
    BY <1>12, <2>1
  <2>3. g[i] \in S
    BY <1>3, <1>10, <2>1, <2>2
  <2> QED BY <2>1, <2>3
<1> HIDE DEF G
<1>13. g[n] \in G[n]
  BY <1>1, <1>11, <1>12, LoopReaches
<1>14. t \in S
  BY <1>1, <1>9, <1>13 DEF G
<1> QED BY <1>14 DEF S

LEMMA FlushAllIs ==
  ASSUME NEW e \in Env, NEW b, Counted(b), Listed(b), NEW names,
         NEW t, t = FlushAll(b, names, e)
  PROVE  Keeps(b, t) /\ (Open(b) => Open(t))
<1> DEFINE n == Len(MemberOrder)
           Fine(c) == Keeps(b, c) /\ (Open(b) => Open(c))
           S == {c \in Raw : Fine(c)}
           F == [c \in S |-> [m \in Members |-> FlushOne(c, m, names, e)]]
           R(f) == f = [i \in 0 .. n |->
                          IF i = 0 THEN b ELSE FlushOne(f[i - 1], MemberOrder[i], names, e)]
<1>1. /\ n \in Nat /\ MemberOrder \in Seq(Members)
      /\ \A i \in 1 .. n : MemberOrder[i] \in Members
  BY BridgeAssumption, LenProperties, ElementOfSeq
<1>2. b \in S
  BY CountedIs DEF Keeps
<1>3. ASSUME NEW c \in S, NEW m \in Members, NEW d, d = FlushOne(c, m, names, e)
      PROVE  d \in S
  <2>1. Counted(c) /\ Listed(c) /\ Fine(c)
    BY DEF Keeps
  <2>2. Keeps(c, d) /\ (Open(c) => Open(d))
    BY <1>3, <2>1, FlushOneIs
  <2>3. Keeps(b, d)
    BY <2>1, <2>2, KeepsOn
  <2>4. d \in Raw
    BY <2>2 DEF Keeps, Counted
  <2> QED BY <2>1, <2>2, <2>3, <2>4
<1> HIDE DEF S, n
<1>4. F \in [S -> [Members -> S]]
  BY <1>3
<1>5. PICK h \in [0 .. n -> S] :
        h[0] = b /\ \A i \in 1 .. n : h[i] = F[h[i - 1]][MemberOrder[i]]
  <2> HIDE DEF F
  <2>1. MemberOrder \in Seq(Members)
    BY <1>1
  <2>2. Runs(S, F, MemberOrder, b) # {}
    BY <1>2, <1>4, <2>1, LoopRuns
  <2> QED BY <2>2 DEF n, Runs
<1>6. R(h)
  <2>1. ASSUME NEW i \in 1 .. n
        PROVE  h[i] = FlushOne(h[i - 1], MemberOrder[i], names, e)
    <3>1. i - 1 \in 0 .. n
      BY <1>1
    <3>2. h[i - 1] \in S /\ MemberOrder[i] \in Members
      BY <1>1, <1>5, <3>1
    <3> QED BY <1>5, <3>2
  <2>2. \A i \in 0 .. n : i = 0 \/ i \in 1 .. n
    BY <1>1
  <2> HIDE DEF F
  <2>3. \A i \in 0 .. n :
          h[i] = IF i = 0 THEN b ELSE FlushOne(h[i - 1], MemberOrder[i], names, e)
    BY <1>5, <2>1, <2>2
  <2> QED BY <2>3, Zenon
<1>7. PICK g : g = CHOOSE f : R(f)
  OBVIOUS
<1>8. R(g)
  BY <1>6, <1>7
<1>9. t = g[n]
  BY <1>7 DEF FlushAll, n
<1>10. g[0] = b /\ \A i \in 1 .. n : g[i] = FlushOne(g[i - 1], MemberOrder[i], names, e)
  <2>1. \A i \in 0 .. n :
          g[i] = IF i = 0 THEN b ELSE FlushOne(g[i - 1], MemberOrder[i], names, e)
    BY <1>8, Zenon
  <2>2. 0 \in 0 .. n /\ \A i \in 1 .. n : i \in 0 .. n /\ i # 0
    BY <1>1
  <2> HIDE DEF R, F
  <2> QED BY <2>1, <2>2
<1> HIDE DEF R, F
<1> DEFINE G == [i \in 0 .. n |-> S]
<1>11. g[0] \in G[0]
  BY <1>1, <1>2, <1>10
<1>12. ASSUME NEW i \in 1 .. n, g[i - 1] \in G[i - 1]
       PROVE  g[i] \in G[i]
  <2>1. i - 1 \in 0 .. n /\ i \in 0 .. n /\ MemberOrder[i] \in Members
    BY <1>1
  <2>2. g[i - 1] \in S
    BY <1>12, <2>1
  <2>3. g[i] \in S
    BY <1>3, <1>10, <2>1, <2>2
  <2> QED BY <2>1, <2>3
<1> HIDE DEF G
<1>13. g[n] \in G[n]
  BY <1>1, <1>11, <1>12, LoopReaches
<1>14. t \in S
  BY <1>1, <1>9, <1>13 DEF G
<1> QED BY <1>14 DEF S

LEMMA RetryAllIs ==
  ASSUME NEW e \in Env, NEW b, Counted(b), Listed(b),
         NEW t, t = RetryAll(b, e)
  PROVE  Keeps(b, t) /\ (Open(b) => Open(t))
<1> DEFINE n == Len(MemberOrder)
           Fine(c) == Keeps(b, c) /\ (Open(b) => Open(c))
           S == {c \in Raw : Fine(c)}
           F == [c \in S |-> [m \in Members |-> RetryOne(c, m, e)]]
           R(f) == f = [i \in 0 .. n |->
                          IF i = 0 THEN b ELSE RetryOne(f[i - 1], MemberOrder[i], e)]
<1>1. /\ n \in Nat /\ MemberOrder \in Seq(Members)
      /\ \A i \in 1 .. n : MemberOrder[i] \in Members
  BY BridgeAssumption, LenProperties, ElementOfSeq
<1>2. b \in S
  BY CountedIs DEF Keeps
<1>3. ASSUME NEW c \in S, NEW m \in Members, NEW d, d = RetryOne(c, m, e)
      PROVE  d \in S
  <2>1. Counted(c) /\ Listed(c) /\ Fine(c)
    BY DEF Keeps
  <2>2. Keeps(c, d) /\ (Open(c) => Open(d))
    BY <1>3, <2>1, RetryOneIs
  <2>3. Keeps(b, d)
    BY <2>1, <2>2, KeepsOn
  <2>4. d \in Raw
    BY <2>2 DEF Keeps, Counted
  <2> QED BY <2>1, <2>2, <2>3, <2>4
<1> HIDE DEF S, n
<1>4. F \in [S -> [Members -> S]]
  BY <1>3
<1>5. PICK h \in [0 .. n -> S] :
        h[0] = b /\ \A i \in 1 .. n : h[i] = F[h[i - 1]][MemberOrder[i]]
  <2> HIDE DEF F
  <2>1. MemberOrder \in Seq(Members)
    BY <1>1
  <2>2. Runs(S, F, MemberOrder, b) # {}
    BY <1>2, <1>4, <2>1, LoopRuns
  <2> QED BY <2>2 DEF n, Runs
<1>6. R(h)
  <2>1. ASSUME NEW i \in 1 .. n
        PROVE  h[i] = RetryOne(h[i - 1], MemberOrder[i], e)
    <3>1. i - 1 \in 0 .. n
      BY <1>1
    <3>2. h[i - 1] \in S /\ MemberOrder[i] \in Members
      BY <1>1, <1>5, <3>1
    <3> QED BY <1>5, <3>2
  <2>2. \A i \in 0 .. n : i = 0 \/ i \in 1 .. n
    BY <1>1
  <2> HIDE DEF F
  <2>3. \A i \in 0 .. n :
          h[i] = IF i = 0 THEN b ELSE RetryOne(h[i - 1], MemberOrder[i], e)
    BY <1>5, <2>1, <2>2
  <2> QED BY <2>3, Zenon
<1>7. PICK g : g = CHOOSE f : R(f)
  OBVIOUS
<1>8. R(g)
  BY <1>6, <1>7
<1>9. t = g[n]
  BY <1>7 DEF RetryAll, n
<1>10. g[0] = b /\ \A i \in 1 .. n : g[i] = RetryOne(g[i - 1], MemberOrder[i], e)
  <2>1. \A i \in 0 .. n :
          g[i] = IF i = 0 THEN b ELSE RetryOne(g[i - 1], MemberOrder[i], e)
    BY <1>8, Zenon
  <2>2. 0 \in 0 .. n /\ \A i \in 1 .. n : i \in 0 .. n /\ i # 0
    BY <1>1
  <2> HIDE DEF R, F
  <2> QED BY <2>1, <2>2
<1> HIDE DEF R, F
<1> DEFINE G == [i \in 0 .. n |-> S]
<1>11. g[0] \in G[0]
  BY <1>1, <1>2, <1>10
<1>12. ASSUME NEW i \in 1 .. n, g[i - 1] \in G[i - 1]
       PROVE  g[i] \in G[i]
  <2>1. i - 1 \in 0 .. n /\ i \in 0 .. n /\ MemberOrder[i] \in Members
    BY <1>1
  <2>2. g[i - 1] \in S
    BY <1>12, <2>1
  <2>3. g[i] \in S
    BY <1>3, <1>10, <2>1, <2>2
  <2> QED BY <2>1, <2>3
<1> HIDE DEF G
<1>13. g[n] \in G[n]
  BY <1>1, <1>11, <1>12, LoopReaches
<1>14. t \in S
  BY <1>1, <1>9, <1>13 DEF G
<1> QED BY <1>14 DEF S

(***************************************************************************)
(* Reload                                                                  *)
(***************************************************************************)

(* bridge_config_init, the whole of it. *)
LEMMA ConfigInitIs ==
  ASSUME NEW e \in Env, NEW b, Counted(b), Listed(b), NEW names,
         NEW t, t = ConfigInit(b, names, e)
  PROVE  Keeps(b, t) /\ (Open(b) => Open(t))
<1> DEFINE f == [b EXCEPT !.force = TRUE]
           c == IF b.empty THEN SetPresent(f, e) ELSE b
           d == [c EXCEPT !.failed = FALSE]
           g == NameAll(d, names, e)
           h == FlushAll(g, names, e)
<1>1. t = CheckRetry(h)
  BY DEF ConfigInit, ForMembers, Folded, NameAll, NameOne, FlushAll, FlushOne
<1>2. /\ Counted(c) /\ Behind(c) \subseteq Behind(b) /\ Listed(c)
      /\ Told(b) => Told(c)
      /\ Open(b) => Open(c)
  <2>1. CASE b.empty
    <3>1. b \in Raw
      BY CountedIs
    <3>2. f \in Raw
      BY <3>1, Zenon DEF Raw
    <3>3. /\ f.present = b.present /\ f.cfg = b.cfg /\ f.netdevs = b.netdevs
          /\ f.n = b.n /\ f.active = b.active /\ f.users = b.users
          /\ f.ports = b.ports /\ f.claimed = b.claimed
      BY <3>1, SMT DEF Raw
    <3> HIDE DEF f
    <3>4. Counted(f) /\ Behind(f) = Behind(b) /\ Listed(f)
      BY <3>2, <3>3 DEF Counted, Behind, Listed
    <3>5. Keeps(f, c) /\ Open(c)
      BY <2>1, <3>4, PresentIs
    <3> QED BY <3>4, <3>5 DEF Keeps, Told
  <2>2. CASE ~b.empty
    BY <2>2
  <2> QED BY <2>1, <2>2
<1> HIDE DEF c
<1>3. c \in Raw
  BY <1>2, CountedIs
<1>4. d \in Raw
  BY <1>3, Zenon DEF Raw
<1>5. /\ d.present = c.present /\ d.cfg = c.cfg /\ d.netdevs = c.netdevs
      /\ d.n = c.n /\ d.active = c.active /\ d.users = c.users
      /\ d.ports = c.ports /\ d.claimed = c.claimed
      /\ d.sys = c.sys /\ d.force = c.force /\ d.told = c.told
  BY <1>3, SMT DEF Raw
<1> HIDE DEF d
<1>6. Keeps(c, d) /\ Counted(d) /\ Listed(d) /\ (Open(c) => Open(d))
  BY <1>2, <1>4, <1>5 DEF Keeps, Counted, Behind, Listed, Told, Open
<1>7. Keeps(d, g) /\ (Open(d) => Open(g))
  BY <1>6, NameAllIs
<1> HIDE DEF g
<1>8. Counted(g) /\ Listed(g)
  BY <1>6, <1>7 DEF Keeps
<1>9. Keeps(g, h) /\ (Open(g) => Open(h))
  BY <1>8, FlushAllIs
<1> HIDE DEF h
<1>10. h \in Raw
  BY <1>9, CountedIs DEF Keeps
<1>11. t \in Raw
  BY <1>1, <1>10, Zenon DEF Raw, CheckRetry
<1>12. /\ t.present = h.present /\ t.cfg = h.cfg /\ t.netdevs = h.netdevs
       /\ t.n = h.n /\ t.active = h.active /\ t.users = h.users
       /\ t.ports = h.ports /\ t.claimed = h.claimed
       /\ t.sys = h.sys /\ t.force = h.force /\ t.told = h.told
  BY <1>1, <1>10, SMT DEF Raw, CheckRetry
<1>13. Keeps(h, t) /\ (Open(h) => Open(t))
  BY <1>9, <1>11, <1>12 DEF Keeps, Counted, Behind, Listed, Told, Open
<1>14. Keeps(c, t)
  BY <1>6, <1>7, <1>9, <1>13, KeepsOn
<1> QED BY <1>2, <1>6, <1>7, <1>9, <1>13, <1>14 DEF Keeps

(* A restart may leave a bridge that is claimed and down, if it can fail;   *)
(* nobody is told of such a bridge.                                         *)
LEMMA RestartIs ==
  ASSUME NEW e \in Env, NEW b, Counted(b), Listed(b), Told(b),
         NEW t, t = Restart(b, e)
  PROVE  /\ Counted(t) /\ Listed(t) /\ Told(t)
         /\ e.addbr /\ e.up /\ Open(b) /\ Behind(b) = {} => Open(t) /\ Behind(t) = {}
<1> DEFINE c == SetAbsent(b, e.prompt)
           d == SetDown(c)
           r == SetUp(d, e)
<1>1. t = IF ~b.sys THEN b
          ELSE IF c.active = 0 THEN SetPresent(c, e)
          ELSE IF r.ok THEN SetPresent(r.st, e) ELSE r.st
  BY DEF Restart
<1>2. Keeps(b, c) /\ Counted(c) /\ Listed(c) /\ Told(c)
  <2>1. e.prompt \in SUBSET Users
    BY EnvIs
  <2> HIDE DEF c
  <2> QED BY <2>1, AbsentIs DEF Keeps, c
<1> HIDE DEF c
<1>3. /\ Counted(d) /\ d.active = c.active
      /\ d.present = c.present /\ d.cfg = c.cfg /\ d.netdevs = c.netdevs
      /\ d.n = c.n /\ d.sys = c.sys /\ d.force = c.force /\ d.told = c.told
  BY <1>2, DownIs
<1>4. Listed(d) /\ Told(d)
  BY <1>2, <1>3 DEF Listed, Told, Open
<1> HIDE DEF d
<1>5. CASE ~b.sys
  BY <1>1, <1>5
<1>6. CASE b.sys /\ c.active = 0
  <2>1. t = SetPresent(c, e)
    BY <1>1, <1>6
  <2>2. Keeps(c, t) /\ Open(t)
    BY <1>2, <2>1, PresentIs
  <2>3. Keeps(b, t)
    BY <1>2, <2>2, KeepsOn
  <2> QED BY <2>2, <2>3 DEF Keeps
<1>7. CASE b.sys /\ c.active # 0
  <2>1. d.active > 0
    BY <1>2, <1>3, <1>7, CountedIs
  <2>2. /\ Counted(r.st)
        /\ Listed(d) => Listed(r.st)
        /\ Told(d) => Told(r.st)
        /\ r.ok => Behind(r.st) = {} /\ r.st.active > 0
        /\ ~r.ok /\ e.addbr /\ e.up => Open(r.st) /\ Behind(r.st) = {}
    BY <1>3, <2>1, SetUpIs
  <2> HIDE DEF r
  <2>3. CASE r.ok
    <3>1. t = SetPresent(r.st, e)
      BY <1>1, <1>7, <2>3
    <3>2. Keeps(r.st, t) /\ Open(t)
      BY <2>2, <3>1, PresentIs
    <3> QED BY <1>4, <2>2, <2>3, <3>2 DEF Keeps
  <2>4. CASE ~r.ok
    <3>1. t = r.st
      BY <1>1, <1>7, <2>4
    <3> QED BY <1>4, <2>2, <2>4, <3>1
  <2> QED BY <2>3, <2>4
<1> QED BY <1>5, <1>6, <1>7

(***************************************************************************)
(* The invariant                                                           *)
(***************************************************************************)

(* What holds whatever fails, *)
Sound(b) == Counted(b) /\ Listed(b) /\ Told(b)

(* and what holds while the bridge itself can be made and brought up. *)
Right(b) == Open(b) /\ Behind(b) = {}

IInv == Sound(br) /\ (BridgeOutcomes = {TRUE} => Right(br))

(* A step keeps it if it keeps both. *)
Steady(b, t) == Sound(t) /\ (BridgeOutcomes = {TRUE} /\ Right(b) => Right(t))

LEMMA KeptIsSteady ==
  ASSUME NEW b, Sound(b), NEW t, Keeps(b, t), Open(b) => Open(t)
  PROVE  Steady(b, t)
BY DEF Steady, Sound, Right, Keeps

LEMMA InitSound == Init => IInv
<1> SUFFICES ASSUME Init PROVE IInv
  OBVIOUS
<1>1. PICK empty \in BOOLEAN :
    br = [cfg |-> {}, hot |-> {}, kept |-> {}, netdevs |-> {}, present |-> {},
          n |-> 0, claimed |-> {}, ports |-> {}, failed |-> FALSE,
          retry |-> FALSE, kernel |-> FALSE, force |-> empty, empty |-> empty,
          sys |-> empty, active |-> 0, users |-> {},
          told |-> IF empty THEN Users ELSE {}]
  BY DEF Init
<1>2. 0 \in Int /\ (IF empty THEN Users ELSE {}) \in SUBSET Users
  OBVIOUS
<1>3. br \in Raw
  BY <1>1, <1>2, Zenon DEF Raw
<1>4. /\ br.present = {} /\ br.n = 0 /\ br.active = 0 /\ br.users = {}
      /\ br.force = empty /\ br.sys = empty
  BY <1>1
<1>5. Counted(br)
  BY <1>3, <1>4, FS_EmptySet DEF Counted
<1>6. Open(br)
  BY <1>4 DEF Open
<1> QED BY <1>4, <1>5, <1>6 DEF IInv, Sound, Right, Listed, Told, Behind

(***************************************************************************)
(* The actions                                                             *)
(***************************************************************************)

LEMMA AppearsSound ==
  ASSUME Sound(br), NEW e \in Env, MemberAppears(e)
  PROVE  Steady(br, br')
<1>1. PICK m \in Members \ br.netdevs :
        LET c == [br EXCEPT !.netdevs = @ \union {m}]
        IN br' = IF m \in br.cfg THEN MemberAdd(c, m, e) ELSE c
  BY DEF MemberAppears
<1> DEFINE b == br
           c == [b EXCEPT !.netdevs = @ \union {m}]
           t == br'
<1>2. Sound(b) /\ m \in Members /\ m \notin b.netdevs
      /\ t = IF m \in b.cfg THEN MemberAdd(c, m, e) ELSE c
  BY <1>1
<1> HIDE DEF b, t
<1>3. b \in Raw
  BY <1>2, CountedIs DEF Sound
<1>4. c \in Raw
  BY <1>2, <1>3, Zenon DEF Raw
<1>5. /\ c.present = b.present /\ c.cfg = b.cfg /\ c.netdevs = b.netdevs \union {m}
      /\ c.n = b.n /\ c.active = b.active /\ c.users = b.users
      /\ c.ports = b.ports /\ c.claimed = b.claimed
      /\ c.sys = b.sys /\ c.force = b.force /\ c.told = b.told
  BY <1>3, SMT DEF Raw
<1> HIDE DEF c
<1>6. Keeps(b, c) /\ Counted(c) /\ Listed(c) /\ (Open(b) => Open(c))
  BY <1>2, <1>4, <1>5 DEF Keeps, Counted, Sound, Listed, Behind, Told, Open
<1>7. Steady(b, t)
  <2>1. CASE m \in b.cfg
    <3>1. m \notin c.present /\ m \in c.cfg \intersect c.netdevs
      BY <1>2, <1>5, <2>1 DEF Sound, Listed
    <3>2. /\ Counted(t) /\ Behind(t) \subseteq Behind(c)
          /\ Listed(c) /\ m \in c.cfg \intersect c.netdevs => Listed(t)
          /\ Told(c) => Told(t)
          /\ Open(c) => Open(t)
      BY <1>2, <1>6, <2>1, <3>1, MemberAddIs
    <3>3. Keeps(b, t) /\ (Open(b) => Open(t))
      BY <1>6, <3>1, <3>2 DEF Keeps
    <3> QED BY <1>2, <3>3, KeptIsSteady
  <2>2. CASE m \notin b.cfg
    BY <1>2, <1>6, <2>2, KeptIsSteady
  <2> QED BY <2>1, <2>2
<1> QED BY <1>7 DEF b, t

LEMMA VanishesSound ==
  ASSUME Sound(br), NEW prompt \in SUBSET Users, MemberVanishes(prompt)
  PROVE  Steady(br, br')
<1>1. PICK m \in br.netdevs :
        LET c == [br EXCEPT !.netdevs = @ \ {m}, !.ports = @ \ {m}]
        IN br' = CASE m \notin br.cfg -> c
                   [] m \in br.hot -> FreeMember(c, m, prompt)
                   [] OTHER -> RemoveMember(c, m, prompt)
  BY DEF MemberVanishes
<1> DEFINE b == br
           c == [b EXCEPT !.netdevs = @ \ {m}, !.ports = @ \ {m}]
           t == br'
<1>2. /\ Sound(b) /\ m \in b.netdevs
      /\ \/ m \notin b.cfg /\ t = c
         \/ t = FreeMember(c, m, prompt)
         \/ t = RemoveMember(c, m, prompt)
  BY <1>1
<1> HIDE DEF b, t
<1>3. b \in Raw /\ m \in Members
  BY <1>2, CountedIs DEF Sound, Raw
<1>4. c \in Raw
  BY <1>2, <1>3, Zenon DEF Raw
<1>5. /\ c.present = b.present /\ c.cfg = b.cfg /\ c.netdevs = b.netdevs \ {m}
      /\ c.n = b.n /\ c.active = b.active /\ c.users = b.users
      /\ c.ports = b.ports \ {m} /\ c.claimed = b.claimed
      /\ c.sys = b.sys /\ c.force = b.force /\ c.told = b.told
  BY <1>3, SMT DEF Raw
<1> HIDE DEF c
<1>6. /\ Counted(c) /\ (Told(c) <=> Told(b)) /\ (Open(c) <=> Open(b))
      /\ Behind(c) \subseteq Behind(b) \union {m}
  BY <1>2, <1>4, <1>5 DEF Counted, Sound, Told, Open, Behind
<1>7. ASSUME m \notin b.cfg /\ t = c PROVE Steady(b, t)
  <2>1. m \notin b.present
    BY <1>2, <1>7 DEF Sound, Listed
  <2>2. Listed(t)
    BY <1>2, <1>5, <1>7, <2>1 DEF Sound, Listed
  <2>3. Behind(t) \subseteq Behind(b)
    BY <1>5, <1>7, <2>1 DEF Behind
  <2> QED BY <1>2, <1>6, <1>7, <2>2, <2>3, KeptIsSteady DEF Keeps
<1>8. ASSUME t = FreeMember(c, m, prompt) PROVE Steady(b, t)
  <2>1. /\ Counted(t) /\ Behind(t) \subseteq Behind(c) \ {m}
        /\ t.present = c.present \ {m}
        /\ t.cfg = c.cfg \ {m} /\ t.netdevs = c.netdevs
        /\ Told(c) => Told(t)
        /\ Open(c) => Open(t)
    BY <1>3, <1>6, <1>8, FreeIs
  <2>2. Listed(t)
    BY <1>2, <1>5, <2>1 DEF Sound, Listed
  <2>3. Behind(t) \subseteq Behind(b)
    BY <1>6, <2>1
  <2> QED BY <1>2, <1>6, <2>1, <2>2, <2>3, KeptIsSteady DEF Keeps
<1>9. ASSUME t = RemoveMember(c, m, prompt) PROVE Steady(b, t)
  <2>1. /\ Counted(t) /\ Behind(t) \subseteq Behind(c) \ {m}
        /\ t.present = c.present \ {m}
        /\ t.cfg = c.cfg /\ t.netdevs = c.netdevs
        /\ Told(c) => Told(t)
        /\ Open(c) => Open(t)
    BY <1>3, <1>6, <1>9, RemoveIs
  <2>2. Listed(t)
    BY <1>2, <1>5, <2>1 DEF Sound, Listed
  <2>3. Behind(t) \subseteq Behind(b)
    BY <1>6, <2>1
  <2> QED BY <1>2, <1>6, <2>1, <2>2, <2>3, KeptIsSteady DEF Keeps
<1>10. Steady(b, t)
  BY <1>2, <1>7, <1>8, <1>9
<1> QED BY <1>10 DEF b, t

LEMMA PrepareSound ==
  ASSUME Sound(br), NEW e \in Env, HotplugPrepare(e)
  PROVE  Steady(br, br')
<1> DEFINE b == br
           c == [b EXCEPT !.force = TRUE]
           t == br'
<1>1. Sound(b) /\ t = SetPresent(c, e)
  BY DEF HotplugPrepare
<1> HIDE DEF b, t
<1>2. b \in Raw
  BY <1>1, CountedIs DEF Sound
<1>3. c \in Raw
  BY <1>2, Zenon DEF Raw
<1>4. /\ c.present = b.present /\ c.cfg = b.cfg /\ c.netdevs = b.netdevs
      /\ c.n = b.n /\ c.active = b.active /\ c.users = b.users
      /\ c.ports = b.ports /\ c.claimed = b.claimed
  BY <1>2, SMT DEF Raw
<1> HIDE DEF c
<1>5. Counted(c) /\ Behind(c) = Behind(b) /\ Listed(c)
  BY <1>1, <1>3, <1>4 DEF Counted, Sound, Behind, Listed
<1>6. Keeps(c, t) /\ Open(t)
  BY <1>1, <1>5, PresentIs
<1>7. Steady(b, t)
  BY <1>5, <1>6 DEF Keeps, Steady, Sound, Right, Told
<1> QED BY <1>7 DEF b, t

LEMMA HotplugAddSound ==
  ASSUME Sound(br), NEW e \in Env, HotplugAdd(e)
  PROVE  Steady(br, br')
<1>1. PICK m \in br.netdevs : br' = CreateMember(br, m, TRUE, e)
  BY DEF HotplugAdd
<1> DEFINE b == br
           t == br'
<1>2. Sound(b) /\ Counted(b) /\ Listed(b) /\ m \in b.netdevs
      /\ t = CreateMember(b, m, TRUE, e)
  BY <1>1 DEF Sound
<1> HIDE DEF b, t
<1>3. m \in Members
  BY <1>2 DEF Counted, Raw
<1>4. Keeps(b, t) /\ (Open(b) => Open(t))
  BY <1>2, <1>3, CreateIs
<1>5. Steady(b, t)
  BY <1>2, <1>4, KeptIsSteady
<1> QED BY <1>5 DEF b, t

LEMMA HotplugDelSound ==
  ASSUME Sound(br), NEW prompt \in SUBSET Users, HotplugDel(prompt)
  PROVE  Steady(br, br')
<1>1. PICK m \in br.cfg : br' = FreeMember(br, m, prompt)
  BY DEF HotplugDel
<1> DEFINE b == br
           t == br'
<1>2. Sound(b) /\ Counted(b) /\ Listed(b) /\ m \in b.cfg
      /\ t = FreeMember(b, m, prompt)
  BY <1>1 DEF Sound
<1> HIDE DEF b, t
<1>3. m \in Members
  BY <1>2 DEF Counted, Raw
<1>4. /\ Counted(t) /\ Behind(t) \subseteq Behind(b) \ {m}
      /\ t.present = b.present \ {m}
      /\ t.cfg = b.cfg \ {m} /\ t.netdevs = b.netdevs
      /\ Told(b) => Told(t)
      /\ Open(b) => Open(t)
  BY <1>2, <1>3, FreeIs
<1>5. Keeps(b, t)
  BY <1>2, <1>4 DEF Keeps, Listed
<1>6. Steady(b, t)
  BY <1>2, <1>4, <1>5, KeptIsSteady
<1> QED BY <1>6 DEF b, t

LEMMA ReloadSound ==
  ASSUME Sound(br), NEW e \in Env, Reload(e)
  PROVE  Steady(br, br')
<1>1. PICK names \in SUBSET Members, empty \in BOOLEAN, restart \in BOOLEAN :
        br' = IF restart
              THEN Restart(ConfigInit([br EXCEPT !.empty = empty], names, e), e)
              ELSE ConfigInit([br EXCEPT !.empty = empty], names, e)
  BY DEF Reload
<1> DEFINE b == br
           c == [b EXCEPT !.empty = empty]
           d == ConfigInit(c, names, e)
           t == br'
<1>2. Sound(b) /\ t = IF restart THEN Restart(d, e) ELSE d
  BY <1>1
<1> HIDE DEF b, t
<1>3. b \in Raw
  BY <1>2, CountedIs DEF Sound
<1>4. c \in Raw
  BY <1>3, Zenon DEF Raw
<1>5. /\ c.present = b.present /\ c.cfg = b.cfg /\ c.netdevs = b.netdevs
      /\ c.n = b.n /\ c.active = b.active /\ c.users = b.users
      /\ c.ports = b.ports /\ c.claimed = b.claimed
      /\ c.sys = b.sys /\ c.force = b.force /\ c.told = b.told
  BY <1>3, SMT DEF Raw
<1> HIDE DEF c
<1>6. Keeps(b, c) /\ Counted(c) /\ Listed(c) /\ (Open(b) => Open(c))
  BY <1>2, <1>4, <1>5 DEF Keeps, Counted, Sound, Listed, Behind, Told, Open
<1>7. Keeps(c, d) /\ (Open(c) => Open(d))
  BY <1>6, ConfigInitIs
<1> HIDE DEF d
<1>8. Keeps(b, d) /\ (Open(b) => Open(d))
  BY <1>6, <1>7, KeepsOn
<1>9. Steady(b, d)
  BY <1>2, <1>8, KeptIsSteady
<1>10. Steady(b, t)
  <2>1. CASE restart
    <3>1. /\ Counted(t) /\ Listed(t) /\ Told(t)
          /\ e.addbr /\ e.up /\ Open(d) /\ Behind(d) = {}
               => Open(t) /\ Behind(t) = {}
      BY <1>2, <1>9, <2>1, RestartIs DEF Steady, Sound
    <3>2. BridgeOutcomes = {TRUE} => e.addbr /\ e.up
      BY EnvIs
    <3> QED BY <1>9, <3>1, <3>2 DEF Steady, Sound, Right
  <2>2. CASE ~restart
    BY <1>2, <1>9, <2>2
  <2> QED BY <2>1, <2>2
<1> QED BY <1>10 DEF b, t

LEMMA RetrySound ==
  ASSUME Sound(br), NEW e \in Env, RetryMembers(e)
  PROVE  Steady(br, br')
<1> DEFINE b == br
           c == [b EXCEPT !.retry = FALSE, !.failed = FALSE]
           t == br'
<1>1. Sound(b) /\ t = RetryAll(c, e)
  BY DEF RetryMembers, ForMembers, Folded, RetryAll, RetryOne, OneMore
<1> HIDE DEF b, t
<1>2. b \in Raw
  BY <1>1, CountedIs DEF Sound
<1>3. c \in Raw
  BY <1>2, Zenon DEF Raw
<1>4. /\ c.present = b.present /\ c.cfg = b.cfg /\ c.netdevs = b.netdevs
      /\ c.n = b.n /\ c.active = b.active /\ c.users = b.users
      /\ c.ports = b.ports /\ c.claimed = b.claimed
      /\ c.sys = b.sys /\ c.force = b.force /\ c.told = b.told
  BY <1>2, SMT DEF Raw
<1> HIDE DEF c
<1>5. Keeps(b, c) /\ Counted(c) /\ Listed(c) /\ (Open(b) => Open(c))
  BY <1>1, <1>3, <1>4 DEF Keeps, Counted, Sound, Listed, Behind, Told, Open
<1>6. Keeps(c, t) /\ (Open(c) => Open(t))
  BY <1>1, <1>5, RetryAllIs
<1>7. Keeps(b, t) /\ (Open(b) => Open(t))
  BY <1>5, <1>6, KeepsOn
<1>8. Steady(b, t)
  BY <1>1, <1>7, KeptIsSteady
<1> QED BY <1>8 DEF b, t

(* A user claims a bridge it has been told of: it is announced if it has    *)
(* reason to be, by Told.                                                   *)
LEMMA ClaimsSound ==
  ASSUME Sound(br), NEW e \in Env, UserClaims(e)
  PROVE  Steady(br, br')
<1>1. PICK u \in br.told \ br.users : br' = Claim(br, u, e)
  BY DEF UserClaims
<1> DEFINE b == br
           t == br'
<1>2. Sound(b) /\ Counted(b) /\ u \in b.told /\ t = Claim(b, u, e)
  BY <1>1 DEF Sound
<1> HIDE DEF b, t
<1>3. u \in Users /\ Open(b)
  BY <1>2 DEF Sound, Told, Counted, Raw
<1>4. Keeps(b, t) /\ Open(t)
  BY <1>2, <1>3, ClaimIs
<1>5. Steady(b, t)
  BY <1>2, <1>4, KeptIsSteady
<1> QED BY <1>5 DEF b, t

LEMMA ReleasesSound ==
  ASSUME Sound(br), UserReleases
  PROVE  Steady(br, br')
<1>1. PICK u \in br.users : br' = Release(br, {u})
  BY DEF UserReleases
<1> DEFINE b == br
           t == br'
<1>2. Sound(b) /\ Counted(b) /\ u \in b.users /\ t = Release(b, {u})
  BY <1>1 DEF Sound
<1> HIDE DEF b, t
<1>3. {u} \in SUBSET Users
  BY <1>2 DEF Counted, Raw
<1>4. Keeps(b, t) /\ t.n = b.n /\ t.sys = b.sys /\ t.force = b.force
  BY <1>2, <1>3, ReleaseIs
<1>5. Steady(b, t)
  BY <1>2, <1>4, KeptIsSteady DEF Open
<1> QED BY <1>5 DEF b, t

LEMMA NextSound == IInv /\ [Next]_br => IInv'
<1> SUFFICES ASSUME IInv, [Next]_br PROVE IInv'
  OBVIOUS
<1>1. Sound(br) /\ (BridgeOutcomes = {TRUE} => Right(br))
  BY DEF IInv
<1>2. ASSUME Steady(br, br') PROVE IInv'
  BY <1>1, <1>2 DEF Steady, IInv
<1>3. ASSUME NEW e \in Env, Arrivals(e) PROVE IInv'
  BY <1>1, <1>2, <1>3, AppearsSound, PrepareSound, HotplugAddSound, ReloadSound,
     RetrySound, ClaimsSound DEF Arrivals
<1>4. ASSUME NEW prompt \in SUBSET Users, Departures(prompt) PROVE IInv'
  BY <1>1, <1>2, <1>4, VanishesSound, HotplugDelSound DEF Departures
<1>5. CASE UserReleases
  BY <1>1, <1>2, <1>5, ReleasesSound
<1>6. CASE UNCHANGED br
  BY <1>1, <1>6 DEF IInv
<1> QED BY <1>3, <1>4, <1>5, <1>6 DEF Next

(* What a bridge keeps to: the counts whatever fails, the rest while the    *)
(* bridge itself can be made and brought up.                                *)
THEOREM AlwaysSound == Spec => []IInv
BY InitSound, NextSound, PTL DEF Spec

(***************************************************************************)
(* What it gives                                                           *)
(***************************************************************************)

(* n_present and `active`, which bridge.c and device.c keep by hand, count  *)
(* the members that are present and the users with a claim, whatever fails  *)
(* and however the callbacks nest.                                          *)
THEOREM CountsAlwaysAgree == Spec => []CountsAgree
<1>1. IInv => CountsAgree
  <2> SUFFICES ASSUME IInv PROVE CountsAgree
    OBVIOUS
  <2> DEFINE b == br
  <2>1. Counted(b) /\ Listed(b)
    BY DEF IInv, Sound
  <2>2. b \in Raw /\ b.present \in SUBSET Members /\ b.users \in SUBSET Users
    BY <2>1 DEF Counted, Raw
  <2>3. b.n = Cardinality(b.present) /\ b.active = Cardinality(b.users)
    BY <2>1 DEF Counted
  <2>4. b.n \in 0 .. Cardinality(Members) /\ b.active \in 0 .. Cardinality(Users)
    <3>1. \A X : IsFiniteSet(X) =>
            \A a \in SUBSET X : Cardinality(a) \in 0 .. Cardinality(X)
      BY Counting
    <3> QED BY <2>2, <2>3, <3>1, FiniteSides
  <2>5. b \in State
    BY <2>2, <2>4, Zenon DEF Raw, State
  <2> QED BY <2>1, <2>3, <2>5 DEF CountsAgree, TypeOK, Listed
<1> QED BY <1>1, AlwaysSound, PTL

(* A bridge that can be created and brought up is announced to its users    *)
(* while it has a member that is present or is to be up without one.        *)
THEOREM BridgeIsAnnounced == BridgeOutcomes = {TRUE} => (Spec => []Announced)
<1> SUFFICES ASSUME BridgeOutcomes = {TRUE} PROVE Spec => []Announced
  OBVIOUS
<1>1. IInv => Announced
  <2> SUFFICES ASSUME IInv PROVE Announced
    OBVIOUS
  <2>1. Counted(br) /\ Open(br)
    BY DEF IInv, Sound, Right
  <2> QED BY <2>1 DEF Open, Announced
<1> QED BY <1>1, AlwaysSound, PTL

(* While it is claimed, each of its members that is present has been        *)
(* claimed and is its port in the kernel.                                   *)
THEOREM MembersArePorts == BridgeOutcomes = {TRUE} => (Spec => []ActiveMembersArePorts)
<1> SUFFICES ASSUME BridgeOutcomes = {TRUE} PROVE Spec => []ActiveMembersArePorts
  OBVIOUS
<1>1. IInv => ActiveMembersArePorts
  <2> SUFFICES ASSUME IInv PROVE ActiveMembersArePorts
    OBVIOUS
  <2>1. Behind(br) = {}
    BY DEF IInv, Right
  <2> QED BY <2>1 DEF Behind, ActiveMembersArePorts
<1> QED BY <1>1, AlwaysSound, PTL

=============================================================================
