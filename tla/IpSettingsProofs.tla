--------------------------- MODULE IpSettingsProofs ---------------------------
(***************************************************************************)
(* The invariants of IpSettings, for every set of devices, addresses,      *)
(* targets, reports and settings, and whatever the kernel refuses: what    *)
(* counts as installed is in the kernel, routes are as the settings say,   *)
(* and (with one table, if there are external addresses) the kernel has    *)
(* nothing else.                                                           *)
(*                                                                         *)
(* There is a lemma per operator, about the state t it returns.  The loops *)
(* of the code are folds; a loop is given a name, shown to be the fold,    *)
(* and keeps what a turn of it keeps, so that the order of the turns does  *)
(* not matter.  A frame says what an operator leaves alone.                *)
(***************************************************************************)
EXTENDS IpSettings, FiniteSetTheorems, NaturalsInduction, WellFoundedInduction, TLAPS

(***************************************************************************)
(* What holds                                                              *)
(***************************************************************************)

Lists == {"proto", "config"}
DeviceOrNone == Devices \cup {NoDevice}
AddrMap == UNION {[A -> AddrEntry] : A \in SUBSET Addrs}
RoutesTo(T) == [to : T, metric : Nat, table : Nat, gw : Gateways,
                until : Times, enabled : BOOLEAN, failed : BOOLEAN]

(* The types of all fields.                                                 *)
Raw ==
  [state : {"DOWN", "SETUP", "UP", "TEARDOWN"}, dev : DeviceOrNone, info : Infos,
   on : [proto : BOOLEAN, config : BOOLEAN], policy : BOOLEAN,
   addrs : AddrMap, proto : SUBSET RoutesTo(ProtoRoutes),
   config : SUBSET RoutesTo(ConfigRoutes), hosts : SUBSET HostEntry,
   kaddrs : SUBSET (Addrs \X DeviceOrNone),
   krules : SUBSET [addr : Addrs, table : Nat],
   ksubnets : SUBSET [addr : Addrs, dev : DeviceOrNone, metric : Nat, table : Nat],
   kroutes : SUBSET [to : Targets, metric : Nat, table : Nat, gw : Gateways,
                     dev : DeviceOrNone],
   khosts : SUBSET [metric : Nat, gw : Gateways \cup {"link"}, dev : DeviceOrNone],
   kpolicy : SUBSET DeviceOrNone]

(* The addresses the kernel gets from the interface.                        *)
OwnOf(s) == DOMAIN s.addrs \ External

(* The kernel has the addresses and subnet routes of enabled entries only,  *)
(* and those of the entries that count as installed.                        *)
AddrInv(s) ==
  /\ \A k \in s.kaddrs : /\ k[1] \in OwnOf(s) /\ s.addrs[k[1]].enabled
                          /\ k = <<k[1], s.dev>>
  /\ \A k \in s.ksubnets : /\ k.addr \in OwnOf(s) /\ s.addrs[k.addr].enabled
                            /\ k = SubnetRoute(k.addr, s.addrs[k.addr].subnet)
  /\ \A a \in OwnOf(s) : LET e == s.addrs[a] IN
       e.enabled /\ ~e.missed => /\ ~e.failed => <<a, s.dev>> \in s.kaddrs
                                /\ AddrRule(a, e.policy) \subseteq s.krules

(* ... and their rules only.                                                *)
RuleInv(s) ==
  \A k \in s.krules : /\ k.addr \in DOMAIN s.addrs /\ s.addrs[k.addr].enabled
                      /\ k \in AddrRule(k.addr, s.addrs[k.addr].policy)

(* Entries were added with the table of now.                                *)
OwnNow(s) == \A a \in OwnOf(s) : s.addrs[a].enabled => s.addrs[a].policy = s.info.table
ExternalNow(s) == \A a \in DOMAIN s.addrs \cap External :
                    s.addrs[a].policy # 0 => s.addrs[a].policy = s.info.table

(* interface_ip_set_enabled passes over external addresses.                 *)
OneTable == External = {} \/ \A i, j \in Infos : i.table # 0 /\ j.table # 0 => i.table = j.table

(* The kernel has the routes of enabled entries, and no list has two of the *)
(* same target, metric and table: none takes away the route of another.     *)
RouteInv(s) ==
  /\ s.kroutes \subseteq {KernelRoute(s, r) : r \in RouteTargets(s)}
  /\ \A r \in RouteTargets(s) : ~r.failed => KernelRoute(s, r) \in s.kroutes
  /\ \A w \in Lists : IsFiniteSet(s[w])
  /\ \A w \in Lists : \A r, q \in s[w] : SameRoute(r, q) => r = q

(* One route to a target: as the metric of a list changes, no two entries   *)
(* become the same.                                                         *)
Unique(l) == \A r, q \in l : r.to = q.to => r = q

(* Routes are enabled as the settings say, with the metric of now.          *)
Switched(s, w) == \A r \in s[w] : r.enabled = EnableRoute(s, w, r)
MetricNow(s, w) == \A r \in s[w] : r.enabled => r.metric = s.info.metric /\ r.table = s.info.table

(* Nothing of the protocol, nothing of the configuration enabled.           *)
Idle(s) == s.proto = {} /\ DOMAIN s.addrs = {} /\ ~s.on.config

(***************************************************************************)
(* Loops                                                                   *)
(***************************************************************************)

(* The element of u a fold takes next, and what is left of u before it.     *)
Pick(u) == CHOOSE x \in u : TRUE
Rest(u) == u \ {Pick(u)}

(* There is one to take, and fewer are left. *)
LEMMA RestIs ==
  ASSUME NEW D, IsFiniteSet(D), NEW u \in SUBSET D, u # {}
  PROVE  /\ Pick(u) \in u /\ Rest(u) \in SUBSET D
         /\ Cardinality(u) \in Nat \ {0}
         /\ Cardinality(Rest(u)) = Cardinality(u) - 1
<1>1. Pick(u) \in u
  BY DEF Pick
<1>2. IsFiniteSet(u)
  BY FS_Subset
<1>3. Cardinality(u) \in Nat /\ Cardinality(u) # 0
  BY <1>2, FS_CardinalityType, FS_EmptySet
<1>4. Cardinality(u \ {Pick(u)}) = Cardinality(u) - 1
  BY <1>1, <1>2, FS_RemoveElement
<1> QED BY <1>1, <1>3, <1>4 DEF Rest

(* A set of numbers that is not empty has a least one. *)
LEMMA Least ==
  ASSUME NEW N \in SUBSET Nat, N # {}
  PROVE  \E k \in N : \A j \in N : k <= j
<1>1. PICK k \in N : \A j \in N : ~(<<j, k>> \in OpToRel(<, Nat))
  BY WFMin, NatLessThanWellFounded
<1>2. ASSUME NEW j \in N PROVE k <= j
  <2>1. j \in Nat /\ k \in Nat
    OBVIOUS
  <2>2. j < k => <<j, k>> \in OpToRel(<, Nat)
    BY <2>1 DEF OpToRel
  <2>3. ~(j < k)
    BY <1>1, <2>2, Zenon
  <2> QED BY <2>1, <2>3, SMT
<1> QED BY <1>2

(* A property of the start that every turn hands on holds at the end.  G[u] *)
(* is the set of what may be there when the elements of u have had theirs.  *)
LEMMA FoldReaches ==
  ASSUME NEW D, IsFiniteSet(D), NEW g, NEW G, g[{}] \in G[{}],
         \A u \in SUBSET D : u # {} /\ g[Rest(u)] \in G[Rest(u)] => g[u] \in G[u]
  PROVE  g[D] \in G[D]
<1> DEFINE Bad == {u \in SUBSET D : g[u] \notin G[u]}
           N == {Cardinality(u) : u \in Bad}
<1>1. CASE Bad = {}
  BY <1>1
<1>2. CASE Bad # {}
  <2>1. \A u \in Bad : Cardinality(u) \in Nat
    BY FS_Subset, FS_CardinalityType
  <2>2. N \in SUBSET Nat /\ N # {}
    BY <1>2, <2>1
  <2> HIDE DEF N
  <2>3. PICK k \in N : \A j \in N : k <= j
    BY <2>2, Least
  <2>4. PICK u \in Bad : k = Cardinality(u)
    BY DEF N
  <2>5. u # {} /\ u \in SUBSET D
    BY <2>4
  <2>6. /\ Rest(u) \in SUBSET D /\ Cardinality(u) \in Nat \ {0}
        /\ Cardinality(Rest(u)) = Cardinality(u) - 1
    BY <2>5, RestIs
  <2>7. Cardinality(Rest(u)) \notin N
    BY <2>3, <2>4, <2>6
  <2>8. Rest(u) \notin Bad
    BY <2>7 DEF N
  <2>9. g[Rest(u)] \in G[Rest(u)]
    BY <2>6, <2>8
  <2> QED BY <2>4, <2>5, <2>9
<1> QED BY <1>1, <1>2

(* The size of what a fold has taken. *)
LEMMA SizeIs ==
  ASSUME NEW D, IsFiniteSet(D), NEW u \in SUBSET D
  PROVE  /\ Cardinality(u) \in Nat /\ Cardinality(D) \in Nat
         /\ Cardinality(u) <= Cardinality(D)
         /\ Cardinality(u) = 0 <=> u = {}
<1>1. IsFiniteSet(u) /\ Cardinality(u) <= Cardinality(D)
  BY FS_Subset
<1> QED BY <1>1, FS_CardinalityType, FS_EmptySet

(* What a loop over D may go through, from b on, with F as its turn: it     *)
(* stays in G.                                                              *)
Courses(D, G, F, b) ==
  {h \in [SUBSET D -> UNION {G[u] : u \in SUBSET D}] :
     \A u \in SUBSET D :
       h[u] \in G[u] /\ h[u] = IF u = {} THEN b ELSE F[Pick(u)][h[Rest(u)]]}

(* A loop whose turns stay in G runs through. *)
LEMMA FoldRuns ==
  ASSUME NEW D, IsFiniteSet(D), NEW G, NEW F, NEW b, b \in G[{}],
         \A u \in SUBSET D : u # {} =>
           \A t \in G[Rest(u)] : F[Pick(u)][t] \in G[u]
  PROVE  Courses(D, G, F, b) # {}
<1> DEFINE Upto(n) == {u \in SUBSET D : Cardinality(u) <= n}
           Run(h, n) == \A u \in Upto(n) :
             h[u] \in G[u] /\ h[u] = IF u = {} THEN b ELSE F[Pick(u)][h[Rest(u)]]
           Bad == {n \in Nat : ~\E h : Run(h, n)}
<1>2. Bad = {}
  <2> SUFFICES ASSUME Bad # {} PROVE FALSE
    OBVIOUS
  <2>1. PICK n \in Bad : \A j \in Bad : n <= j
    <3>1. Bad \in SUBSET Nat
      OBVIOUS
    <3> HIDE DEF Bad
    <3> QED BY <3>1, Least
  <2>2. CASE n = 0
    <3> DEFINE h == [u \in {{}} |-> b]
    <3>1. Run(h, 0)
      <4> SUFFICES ASSUME NEW u \in Upto(0)
                   PROVE  h[u] \in G[u] /\ h[u] = IF u = {} THEN b ELSE F[Pick(u)][h[Rest(u)]]
        OBVIOUS
      <4>0. u \in SUBSET D /\ Cardinality(u) <= 0
        OBVIOUS
      <4>2. Cardinality(u) \in Nat
        BY <4>0, SizeIs
      <4>3. Cardinality(u) = 0
        BY <4>0, <4>2, SMT
      <4>1. u = {}
        BY <4>0, <4>3, SizeIs
      <4> QED BY <4>1
    <3> QED BY <2>2, <3>1
  <2>3. CASE n # 0
    <3>5. n \in Nat
      OBVIOUS
    <3>6. n - 1 \in Nat /\ ~(n <= n - 1)
      BY <2>3, <3>5, SMT
    <3>7. n - 1 \notin Bad
      <4> HIDE DEF Bad
      <4> QED BY <2>1, <3>6
    <3>1. n \in Nat /\ n - 1 \in Nat /\ n - 1 \notin Bad
      BY <3>5, <3>6, <3>7
    <3>2. PICK h : Run(h, n - 1)
      BY <3>1
    <3> DEFINE m == [u \in Upto(n) |->
                       IF u \in Upto(n - 1) THEN h[u] ELSE F[Pick(u)][h[Rest(u)]]]
    <3>3. ASSUME NEW u \in Upto(n)
          PROVE  m[u] \in G[u] /\ m[u] = IF u = {} THEN b ELSE F[Pick(u)][m[Rest(u)]]
      <4>1. CASE u = {}
        <5>0. u \in SUBSET D /\ Cardinality(u) = 0
          BY <4>1, SizeIs
        <5>1. Cardinality(u) <= n - 1
          BY <3>1, <5>0, SMT
        <5> QED BY <3>2, <4>1, <5>1
      <4>2. CASE u # {}
        <5>1. /\ Rest(u) \in SUBSET D /\ Cardinality(u) \in Nat \ {0}
              /\ Cardinality(Rest(u)) = Cardinality(u) - 1
          BY <4>2, RestIs
        <5>2. Rest(u) \in Upto(n - 1) /\ Rest(u) \in Upto(n)
          BY <3>1, <5>1
        <5>3. m[Rest(u)] = h[Rest(u)] /\ h[Rest(u)] \in G[Rest(u)]
          BY <3>2, <5>2
        <5>4. m[u] = F[Pick(u)][h[Rest(u)]]
          BY <3>2, <4>2
        <5> QED BY <4>2, <5>3, <5>4
      <4> QED BY <4>1, <4>2
    <3>4. Run(m, n)
      BY <3>3
    <3> HIDE DEF m, Run
    <3> QED BY <3>4
  <2> QED BY <2>2, <2>3
<1>3. PICK h : Run(h, Cardinality(D))
  <2>1. Cardinality(D) \in Nat
    BY FS_CardinalityType
  <2> HIDE DEF Run
  <2> QED BY <1>2, <2>1
<1> DEFINE c == [u \in SUBSET D |-> h[u]]
<1>4. ASSUME NEW u \in SUBSET D
      PROVE  /\ c[u] \in G[u]
             /\ c[u] = IF u = {} THEN b ELSE F[Pick(u)][c[Rest(u)]]
  <2>0. u \in SUBSET D /\ Cardinality(u) <= Cardinality(D)
    BY SizeIs
  <2>1. u \in Upto(Cardinality(D))
    BY <2>0
  <2>2. u # {} => Rest(u) \in SUBSET D
    BY DEF Rest
  <2> QED BY <1>3, <2>1, <2>2
<1>5. c \in [SUBSET D -> UNION {G[u] : u \in SUBSET D}]
  BY <1>4
<1>6. c \in Courses(D, G, F, b)
  <2> HIDE DEF c
  <2> QED BY <1>4, <1>5 DEF Courses
<1> QED BY <1>6

(***************************************************************************)
(* Addresses                                                               *)
(***************************************************************************)

(* What the operators on addresses leave alone. *)
AddrFrame(s, t) ==
  /\ t.state = s.state /\ t.dev = s.dev /\ t.info = s.info /\ t.on = s.on
  /\ t.policy = s.policy /\ t.proto = s.proto /\ t.config = s.config
  /\ t.hosts = s.hosts /\ t.kroutes = s.kroutes /\ t.khosts = s.khosts
  /\ t.kpolicy = s.kpolicy

(* ip->addr: entries by their address. *)
LEMMA AddrMapIs ==
  ASSUME NEW f
  PROVE  f \in AddrMap <=> f \in [DOMAIN f -> AddrEntry] /\ DOMAIN f \subseteq Addrs
BY DEF AddrMap

(* The settings are numbers and a flag. *)
LEMMA InfoIs ==
  ASSUME NEW s \in Raw
  PROVE  /\ s.info \in Infos /\ s.info.metric \in Nat /\ s.info.table \in Nat
         /\ s.info.nodefault \in BOOLEAN
BY IpAssumption DEF Raw

(* An entry of ip->addr. *)
LEMMA AddressIs ==
  ASSUME NEW s \in Raw, NEW a \in DOMAIN s.addrs
  PROVE  s.addrs[a] \in AddrEntry /\ a \in Addrs
<1>1. s.addrs \in AddrMap
  BY DEF Raw
<1> QED BY <1>1, AddrMapIs

(* An entry less. *)
LEMMA WithoutIs ==
  ASSUME NEW f \in AddrMap, NEW a
  PROVE  /\ Without(f, a) \in AddrMap
         /\ DOMAIN Without(f, a) = DOMAIN f \ {a}
         /\ \A x \in DOMAIN f \ {a} : Without(f, a)[x] = f[x]
<1>1. f \in [DOMAIN f -> AddrEntry] /\ DOMAIN f \subseteq Addrs
  BY AddrMapIs
<1>2. Without(f, a) = [x \in DOMAIN f \ {a} |-> f[x]]
  BY DEF Without, Restrict
<1>3. Without(f, a) \in [DOMAIN f \ {a} -> AddrEntry]
  BY <1>1, <1>2
<1>4. DOMAIN f \ {a} \in SUBSET Addrs
  BY <1>1
<1>5. Without(f, a) \in AddrMap
  BY <1>3, <1>4 DEF AddrMap
<1> QED BY <1>2, <1>5

(* An entry more. *)
LEMMA WithIs ==
  ASSUME NEW f \in AddrMap, NEW a \in Addrs, NEW v \in AddrEntry
  PROVE  /\ With(f, a, v) \in AddrMap
         /\ DOMAIN With(f, a, v) = DOMAIN f \cup {a}
         /\ With(f, a, v)[a] = v
         /\ \A x \in DOMAIN f : x # a => With(f, a, v)[x] = f[x]
<1>1. f \in [DOMAIN f -> AddrEntry] /\ DOMAIN f \subseteq Addrs
  BY AddrMapIs
<1>2. With(f, a, v) = [y \in DOMAIN f \cup {a} |-> IF y = a THEN v ELSE f[y]]
  BY DEF With
<1>3. With(f, a, v) \in [DOMAIN f \cup {a} -> AddrEntry]
  BY <1>1, <1>2
<1>4. DOMAIN f \cup {a} \in SUBSET Addrs
  BY <1>1
<1>5. With(f, a, v) \in AddrMap
  BY <1>3, <1>4 DEF AddrMap
<1> QED BY <1>2, <1>5

(* An entry changed. *)
LEMMA ExceptIs ==
  ASSUME NEW f \in AddrMap, NEW a \in DOMAIN f, NEW v \in AddrEntry,
         NEW g, g = [f EXCEPT ![a] = v]
  PROVE  /\ g \in AddrMap /\ DOMAIN g = DOMAIN f /\ g[a] = v
         /\ \A x \in DOMAIN f : x # a => g[x] = f[x]
<1>1. f \in [DOMAIN f -> AddrEntry] /\ DOMAIN f \subseteq Addrs
  BY AddrMapIs
<1>2. g \in [DOMAIN f -> AddrEntry]
  BY <1>1
<1>3. DOMAIN f \in SUBSET Addrs
  BY <1>1
<1>4. g \in AddrMap
  BY <1>2, <1>3 DEF AddrMap
<1> QED BY <1>1, <1>4

(* interface_handle_subnet_route takes a route back. *)
LEMMA DelSubnetRouteIs ==
  ASSUME NEW s \in Raw, NEW a \in DOMAIN s.addrs,
         NEW t, t = DelSubnetRoute(s, a)
  PROVE  /\ t \in Raw /\ AddrFrame(s, t)
         /\ t.kaddrs = s.kaddrs /\ t.krules = s.krules
         /\ t.ksubnets = s.ksubnets \ {SubnetRoute(a, s.addrs[a].subnet)}
         /\ t.addrs = [s.addrs EXCEPT ![a] = [s.addrs[a] EXCEPT !.subnet = NoSubnet]]
<1>2. s.addrs[a] \in AddrEntry /\ s.addrs \in AddrMap
  BY AddressIs DEF Raw
<1>3. NoSubnet \in Subnet
  BY DEF NoSubnet, Subnet
<1>4. [s.addrs[a] EXCEPT !.subnet = NoSubnet] \in AddrEntry
  BY <1>2, <1>3 DEF AddrEntry
<1> DEFINE v == [s.addrs[a] EXCEPT !.subnet = NoSubnet]
           f == [s.addrs EXCEPT ![a] = v]
           k == s.ksubnets \ {SubnetRoute(a, s.addrs[a].subnet)}
<1>5. f \in AddrMap
  <2> HIDE DEF v
  <2> QED BY <1>2, <1>4, ExceptIs DEF v
<1>6. t = [s EXCEPT !.ksubnets = k, !.addrs = f]
  BY DEF DelSubnetRoute
<1>7. k \in SUBSET [addr : Addrs, dev : DeviceOrNone, metric : Nat, table : Nat]
  BY DEF Raw
<1> HIDE DEF v, f, k
<1>8. t \in Raw
  BY <1>5, <1>6, <1>7, ZenonT(60) DEF Raw
<1>9. AddrFrame(s, t) /\ t.kaddrs = s.kaddrs /\ t.krules = s.krules
  BY <1>6, SMT DEF Raw, AddrFrame
<1>10. t.addrs = f /\ t.ksubnets = k
  BY <1>6, SMT DEF Raw
<1> QED BY <1>8, <1>9, <1>10 DEF f, v, k

KAddrs == SUBSET (Addrs \X DeviceOrNone)
KRules == SUBSET [addr : Addrs, table : Nat]
KSubnets == SUBSET [addr : Addrs, dev : DeviceOrNone, metric : Nat, table : Nat]

(* What the kernel has of addresses. *)
LEMMA KIs ==
  ASSUME NEW s \in Raw
  PROVE  s.kaddrs \in KAddrs /\ s.krules \in KRules /\ s.ksubnets \in KSubnets
BY DEF Raw, KAddrs, KRules, KSubnets

Gone(c, x) == IF c THEN {x} ELSE {}

(* interface_update_proto_addr: what goes with an entry. *)
LEMMA DropAddressIs ==
  ASSUME NEW s \in Raw, NEW a \in DOMAIN s.addrs, NEW t, t = DropAddress(s, a)
  PROVE  /\ t \in Raw /\ AddrFrame(s, t)
         /\ t.addrs = Without(s.addrs, a)
         /\ t.kaddrs = s.kaddrs \ Gone(s.addrs[a].enabled /\ a \notin External,
                                       <<a, s.dev>>)
         /\ t.krules = s.krules \ (IF s.addrs[a].enabled
                                    THEN AddrRule(a, s.addrs[a].policy) ELSE {})
         /\ t.ksubnets = s.ksubnets \ Gone(s.addrs[a].enabled /\ a \notin External,
                                           SubnetRoute(a, s.addrs[a].subnet))
<1> DEFINE e == s.addrs[a]
<1>1. /\ Without(s.addrs, a) \in AddrMap /\ s.addrs \in AddrMap
      /\ DOMAIN Without(s.addrs, a) = DOMAIN s.addrs \ {a}
      /\ \A x \in DOMAIN s.addrs \ {a} : Without(s.addrs, a)[x] = s.addrs[x]
  BY WithoutIs DEF Raw
<1> DEFINE w == Without(s.addrs, a)
           kr == s.krules \ AddrRule(a, e.policy)
<1>5. kr \in KRules
  BY KIs DEF KRules
<1>2. CASE ~e.enabled
  <2>1. t = [s EXCEPT !.addrs = w]
    BY <1>2 DEF DropAddress
  <2> HIDE DEF w
  <2>2. t \in Raw
    BY <1>1, <2>1, ZenonT(60) DEF Raw, w
  <2>3. /\ AddrFrame(s, t) /\ t.addrs = w /\ t.kaddrs = s.kaddrs
        /\ t.krules = s.krules /\ t.ksubnets = s.ksubnets
    BY <2>1, SMT DEF Raw, AddrFrame
  <2> QED BY <1>2, <2>2, <2>3 DEF Gone, w
<1>3. CASE e.enabled /\ a \in External
  <2>1. t = [s EXCEPT !.krules = kr, !.addrs = w]
    BY <1>3 DEF DropAddress
  <2> HIDE DEF w, kr
  <2>2. t \in Raw
    BY <1>1, <1>5, <2>1, ZenonT(60) DEF Raw, w, KRules
  <2>3. /\ AddrFrame(s, t) /\ t.addrs = w /\ t.kaddrs = s.kaddrs
        /\ t.krules = kr /\ t.ksubnets = s.ksubnets
    BY <2>1, SMT DEF Raw, AddrFrame
  <2> QED BY <1>3, <2>2, <2>3 DEF Gone, w, kr
<1>4. CASE e.enabled /\ a \notin External
  <2>1. PICK d : d = DelSubnetRoute(s, a)
    OBVIOUS
  <2>2. /\ d \in Raw /\ AddrFrame(s, d)
        /\ d.kaddrs = s.kaddrs /\ d.krules = s.krules
        /\ d.ksubnets = s.ksubnets \ {SubnetRoute(a, e.subnet)}
        /\ d.addrs = [s.addrs EXCEPT ![a] = [e EXCEPT !.subnet = NoSubnet]]
    BY <2>1, DelSubnetRouteIs
  <2> DEFINE ka == d.kaddrs \ {<<a, s.dev>>}
  <2>3. PICK m : m = [d EXCEPT !.kaddrs = ka]
    OBVIOUS
  <2>4. t = [m EXCEPT !.krules = m.krules \ AddrRule(a, e.policy),
                      !.addrs = Without(m.addrs, a)]
    BY <1>4, <2>1, <2>3 DEF DropAddress
  <2>5. ka \in KAddrs
    BY <2>2, KIs DEF KAddrs
  <2> HIDE DEF ka
  <2>6. m \in Raw
    BY <2>2, <2>3, <2>5, Zenon DEF Raw, KAddrs
  <2>7. /\ AddrFrame(d, m) /\ m.addrs = d.addrs /\ m.kaddrs = ka
        /\ m.krules = d.krules /\ m.ksubnets = d.ksubnets
    BY <2>2, <2>3, SMT DEF Raw, AddrFrame
  <2>8. Without(d.addrs, a) = w
    BY <1>1, <2>2 DEF Without, Restrict
  <2>9. t = [m EXCEPT !.krules = kr, !.addrs = w]
    BY <2>2, <2>4, <2>7, <2>8
  <2> HIDE DEF w, kr
  <2>10. t \in Raw
    BY <1>1, <1>5, <2>6, <2>9, ZenonT(60) DEF Raw, w, KRules
  <2>11. /\ AddrFrame(m, t) /\ t.addrs = w /\ t.kaddrs = m.kaddrs
         /\ t.krules = kr /\ t.ksubnets = m.ksubnets
    BY <2>6, <2>9, SMT DEF Raw, AddrFrame
  <2>12. AddrFrame(s, t)
    BY <2>2, <2>7, <2>11 DEF AddrFrame
  <2> QED BY <1>4, <2>2, <2>7, <2>10, <2>11, <2>12 DEF Gone, w, kr, ka
<1> QED BY <1>2, <1>3, <1>4 DEF AddrEntry

(* A rule is that of its address. *)
LEMMA RuleIs ==
  ASSUME NEW a, NEW table, NEW k
  PROVE  /\ k \in AddrRule(a, table) => k.addr = a
         /\ [addr |-> a, table |-> table].addr = a
BY DEF AddrRule

(* So is a subnet route. *)
LEMMA SubnetRouteIs ==
  ASSUME NEW a, NEW sub
  PROVE  SubnetRoute(a, sub).addr = a
BY DEF SubnetRoute

(* The other entries stay. *)
LEMMA DropAddressFrame ==
  ASSUME NEW s \in Raw, NEW a \in DOMAIN s.addrs, NEW t, t = DropAddress(s, a)
  PROVE  /\ t \in Raw /\ AddrFrame(s, t)
         /\ DOMAIN t.addrs = DOMAIN s.addrs \ {a}
         /\ \A x \in DOMAIN t.addrs : t.addrs[x] = s.addrs[x]
<1>1. t \in Raw /\ AddrFrame(s, t) /\ t.addrs = Without(s.addrs, a)
  BY DropAddressIs
<1>2. s.addrs \in AddrMap
  BY DEF Raw
<1>3. /\ DOMAIN Without(s.addrs, a) = DOMAIN s.addrs \ {a}
      /\ \A x \in DOMAIN s.addrs \ {a} : Without(s.addrs, a)[x] = s.addrs[x]
  BY <1>2, WithoutIs
<1> QED BY <1>1, <1>3

(* An entry that goes leaves the kernel right. *)
LEMMA DropAddressKeeps ==
  ASSUME NEW s \in Raw, AddrInv(s), NEW a \in DOMAIN s.addrs,
         NEW t, t = DropAddress(s, a)
  PROVE  AddrInv(t) /\ (RuleInv(s) => RuleInv(t))
<1> DEFINE e == s.addrs[a]
<1>1. /\ t \in Raw /\ t.dev = s.dev
      /\ t.addrs = Without(s.addrs, a)
      /\ t.kaddrs = s.kaddrs \ Gone(e.enabled /\ a \notin External, <<a, s.dev>>)
      /\ t.krules = s.krules \ (IF e.enabled THEN AddrRule(a, e.policy) ELSE {})
      /\ t.ksubnets = s.ksubnets \ Gone(e.enabled /\ a \notin External,
                                        SubnetRoute(a, e.subnet))
  BY DropAddressIs DEF AddrFrame
<1>2. /\ DOMAIN t.addrs = DOMAIN s.addrs \ {a}
      /\ \A x \in DOMAIN t.addrs : t.addrs[x] = s.addrs[x]
  BY DropAddressFrame
<1>3. OwnOf(t) = OwnOf(s) \ {a}
  BY <1>2 DEF OwnOf
<1>4. ASSUME NEW k \in t.kaddrs
      PROVE  /\ k[1] \in OwnOf(t) /\ t.addrs[k[1]].enabled
             /\ k = <<k[1], t.dev>>
  <2>1. k \in s.kaddrs /\ k \notin Gone(e.enabled /\ a \notin External, <<a, s.dev>>)
    BY <1>1
  <2>2. k[1] \in OwnOf(s) /\ s.addrs[k[1]].enabled /\ k = <<k[1], s.dev>>
    BY <2>1 DEF AddrInv
  <2>3. k[1] # a
    BY <2>1, <2>2 DEF Gone, OwnOf
  <2> QED BY <1>1, <1>2, <1>3, <2>2, <2>3 DEF OwnOf
<1>5. ASSUME NEW k \in t.ksubnets
      PROVE  /\ k.addr \in OwnOf(t) /\ t.addrs[k.addr].enabled
             /\ k = SubnetRoute(k.addr, t.addrs[k.addr].subnet)
  <2>1. k \in s.ksubnets
        /\ k \notin Gone(e.enabled /\ a \notin External, SubnetRoute(a, e.subnet))
    BY <1>1
  <2>2. /\ k.addr \in OwnOf(s) /\ s.addrs[k.addr].enabled
        /\ k = SubnetRoute(k.addr, s.addrs[k.addr].subnet)
    BY <2>1 DEF AddrInv
  <2>3. k.addr # a
    BY <2>1, <2>2 DEF Gone, OwnOf
  <2> QED BY <1>2, <1>3, <2>2, <2>3 DEF OwnOf
<1>6. ASSUME NEW x \in OwnOf(t), t.addrs[x].enabled, ~t.addrs[x].missed
      PROVE  /\ ~t.addrs[x].failed => <<x, t.dev>> \in t.kaddrs
             /\ AddrRule(x, t.addrs[x].policy) \subseteq t.krules
  <2>1. x \in OwnOf(s) /\ x # a /\ t.addrs[x] = s.addrs[x]
    BY <1>2, <1>3 DEF OwnOf
  <2>2. /\ ~s.addrs[x].failed => <<x, s.dev>> \in s.kaddrs
        /\ AddrRule(x, s.addrs[x].policy) \subseteq s.krules
    BY <1>6, <2>1 DEF AddrInv
  <2>3. <<x, s.dev>> \notin Gone(e.enabled /\ a \notin External, <<a, s.dev>>)
    BY <2>1 DEF Gone
  <2>4. \A k \in AddrRule(x, s.addrs[x].policy) : k \notin AddrRule(a, e.policy)
    BY <2>1, RuleIs
  <2> QED BY <1>1, <2>1, <2>2, <2>3, <2>4
<1>7. AddrInv(t)
  BY <1>4, <1>5, <1>6 DEF AddrInv
<1>8. ASSUME RuleInv(s), NEW k \in t.krules
      PROVE  /\ k.addr \in DOMAIN t.addrs /\ t.addrs[k.addr].enabled
             /\ k \in AddrRule(k.addr, t.addrs[k.addr].policy)
  <2>1. k \in s.krules
    BY <1>1
  <2>2. /\ k.addr \in DOMAIN s.addrs /\ s.addrs[k.addr].enabled
        /\ k \in AddrRule(k.addr, s.addrs[k.addr].policy)
    BY <1>8, <2>1 DEF RuleInv
  <2>3. k.addr # a
    BY <1>1, <2>2
  <2> QED BY <1>2, <2>2, <2>3
<1> QED BY <1>7, <1>8 DEF RuleInv

(* The loops over addresses that drop them. *)
DropAddresses(s, S) ==
  LET iter[u \in SUBSET S] ==
        IF u = {} THEN s ELSE DropAddress(iter[Rest(u)], Pick(u))
  IN  iter[S]

(* After those in u. *)
Dropped(s, u, t) ==
  /\ AddrFrame(s, t) /\ AddrInv(t) /\ (RuleInv(s) => RuleInv(t))
  /\ DOMAIN t.addrs = DOMAIN s.addrs \ u
  /\ \A x \in DOMAIN t.addrs : t.addrs[x] = s.addrs[x]

(* ... and so do all that go, whatever the order. *)
LEMMA DropAddressesIs ==
  ASSUME NEW s \in Raw, AddrInv(s), NEW S \in SUBSET DOMAIN s.addrs,
         NEW t, t = DropAddresses(s, S)
  PROVE  t \in Raw /\ Dropped(s, S, t)
<1>0. IsFiniteSet(S)
  <2>1. s.addrs \in AddrMap
    BY DEF Raw
  <2>2. S \subseteq Addrs
    BY <2>1, AddrMapIs
  <2> QED BY <2>2, FS_Subset, IpAssumption
<1> DEFINE G == [u \in SUBSET S |-> {c \in Raw : Dropped(s, u, c)}]
           All == UNION {G[u] : u \in SUBSET S}
           F == [x \in S |-> [c \in All |-> DropAddress(c, x)]]
           R(f) == f = [u \in SUBSET S |->
                          IF u = {} THEN s ELSE DropAddress(f[Rest(u)], Pick(u))]
<1>1. s \in G[{}]
  <2>1. Dropped(s, {}, s)
    BY DEF Dropped, AddrFrame
  <2> QED BY <2>1
<1>2. ASSUME NEW u \in SUBSET S, u # {}, NEW c \in G[Rest(u)],
             NEW d, d = DropAddress(c, Pick(u))
      PROVE  d \in G[u]
  <2>1. /\ Pick(u) \in u /\ Rest(u) \in SUBSET S
        /\ Rest(u) = u \ {Pick(u)}
    BY <1>0, <1>2, RestIs DEF Rest
  <2>2. c \in Raw /\ Dropped(s, Rest(u), c)
    BY <2>1
  <2>3. d \in Raw /\ Dropped(s, u, d)
    <3>1. Pick(u) \in DOMAIN c.addrs
      BY <2>1, <2>2 DEF Dropped
    <3>2. /\ d \in Raw /\ AddrFrame(c, d)
          /\ DOMAIN d.addrs = DOMAIN c.addrs \ {Pick(u)}
          /\ \A x \in DOMAIN d.addrs : d.addrs[x] = c.addrs[x]
      BY <1>2, <2>2, <3>1, DropAddressFrame
    <3>3. AddrInv(d) /\ (RuleInv(c) => RuleInv(d))
      BY <1>2, <2>2, <3>1, DropAddressKeeps DEF Dropped
    <3>6. AddrFrame(s, d)
      BY <2>2, <3>2 DEF Dropped, AddrFrame
    <3>7. DOMAIN d.addrs = DOMAIN s.addrs \ u
      BY <2>1, <2>2, <3>2 DEF Dropped
    <3>8. \A x \in DOMAIN d.addrs : d.addrs[x] = s.addrs[x]
      BY <2>2, <3>2 DEF Dropped
    <3> QED BY <2>2, <3>2, <3>3, <3>6, <3>7, <3>8 DEF Dropped
  <2> QED BY <2>3
<1> HIDE DEF G
<1>3. ASSUME NEW u \in SUBSET S, u # {}, NEW c \in G[Rest(u)]
      PROVE  F[Pick(u)][c] = DropAddress(c, Pick(u)) /\ F[Pick(u)][c] \in G[u]
  <2>1. Pick(u) \in S /\ Rest(u) \in SUBSET S
    BY <1>0, <1>3, RestIs
  <2>2. c \in All
    BY <2>1
  <2>3. F[Pick(u)][c] = DropAddress(c, Pick(u))
    BY <2>1, <2>2
  <2> QED BY <1>2, <1>3, <2>3
<1> HIDE DEF F
<1>4. Courses(S, G, F, s) # {}
  BY <1>0, <1>1, <1>3, FoldRuns
<1>5. PICK h : h \in Courses(S, G, F, s)
  BY <1>4
<1>6. R(h)
  <2>1. ASSUME NEW u \in SUBSET S, u # {}
        PROVE  h[u] = DropAddress(h[Rest(u)], Pick(u))
    <3>1. h[u] = F[Pick(u)][h[Rest(u)]]
      BY <1>5, <2>1 DEF Courses
    <3>2. Rest(u) \in SUBSET S
      BY <1>0, <2>1, RestIs
    <3>3. h[Rest(u)] \in G[Rest(u)]
      BY <1>5, <3>2 DEF Courses
    <3> QED BY <1>3, <2>1, <3>1, <3>3
  <2>2. h = [u \in SUBSET S |-> h[u]] /\ h[{}] = s
    BY <1>5 DEF Courses
  <2>3. \A u \in SUBSET S :
          h[u] = IF u = {} THEN s ELSE DropAddress(h[Rest(u)], Pick(u))
    BY <2>1, <2>2
  <2> HIDE DEF F, G
  <2> QED BY <2>2, <2>3, Zenon
<1>7. PICK g : g = CHOOSE f : R(f)
  OBVIOUS
<1>8. R(g)
  BY <1>6, <1>7
<1>9. t = g[S]
  BY <1>7 DEF DropAddresses
<1>10. \A u \in SUBSET S :
         g[u] = IF u = {} THEN s ELSE DropAddress(g[Rest(u)], Pick(u))
  BY <1>8, Zenon
<1> HIDE DEF R
<1>11. g[{}] \in G[{}]
  BY <1>1, <1>10
<1>12. ASSUME NEW u \in SUBSET S, u # {}, g[Rest(u)] \in G[Rest(u)]
       PROVE  g[u] \in G[u]
  <2>1. g[u] = DropAddress(g[Rest(u)], Pick(u))
    BY <1>10, <1>12
  <2> QED BY <1>2, <1>12, <2>1
<1>13. g[S] \in G[S]
  BY <1>0, <1>11, <1>12, FoldReaches
<1>14. t \in Raw /\ Dropped(s, S, t)
  BY <1>9, <1>13 DEF G
<1> QED BY <1>14

(* What AddrInv says of the address a, once it is installed. *)
Installed(s, a) ==
  s.addrs[a].enabled /\ ~s.addrs[a].missed =>
    /\ ~s.addrs[a].failed => <<a, s.dev>> \in s.kaddrs
    /\ AddrRule(a, s.addrs[a].policy) \subseteq s.krules

(* AddrInv while the address a is being installed. *)
Others(s, a) ==
  /\ \A k \in s.kaddrs : /\ k[1] \in OwnOf(s) /\ s.addrs[k[1]].enabled
                          /\ k = <<k[1], s.dev>>
  /\ \A k \in s.ksubnets : /\ k.addr \in OwnOf(s) /\ s.addrs[k.addr].enabled
                            /\ k = SubnetRoute(k.addr, s.addrs[k.addr].subnet)
  /\ \A x \in OwnOf(s) : x # a => Installed(s, x)

(* AddrInv, taken apart at the address a. *)
LEMMA OthersAre ==
  ASSUME NEW s, NEW a
  PROVE  /\ AddrInv(s) => Others(s, a) /\ (a \in OwnOf(s) => Installed(s, a))
         /\ Others(s, a) /\ (a \in OwnOf(s) => Installed(s, a)) => AddrInv(s)
<1>1. AddrInv(s) => Others(s, a) /\ (a \in OwnOf(s) => Installed(s, a))
  BY DEF AddrInv, Others, Installed
<1>2. ASSUME Others(s, a), a \in OwnOf(s) => Installed(s, a)
      PROVE  AddrInv(s)
  <2>1. \A x \in OwnOf(s) : Installed(s, x)
    BY <1>2 DEF Others
  <2> QED BY <1>2, <2>1 DEF AddrInv, Others, Installed
<1> QED BY <1>1, <1>2

NoSubnetOf(s, a) == \A k \in s.ksubnets : k.addr # a

(* interface_handle_subnet_route adds a route. *)
LEMMA AddSubnetRouteIs ==
  ASSUME NEW s \in Raw, NEW a \in DOMAIN s.addrs,
         NEW t, t = AddSubnetRoute(s, a)
  PROVE  \E sub \in Subnet :
           /\ t \in Raw /\ AddrFrame(s, t)
           /\ t.kaddrs = s.kaddrs /\ t.krules = s.krules
           /\ t.ksubnets = s.ksubnets \cup {SubnetRoute(a, sub)}
           /\ t.addrs = [s.addrs EXCEPT ![a] = [s.addrs[a] EXCEPT !.subnet = sub]]
<1> DEFINE sub == [dev |-> s.dev, metric |-> s.info.metric, table |-> s.info.table]
           v == [s.addrs[a] EXCEPT !.subnet = sub]
           f == [s.addrs EXCEPT ![a] = v]
           k == s.ksubnets \cup {SubnetRoute(a, sub)}
<1>1. s.addrs[a] \in AddrEntry /\ s.addrs \in AddrMap /\ a \in Addrs
  BY AddressIs DEF Raw
<1>2. s.dev \in DeviceOrNone
  BY DEF Raw
<1>3. sub \in Subnet
  BY <1>2, InfoIs DEF Subnet, DeviceOrNone
<1>4. v \in AddrEntry
  <2> HIDE DEF sub
  <2> QED BY <1>1, <1>3 DEF AddrEntry
<1>5. f \in AddrMap
  <2> HIDE DEF v
  <2> QED BY <1>1, <1>4, ExceptIs
<1>6. k \in KSubnets
  <2>1. SubnetRoute(a, sub) \in [addr : Addrs, dev : DeviceOrNone, metric : Nat, table : Nat]
    BY <1>1, <1>2, InfoIs DEF SubnetRoute
  <2> QED BY <2>1, KIs DEF KSubnets
<1>7. t = [s EXCEPT !.addrs = f, !.ksubnets = k]
  BY DEF AddSubnetRoute
<1> HIDE DEF f, k, v, sub
<1>8. t \in Raw
  BY <1>5, <1>6, <1>7, ZenonT(60) DEF Raw, KSubnets
<1>9. /\ AddrFrame(s, t) /\ t.kaddrs = s.kaddrs /\ t.krules = s.krules
      /\ t.addrs = f /\ t.ksubnets = k
  BY <1>7, SMT DEF Raw, AddrFrame
<1> QED BY <1>3, <1>8, <1>9 DEF f, k, v

(* The route is added to an address that has none: the kernel stays right.  *)
LEMMA AddSubnetRouteKeeps ==
  ASSUME NEW s \in Raw, NEW a \in OwnOf(s), AddrInv(s), NoSubnetOf(s, a),
         s.addrs[a].enabled, NEW t, t = AddSubnetRoute(s, a)
  PROVE  /\ t \in Raw /\ AddrFrame(s, t) /\ AddrInv(t)
         /\ RuleInv(s) => RuleInv(t)
         /\ DOMAIN t.addrs = DOMAIN s.addrs
         /\ \A x \in DOMAIN t.addrs :
              /\ t.addrs[x].enabled = s.addrs[x].enabled
              /\ t.addrs[x].policy = s.addrs[x].policy
              /\ x # a => t.addrs[x] = s.addrs[x]
<1>0. a \in DOMAIN s.addrs
  BY DEF OwnOf
<1>1. PICK sub \in Subnet :
        /\ t \in Raw /\ AddrFrame(s, t)
        /\ t.kaddrs = s.kaddrs /\ t.krules = s.krules
        /\ t.ksubnets = s.ksubnets \cup {SubnetRoute(a, sub)}
        /\ t.addrs = [s.addrs EXCEPT ![a] = [s.addrs[a] EXCEPT !.subnet = sub]]
  BY <1>0, AddSubnetRouteIs
<1> DEFINE v == [s.addrs[a] EXCEPT !.subnet = sub]
<1>2. s.addrs[a] \in AddrEntry
  BY <1>0, AddressIs
<1>3. /\ v \in AddrEntry
      /\ v.subnet = sub /\ v.enabled = s.addrs[a].enabled /\ v.policy = s.addrs[a].policy
      /\ v.missed = s.addrs[a].missed /\ v.failed = s.addrs[a].failed
  BY <1>2 DEF AddrEntry
<1>4. /\ DOMAIN t.addrs = DOMAIN s.addrs /\ t.addrs[a] = v
      /\ \A x \in DOMAIN s.addrs : x # a => t.addrs[x] = s.addrs[x]
  <2>1. t.addrs = [s.addrs EXCEPT ![a] = v] /\ s.addrs \in AddrMap
    BY <1>1 DEF Raw
  <2> HIDE DEF v
  <2> QED BY <1>0, <1>3, <2>1, ExceptIs
<1> HIDE DEF v
<1>5. \A x \in DOMAIN t.addrs :
        /\ t.addrs[x].enabled = s.addrs[x].enabled
        /\ t.addrs[x].policy = s.addrs[x].policy
        /\ t.addrs[x].missed = s.addrs[x].missed
        /\ t.addrs[x].failed = s.addrs[x].failed
        /\ x # a => t.addrs[x] = s.addrs[x]
  BY <1>3, <1>4
<1>6. OwnOf(t) = OwnOf(s) /\ t.dev = s.dev
  BY <1>1, <1>4 DEF OwnOf, AddrFrame
<1>7. ASSUME NEW k \in t.kaddrs
      PROVE  /\ k[1] \in OwnOf(t) /\ t.addrs[k[1]].enabled
             /\ k = <<k[1], t.dev>>
  BY <1>1, <1>4, <1>5, <1>6 DEF AddrInv, OwnOf
<1>8. ASSUME NEW k \in t.ksubnets
      PROVE  /\ k.addr \in OwnOf(t) /\ t.addrs[k.addr].enabled
             /\ k = SubnetRoute(k.addr, t.addrs[k.addr].subnet)
  <2>1. CASE k \in s.ksubnets
    <3>1. /\ k.addr \in OwnOf(s) /\ s.addrs[k.addr].enabled /\ k.addr # a
          /\ k = SubnetRoute(k.addr, s.addrs[k.addr].subnet)
      BY <2>1 DEF AddrInv, NoSubnetOf
    <3> QED BY <3>1, <1>4, <1>6 DEF OwnOf
  <2>2. CASE k = SubnetRoute(a, sub)
    <3>1. k.addr = a
      BY <2>2, SubnetRouteIs
    <3> QED BY <2>2, <3>1, <1>3, <1>4, <1>6
  <2> QED BY <1>1, <2>1, <2>2
<1>9. ASSUME NEW x \in OwnOf(t) PROVE Installed(t, x)
  <2>1. Installed(s, x)
    BY <1>6, OthersAre DEF AddrInv, Installed
  <2>2. x \in DOMAIN t.addrs
    BY DEF OwnOf
  <2> QED BY <2>1, <2>2, <1>1, <1>5, <1>6 DEF Installed
<1>10. AddrInv(t)
  BY <1>7, <1>8, <1>9 DEF AddrInv, Installed
<1>11. RuleInv(s) => RuleInv(t)
  BY <1>1, <1>4, <1>5 DEF RuleInv
<1> QED BY <1>1, <1>4, <1>5, <1>10, <1>11

(* The entry of AddAddress. *)
Fresh(s, a, until, willing) ==
  LET keep == Keep(s, a)
      replace == keep /\ s.addrs[a].until # until
  IN  [until |-> until, enabled |-> TRUE, policy |-> s.info.table, subnet |-> NoSubnet,
       failed |-> a \notin External /\ (~keep \/ replace) /\ a \notin willing,
       missed |-> keep /\ (s.addrs[a].missed \/ ~s.addrs[a].enabled)]

(* The entry that is put in the place of an old one. *)
LEMMA FreshIs ==
  ASSUME NEW s \in Raw, NEW a, NEW until \in Times, NEW willing,
         NEW e, e = Fresh(s, a, until, willing)
  PROVE  /\ e \in AddrEntry /\ e.enabled /\ e.policy = s.info.table
         /\ e.missed <=> Keep(s, a) /\ (s.addrs[a].missed \/ ~s.addrs[a].enabled)
         /\ e.failed <=> /\ a \notin External /\ a \notin willing
                         /\ ~Keep(s, a) \/ s.addrs[a].until # until
<1>1. NoSubnet \in Subnet /\ s.info.table \in Nat
  BY InfoIs DEF NoSubnet, Subnet
<1>2. /\ e.enabled /\ e.policy = s.info.table /\ e.until = until
      /\ e.subnet = NoSubnet
      /\ e.failed = (a \notin External /\ (~Keep(s, a) \/ (Keep(s, a) /\ s.addrs[a].until # until))
                     /\ a \notin willing)
      /\ e.missed = (Keep(s, a) /\ (s.addrs[a].missed \/ ~s.addrs[a].enabled))
  BY DEF Fresh
<1>3. e \in AddrEntry
  BY <1>1, Zenon DEF Fresh, AddrEntry
<1> QED BY <1>2, <1>3

(* Where the entry e takes the place of the old one of a. *)
Placed(s, m, a, e) ==
  /\ m \in Raw /\ AddrFrame(s, m)
  /\ DOMAIN m.addrs = DOMAIN s.addrs \cup {a} /\ m.addrs[a] = e
  /\ \A x \in DOMAIN s.addrs : x # a => m.addrs[x] = s.addrs[x]
  /\ Others(m, a) /\ NoSubnetOf(m, a)
  /\ RuleInv(s) /\ ExternalNow(s) => RuleInv(m)
  /\ a \notin External /\ ~e.missed =>
       /\ AddrRule(a, e.policy) \subseteq m.krules
       /\ Keep(s, a) => <<a, s.dev>> \in m.kaddrs

(* An entry that is kept: the kernel does not see any of it. *)
LEMMA KeptIsPlaced ==
  ASSUME NEW s \in Raw, AddrInv(s), OwnNow(s), NEW a \in Addrs, Keep(s, a),
         NEW e \in AddrEntry, e.enabled, e.policy = s.info.table,
         e.missed <=> s.addrs[a].missed \/ ~s.addrs[a].enabled,
         NEW m, m = [s EXCEPT !.addrs = With(s.addrs, a, e),
                              !.ksubnets = s.ksubnets \ {SubnetRoute(a, s.addrs[a].subnet)}]
  PROVE  Placed(s, m, a, e)
<1> DEFINE f == With(s.addrs, a, e)
           k == s.ksubnets \ {SubnetRoute(a, s.addrs[a].subnet)}
<1>1. a \in DOMAIN s.addrs /\ ~s.addrs[a].failed
  BY DEF Keep
<1>2. /\ f \in AddrMap /\ DOMAIN f = DOMAIN s.addrs /\ f[a] = e
      /\ \A x \in DOMAIN s.addrs : x # a => f[x] = s.addrs[x]
  <2>1. s.addrs \in AddrMap
    BY DEF Raw
  <2>2. /\ f \in AddrMap /\ DOMAIN f = DOMAIN s.addrs \cup {a} /\ f[a] = e
        /\ \A x \in DOMAIN s.addrs : x # a => f[x] = s.addrs[x]
    BY <2>1, WithIs
  <2> QED BY <1>1, <2>2
<1>3. k \in KSubnets
  BY KIs DEF KSubnets
<1> HIDE DEF f
<1>4. m \in Raw
  <2> HIDE DEF k
  <2> QED BY <1>2, <1>3, Zenon DEF Raw, KSubnets, f, k
<1>5. /\ AddrFrame(s, m) /\ m.kaddrs = s.kaddrs /\ m.krules = s.krules
      /\ m.addrs = f /\ m.ksubnets = k
  <2> HIDE DEF k
  <2> QED BY SMT DEF Raw, AddrFrame, f, k
<1>6. DOMAIN m.addrs = DOMAIN s.addrs /\ OwnOf(m) = OwnOf(s) /\ m.dev = s.dev
  BY <1>2, <1>5 DEF OwnOf, AddrFrame
<1>7. ASSUME NEW q \in m.kaddrs
      PROVE  /\ q[1] \in OwnOf(m) /\ m.addrs[q[1]].enabled
             /\ q = <<q[1], m.dev>>
  BY <1>2, <1>5, <1>6 DEF AddrInv, OwnOf
<1>8. ASSUME NEW q \in m.ksubnets
      PROVE  /\ q.addr \in OwnOf(m) /\ m.addrs[q.addr].enabled /\ q.addr # a
             /\ q = SubnetRoute(q.addr, m.addrs[q.addr].subnet)
  <2>1. /\ q.addr \in OwnOf(s) /\ s.addrs[q.addr].enabled
        /\ q = SubnetRoute(q.addr, s.addrs[q.addr].subnet)
    BY <1>5 DEF AddrInv
  <2>2. q.addr # a
    BY <1>5, <2>1
  <2> QED BY <1>2, <1>5, <1>6, <2>1, <2>2 DEF OwnOf
<1>9. ASSUME NEW x \in OwnOf(m), x # a PROVE Installed(m, x)
  <2>1. x \in OwnOf(s) /\ m.addrs[x] = s.addrs[x]
    BY <1>2, <1>5, <1>6, <1>9 DEF OwnOf
  <2>2. Installed(s, x)
    BY <2>1 DEF AddrInv, Installed
  <2> QED BY <1>5, <1>6, <2>1, <2>2 DEF Installed
<1>10. Others(m, a) /\ NoSubnetOf(m, a)
  BY <1>7, <1>8, <1>9 DEF Others, NoSubnetOf
<1>11. ASSUME RuleInv(s), ExternalNow(s) PROVE RuleInv(m)
  <2> SUFFICES ASSUME NEW q \in m.krules
               PROVE  /\ q.addr \in DOMAIN m.addrs /\ m.addrs[q.addr].enabled
                      /\ q \in AddrRule(q.addr, m.addrs[q.addr].policy)
    BY DEF RuleInv
  <2>1. /\ q.addr \in DOMAIN s.addrs /\ s.addrs[q.addr].enabled
        /\ q \in AddrRule(q.addr, s.addrs[q.addr].policy)
    BY <1>5, <1>11 DEF RuleInv
  <2>2. CASE q.addr # a
    BY <1>2, <1>5, <2>1, <2>2
  <2>3. CASE q.addr = a
    <3>1. s.addrs[a].policy # 0
      BY <2>1, <2>3 DEF AddrRule
    <3>2. s.addrs[a].policy = s.info.table
      BY <1>1, <1>11, <2>1, <2>3, <3>1 DEF OwnNow, OwnOf, ExternalNow
    <3> QED BY <1>1, <1>2, <1>5, <2>1, <2>3, <3>2
  <2> QED BY <2>2, <2>3
<1>12. ASSUME a \notin External, ~e.missed
       PROVE  /\ AddrRule(a, e.policy) \subseteq m.krules
              /\ <<a, s.dev>> \in m.kaddrs
  <2>1. a \in OwnOf(s) /\ s.addrs[a].enabled /\ ~s.addrs[a].missed
    BY <1>1, <1>12 DEF OwnOf
  <2>2. Installed(s, a) /\ s.addrs[a].policy = s.info.table
    BY <2>1 DEF AddrInv, Installed, OwnNow
  <2> QED BY <1>1, <1>5, <2>1, <2>2 DEF Installed
<1> QED BY <1>1, <1>2, <1>4, <1>5, <1>6, <1>10, <1>11, <1>12 DEF Placed

(* An entry that is new, or takes the place of one that has failed. *)
LEMMA NewIsPlaced ==
  ASSUME NEW s \in Raw, AddrInv(s), NEW a \in Addrs, ~Keep(s, a),
         NEW e \in AddrEntry, e.enabled, e.policy = s.info.table, ~e.missed,
         NEW d \in Raw, AddrFrame(s, d), AddrInv(d), RuleInv(s) => RuleInv(d),
         DOMAIN d.addrs = DOMAIN s.addrs \ {a},
         \A x \in DOMAIN d.addrs : d.addrs[x] = s.addrs[x],
         NEW f, f = With(d.addrs, a, e),
         NEW k, k = d.krules \cup AddrRule(a, s.info.table),
         NEW m, m = [d EXCEPT !.addrs = f, !.krules = k]
  PROVE  Placed(s, m, a, e)
<1>2. /\ f \in AddrMap /\ DOMAIN f = DOMAIN s.addrs \cup {a} /\ f[a] = e
      /\ \A x \in DOMAIN s.addrs : x # a => f[x] = s.addrs[x]
  <2>1. d.addrs \in AddrMap
    BY DEF Raw
  <2>2. PICK c : c = d.addrs
    OBVIOUS
  <2>3. /\ With(c, a, e) \in AddrMap /\ DOMAIN With(c, a, e) = DOMAIN c \cup {a}
        /\ With(c, a, e)[a] = e
        /\ \A x \in DOMAIN c : x # a => With(c, a, e)[x] = c[x]
    BY <2>1, <2>2, WithIs
  <2> QED BY <2>2, <2>3
<1>3. k \in KRules
  <2>1. AddrRule(a, s.info.table) \subseteq [addr : Addrs, table : Nat]
    BY InfoIs DEF AddrRule
  <2> QED BY <2>1, KIs DEF KRules
<1>4. m \in Raw
  BY <1>2, <1>3, ZenonT(60) DEF Raw, KRules
<1>5. /\ AddrFrame(d, m) /\ m.kaddrs = d.kaddrs /\ m.krules = k
      /\ m.addrs = f /\ m.ksubnets = d.ksubnets
  BY SMT DEF Raw, AddrFrame
<1>6. /\ DOMAIN m.addrs = DOMAIN s.addrs \cup {a} /\ m.dev = s.dev /\ d.dev = s.dev
      /\ OwnOf(d) = OwnOf(s) \ {a} /\ OwnOf(d) = OwnOf(m) \ {a}
  BY <1>2, <1>5 DEF OwnOf, AddrFrame
<1>7. ASSUME NEW q \in m.kaddrs
      PROVE  /\ q[1] \in OwnOf(m) /\ m.addrs[q[1]].enabled
             /\ q = <<q[1], m.dev>>
  <2>1. q[1] \in OwnOf(d) /\ d.addrs[q[1]].enabled /\ q = <<q[1], d.dev>>
    BY <1>5 DEF AddrInv
  <2> QED BY <1>2, <1>5, <1>6, <2>1 DEF OwnOf
<1>8. ASSUME NEW q \in m.ksubnets
      PROVE  /\ q.addr \in OwnOf(m) /\ m.addrs[q.addr].enabled /\ q.addr # a
             /\ q = SubnetRoute(q.addr, m.addrs[q.addr].subnet)
  <2>1. /\ q.addr \in OwnOf(d) /\ d.addrs[q.addr].enabled
        /\ q = SubnetRoute(q.addr, d.addrs[q.addr].subnet)
    BY <1>5 DEF AddrInv
  <2> QED BY <1>2, <1>5, <1>6, <2>1 DEF OwnOf
<1>9. ASSUME NEW x \in OwnOf(m), x # a PROVE Installed(m, x)
  <2>1. x \in OwnOf(d) /\ m.addrs[x] = d.addrs[x]
    BY <1>2, <1>5, <1>6, <1>9 DEF OwnOf
  <2>2. Installed(d, x)
    BY <2>1 DEF AddrInv, Installed
  <2> QED BY <1>5, <1>6, <2>1, <2>2 DEF Installed
<1>10. Others(m, a) /\ NoSubnetOf(m, a)
  BY <1>7, <1>8, <1>9 DEF Others, NoSubnetOf
<1>11. ASSUME RuleInv(s) PROVE RuleInv(m)
  <2> SUFFICES ASSUME NEW q \in m.krules
               PROVE  /\ q.addr \in DOMAIN m.addrs /\ m.addrs[q.addr].enabled
                      /\ q \in AddrRule(q.addr, m.addrs[q.addr].policy)
    BY DEF RuleInv
  <2>1. CASE q \in d.krules
    <3>1. /\ q.addr \in DOMAIN d.addrs /\ d.addrs[q.addr].enabled
          /\ q \in AddrRule(q.addr, d.addrs[q.addr].policy)
      BY <1>11, <2>1 DEF RuleInv
    <3> QED BY <1>2, <1>5, <3>1
  <2>2. CASE q \in AddrRule(a, s.info.table)
    <3>1. q.addr = a
      BY <2>2, RuleIs
    <3> QED BY <1>2, <1>5, <2>2, <3>1
  <2> QED BY <1>5, <2>1, <2>2
<1>12. AddrFrame(s, m)
  BY <1>5 DEF AddrFrame
<1> QED BY <1>2, <1>4, <1>5, <1>6, <1>10, <1>11, <1>12 DEF Placed

(* interface_update_proto_addr: a reported address leaves the kernel right. *)
LEMMA AddAddressIs ==
  ASSUME NEW s \in Raw, AddrInv(s), OwnNow(s), NEW a \in Addrs, NEW until \in Times,
         NEW willing, NEW t, t = AddAddress(s, a, until, willing)
  PROVE  /\ t \in Raw /\ AddrFrame(s, t) /\ AddrInv(t)
         /\ RuleInv(s) /\ ExternalNow(s) => RuleInv(t)
         /\ DOMAIN t.addrs = DOMAIN s.addrs \cup {a}
         /\ t.addrs[a].enabled /\ t.addrs[a].policy = s.info.table
         /\ \A x \in DOMAIN s.addrs : x # a => t.addrs[x] = s.addrs[x]
<1>0. PICK e : e = Fresh(s, a, until, willing)
  OBVIOUS
<1> DEFINE d == IF a \in DOMAIN s.addrs THEN DropAddress(s, a) ELSE s
           m == IF Keep(s, a)
                  THEN [s EXCEPT !.addrs = With(s.addrs, a, e),
                                 !.ksubnets = s.ksubnets \ {SubnetRoute(a, s.addrs[a].subnet)}]
                  ELSE [d EXCEPT !.addrs = With(d.addrs, a, e),
                                 !.krules = d.krules \cup AddrRule(a, s.info.table)]
           i == IF a \in willing THEN [m EXCEPT !.kaddrs = m.kaddrs \cup {<<a, s.dev>>}] ELSE m
           as == Keep(s, a) /\ s.addrs[a].until = until
<1>1. t = IF a \in External \/ as THEN m
          ELSE IF WithDefault(s) THEN AddSubnetRoute(i, a) ELSE i
  BY <1>0 DEF AddAddress, Fresh
<1>2. /\ e \in AddrEntry /\ e.enabled /\ e.policy = s.info.table
      /\ e.missed <=> Keep(s, a) /\ (s.addrs[a].missed \/ ~s.addrs[a].enabled)
      /\ e.failed <=> a \notin External /\ a \notin willing /\ ~as
  <2> HIDE DEF d, m, i, as
  <2>1. /\ e \in AddrEntry /\ e.enabled /\ e.policy = s.info.table
        /\ e.missed <=> Keep(s, a) /\ (s.addrs[a].missed \/ ~s.addrs[a].enabled)
        /\ e.failed <=> /\ a \notin External /\ a \notin willing
                        /\ ~Keep(s, a) \/ s.addrs[a].until # until
    BY <1>0, FreshIs
  <2> QED BY <2>1 DEF as
<1>3. Placed(s, m, a, e)
  <2>1. CASE Keep(s, a)
    <3>1. m = [s EXCEPT !.addrs = With(s.addrs, a, e),
                        !.ksubnets = s.ksubnets \ {SubnetRoute(a, s.addrs[a].subnet)}]
      BY <2>1
    <3> HIDE DEF m
    <3> QED BY <1>2, <2>1, <3>1, KeptIsPlaced
  <2>2. CASE ~Keep(s, a)
    <3>1. m = [d EXCEPT !.addrs = With(d.addrs, a, e),
                        !.krules = d.krules \cup AddrRule(a, s.info.table)]
      BY <2>2
    <3>2. ~e.missed
      BY <1>2, <2>2
    <3>3. /\ d \in Raw /\ AddrFrame(s, d) /\ AddrInv(d) /\ (RuleInv(s) => RuleInv(d))
          /\ DOMAIN d.addrs = DOMAIN s.addrs \ {a}
          /\ \A x \in DOMAIN d.addrs : d.addrs[x] = s.addrs[x]
      <4>1. CASE a \in DOMAIN s.addrs
        <5>1. d = DropAddress(s, a)
          BY <4>1
        <5> HIDE DEF d, m
        <5>2. /\ d \in Raw /\ AddrFrame(s, d)
              /\ DOMAIN d.addrs = DOMAIN s.addrs \ {a}
              /\ \A x \in DOMAIN d.addrs : d.addrs[x] = s.addrs[x]
          BY <4>1, <5>1, DropAddressFrame
        <5>3. AddrInv(d) /\ (RuleInv(s) => RuleInv(d))
          BY <4>1, <5>1, DropAddressKeeps
        <5> QED BY <5>2, <5>3
      <4>2. CASE a \notin DOMAIN s.addrs
        BY <4>2 DEF AddrFrame
      <4> QED BY <4>1, <4>2
    <3> HIDE DEF m, d
    <3> QED BY <1>2, <2>2, <3>1, <3>2, <3>3, NewIsPlaced
  <2> QED BY <2>1, <2>2
<1> HIDE DEF m
<1>4. m \in Raw /\ m.addrs[a] = e /\ a \in DOMAIN m.addrs /\ m.dev = s.dev
  BY <1>3 DEF Placed, AddrFrame
<1>5. CASE a \in External \/ as
  <2>1. t = m
    BY <1>1, <1>5
  <2>2. a \in OwnOf(m) => Installed(m, a)
    BY <1>2, <1>3, <1>4, <1>5 DEF OwnOf, Placed, Installed
  <2>3. AddrInv(m)
    BY <1>3, <2>2, OthersAre DEF Placed
  <2> QED BY <1>2, <1>3, <2>1, <2>3 DEF Placed
<1>6. CASE ~(a \in External \/ as)
  <2>1. t = IF WithDefault(s) THEN AddSubnetRoute(i, a) ELSE i
    BY <1>1, <1>6
  <2>2. /\ i \in Raw /\ AddrFrame(m, i) /\ i.addrs = m.addrs /\ i.krules = m.krules
        /\ i.ksubnets = m.ksubnets
        /\ i.kaddrs = m.kaddrs \cup Gone(a \in willing, <<a, s.dev>>)
    <3>1. CASE a \notin willing
      BY <1>4, <3>1 DEF AddrFrame, Gone
    <3>2. CASE a \in willing
      <4> DEFINE k == m.kaddrs \cup {<<a, s.dev>>}
      <4>1. i = [m EXCEPT !.kaddrs = k]
        BY <3>2
      <4>2. k \in KAddrs
        <5>1. s.dev \in DeviceOrNone
          BY DEF Raw
        <5> QED BY <1>4, <5>1, KIs DEF KAddrs
      <4> HIDE DEF k, i
      <4>3. i \in Raw
        BY <1>4, <4>1, <4>2, Zenon DEF Raw, KAddrs
      <4>4. /\ AddrFrame(m, i) /\ i.addrs = m.addrs /\ i.krules = m.krules
            /\ i.ksubnets = m.ksubnets /\ i.kaddrs = k
        BY <1>4, <4>1, SMT DEF Raw, AddrFrame
      <4> QED BY <3>2, <4>3, <4>4 DEF k, Gone
    <3> QED BY <3>1, <3>2
  <2> HIDE DEF i
  <2>3. a \in OwnOf(m) /\ OwnOf(i) = OwnOf(m) /\ i.dev = m.dev
    BY <1>4, <1>6, <2>2 DEF OwnOf, AddrFrame
  <2>4. Installed(i, a)
    BY <1>2, <1>3, <1>4, <1>6, <2>2, <2>3 DEF Placed, Installed, Gone
  <2>5. Others(i, a) /\ NoSubnetOf(i, a)
    <3>1. Others(m, a) /\ NoSubnetOf(m, a)
      BY <1>3 DEF Placed
    <3>2. ASSUME NEW k \in i.kaddrs
          PROVE  /\ k[1] \in OwnOf(i) /\ i.addrs[k[1]].enabled
                 /\ k = <<k[1], i.dev>>
      <4>1. CASE k \in m.kaddrs
        BY <2>2, <2>3, <3>1, <4>1 DEF Others
      <4>2. CASE k = <<a, s.dev>>
        BY <1>2, <1>4, <2>2, <2>3, <4>2
      <4> QED BY <2>2, <4>1, <4>2 DEF Gone
    <3>3. \A x \in OwnOf(i) : x # a => Installed(i, x)
      BY <2>2, <2>3, <3>1 DEF Others, Installed
    <3> QED BY <2>2, <2>3, <3>1, <3>2, <3>3 DEF Others, NoSubnetOf
  <2>6. AddrInv(i) /\ (RuleInv(m) => RuleInv(i))
    <3>1. AddrInv(i)
      BY <2>4, <2>5, OthersAre
    <3> QED BY <3>1, <2>2 DEF RuleInv
  <2>7. CASE ~WithDefault(s)
    <3>1. t = i
      BY <2>1, <2>7
    <3>2. AddrFrame(s, i)
      BY <1>3, <2>2 DEF Placed, AddrFrame
    <3> QED BY <1>2, <1>3, <2>2, <2>6, <3>1, <3>2 DEF Placed
  <2>8. CASE WithDefault(s)
    <3>1. t = AddSubnetRoute(i, a)
      BY <2>1, <2>8
    <3>2. i.addrs[a] = e
      BY <1>4, <2>2
    <3>3. /\ t \in Raw /\ AddrFrame(i, t) /\ AddrInv(t)
          /\ RuleInv(i) => RuleInv(t)
          /\ DOMAIN t.addrs = DOMAIN i.addrs
          /\ \A x \in DOMAIN t.addrs :
               /\ t.addrs[x].enabled = i.addrs[x].enabled
               /\ t.addrs[x].policy = i.addrs[x].policy
               /\ x # a => t.addrs[x] = i.addrs[x]
      BY <1>2, <2>2, <2>3, <2>5, <2>6, <3>1, <3>2, AddSubnetRouteKeeps
    <3>4. AddrFrame(s, t)
      BY <1>3, <2>2, <3>3 DEF Placed, AddrFrame
    <3>5. /\ DOMAIN t.addrs = DOMAIN s.addrs \cup {a}
          /\ t.addrs[a].enabled /\ t.addrs[a].policy = s.info.table
          /\ \A x \in DOMAIN s.addrs : x # a => t.addrs[x] = s.addrs[x]
      BY <1>2, <1>3, <2>2, <3>2, <3>3 DEF Placed
    <3> QED BY <1>3, <2>6, <3>3, <3>4, <3>5 DEF Placed
  <2> QED BY <2>7, <2>8
<1> QED BY <1>5, <1>6

(* The loop over the addresses reported. *)
AddAddresses(s, S, until, willing) ==
  LET iter[u \in SUBSET S] ==
        IF u = {} THEN s ELSE AddAddress(iter[Rest(u)], Pick(u), until, willing)
  IN  iter[S]

(* After those in u. *)
Added(s, u, t) ==
  /\ AddrFrame(s, t) /\ AddrInv(t) /\ OwnNow(t)
  /\ RuleInv(s) /\ ExternalNow(s) => RuleInv(t) /\ ExternalNow(t)
  /\ DOMAIN t.addrs = DOMAIN s.addrs \cup u

(* ... and so do all that are reported, whatever the order. *)
LEMMA AddAddressesIs ==
  ASSUME NEW s \in Raw, AddrInv(s), OwnNow(s), NEW S \in SUBSET Addrs,
         NEW until \in Times, NEW willing,
         NEW t, t = AddAddresses(s, S, until, willing)
  PROVE  t \in Raw /\ Added(s, S, t)
<1>0. IsFiniteSet(S)
  BY FS_Subset, IpAssumption
<1> DEFINE G == [u \in SUBSET S |-> {c \in Raw : Added(s, u, c)}]
           All == UNION {G[u] : u \in SUBSET S}
           F == [x \in S |-> [c \in All |-> AddAddress(c, x, until, willing)]]
           R(f) == f = [u \in SUBSET S |->
                          IF u = {} THEN s ELSE AddAddress(f[Rest(u)], Pick(u), until, willing)]
<1>1. s \in G[{}]
  <2>1. Added(s, {}, s)
    BY DEF Added, AddrFrame
  <2> QED BY <2>1
<1>2. ASSUME NEW u \in SUBSET S, u # {}, NEW c \in G[Rest(u)],
             NEW d, d = AddAddress(c, Pick(u), until, willing)
      PROVE  d \in G[u]
  <2>1. /\ Pick(u) \in u /\ Rest(u) \in SUBSET S
        /\ Rest(u) = u \ {Pick(u)}
    BY <1>0, <1>2, RestIs DEF Rest
  <2>2. c \in Raw /\ Added(s, Rest(u), c)
    BY <2>1
  <2>3. d \in Raw /\ Added(s, u, d)
    <3>1. Pick(u) \in Addrs
      BY <2>1
    <3>2. /\ d \in Raw /\ AddrFrame(c, d) /\ AddrInv(d)
          /\ RuleInv(c) /\ ExternalNow(c) => RuleInv(d)
          /\ DOMAIN d.addrs = DOMAIN c.addrs \cup {Pick(u)}
          /\ d.addrs[Pick(u)].enabled /\ d.addrs[Pick(u)].policy = c.info.table
          /\ \A x \in DOMAIN c.addrs : x # Pick(u) => d.addrs[x] = c.addrs[x]
      BY <1>2, <2>2, <3>1, AddAddressIs DEF Added
    <3>3. AddrFrame(s, d) /\ d.info = c.info
      BY <2>2, <3>2 DEF Added, AddrFrame
    <3>4. DOMAIN d.addrs = DOMAIN s.addrs \cup u
      BY <2>1, <2>2, <3>2 DEF Added
    <3>5. OwnNow(d)
      BY <2>2, <3>2, <3>3 DEF Added, OwnNow, OwnOf
    <3>6. ExternalNow(c) => ExternalNow(d)
      BY <3>2, <3>3 DEF ExternalNow
    <3> QED BY <2>2, <3>2, <3>3, <3>4, <3>5, <3>6 DEF Added
  <2> QED BY <2>3
<1> HIDE DEF G
<1>3. ASSUME NEW u \in SUBSET S, u # {}, NEW c \in G[Rest(u)]
      PROVE  F[Pick(u)][c] = AddAddress(c, Pick(u), until, willing) /\ F[Pick(u)][c] \in G[u]
  <2>1. Pick(u) \in S /\ Rest(u) \in SUBSET S
    BY <1>0, <1>3, RestIs
  <2>2. c \in All
    BY <2>1
  <2>3. F[Pick(u)][c] = AddAddress(c, Pick(u), until, willing)
    BY <2>1, <2>2
  <2> QED BY <1>2, <1>3, <2>3
<1> HIDE DEF F
<1>4. Courses(S, G, F, s) # {}
  BY <1>0, <1>1, <1>3, FoldRuns
<1>5. PICK h : h \in Courses(S, G, F, s)
  BY <1>4
<1>6. R(h)
  <2>1. ASSUME NEW u \in SUBSET S, u # {}
        PROVE  h[u] = AddAddress(h[Rest(u)], Pick(u), until, willing)
    <3>1. h[u] = F[Pick(u)][h[Rest(u)]]
      BY <1>5, <2>1 DEF Courses
    <3>2. Rest(u) \in SUBSET S
      BY <1>0, <2>1, RestIs
    <3>3. h[Rest(u)] \in G[Rest(u)]
      BY <1>5, <3>2 DEF Courses
    <3> QED BY <1>3, <2>1, <3>1, <3>3
  <2>2. h = [u \in SUBSET S |-> h[u]] /\ h[{}] = s
    BY <1>5 DEF Courses
  <2>3. \A u \in SUBSET S :
          h[u] = IF u = {} THEN s ELSE AddAddress(h[Rest(u)], Pick(u), until, willing)
    BY <2>1, <2>2
  <2> HIDE DEF F, G
  <2> QED BY <2>2, <2>3, Zenon
<1>7. PICK g : g = CHOOSE f : R(f)
  OBVIOUS
<1>8. R(g)
  BY <1>6, <1>7
<1>9. t = g[S]
  BY <1>7 DEF AddAddresses
<1>10. \A u \in SUBSET S :
         g[u] = IF u = {} THEN s ELSE AddAddress(g[Rest(u)], Pick(u), until, willing)
  BY <1>8, Zenon
<1> HIDE DEF R
<1>11. g[{}] \in G[{}]
  BY <1>1, <1>10
<1>12. ASSUME NEW u \in SUBSET S, u # {}, g[Rest(u)] \in G[Rest(u)]
       PROVE  g[u] \in G[u]
  <2>1. g[u] = AddAddress(g[Rest(u)], Pick(u), until, willing)
    BY <1>10, <1>12
  <2> QED BY <1>2, <1>12, <2>1
<1>13. g[S] \in G[S]
  BY <1>0, <1>11, <1>12, FoldReaches
<1>14. t \in Raw /\ Added(s, S, t)
  BY <1>9, <1>13 DEF G
<1> QED BY <1>14

(* Where t is s with another entry of a and others in the kernel. *)
Reset(s, t, a, v, ka, kr) ==
  /\ t \in Raw /\ AddrFrame(s, t) /\ t.kaddrs = ka /\ t.krules = kr
  /\ t.ksubnets = s.ksubnets
  /\ DOMAIN t.addrs = DOMAIN s.addrs /\ t.addrs[a] = v
  /\ \A x \in DOMAIN s.addrs : x # a => t.addrs[x] = s.addrs[x]

(* An entry is set and the kernel with it. *)
LEMMA ResetIs ==
  ASSUME NEW s \in Raw, NEW a \in DOMAIN s.addrs, NEW v \in AddrEntry,
         NEW ka \in KAddrs, NEW kr \in KRules,
         NEW f1, NEW f2, NEW f \in AddrMap, DOMAIN f = DOMAIN s.addrs, f[a] = v,
         \A x \in DOMAIN s.addrs : x # a => f[x] = s.addrs[x],
         NEW t, \/ t = [s EXCEPT !.addrs = f1, !.addrs = f2, !.addrs = f,
                                 !.kaddrs = ka, !.krules = kr]
                \/ t = [s EXCEPT !.addrs = f1, !.addrs = f, !.kaddrs = ka, !.krules = kr]
  PROVE  Reset(s, t, a, v, ka, kr)
<1>1. PICK t1 : t1 = [s EXCEPT !.addrs = f1]
  OBVIOUS
<1>2. PICK t2 : t2 = [t1 EXCEPT !.addrs = f2] \/ t2 = t1
  OBVIOUS
<1>3. PICK t3 : t3 = [t1 EXCEPT !.addrs = f]
  OBVIOUS
<1>4. t3 = [s EXCEPT !.addrs = f]
  BY <1>1, <1>3 DEF Raw
<1>5. t = [t3 EXCEPT !.kaddrs = ka, !.krules = kr]
  <2>1. CASE t = [s EXCEPT !.addrs = f1, !.addrs = f2, !.addrs = f,
                           !.kaddrs = ka, !.krules = kr]
    <3>1. PICK t5 : t5 = [t1 EXCEPT !.addrs = f2]
      OBVIOUS
    <3>2. [t5 EXCEPT !.addrs = f] = [s EXCEPT !.addrs = f]
      BY <1>1, <3>1 DEF Raw
    <3> QED BY <1>1, <1>4, <2>1, <3>1, <3>2
  <2>2. CASE t = [s EXCEPT !.addrs = f1, !.addrs = f, !.kaddrs = ka, !.krules = kr]
    BY <1>1, <1>3, <2>2
  <2> QED BY <2>1, <2>2
<1>7. t = [s EXCEPT !.addrs = f, !.kaddrs = ka, !.krules = kr]
  BY <1>4, <1>5
<1>8. t \in Raw
  BY <1>7, Zenon DEF Raw, KAddrs, KRules
<1>9. /\ AddrFrame(s, t) /\ t.kaddrs = ka /\ t.krules = kr
      /\ t.addrs = f /\ t.ksubnets = s.ksubnets
  BY <1>7, SMT DEF Raw, AddrFrame
<1> QED BY <1>8, <1>9 DEF Reset

(* interface_ip_set_enabled takes an address from the kernel. *)
LEMMA DisableAddressIs ==
  ASSUME NEW s \in Raw, NEW a \in DOMAIN s.addrs, NEW t, t = DisableAddress(s, a)
  PROVE  \E v \in AddrEntry, d \in Raw :
           /\ ~v.enabled
           /\ AddrFrame(s, d)
           /\ d.ksubnets = s.ksubnets \ {SubnetRoute(a, s.addrs[a].subnet)}
           /\ DOMAIN d.addrs = DOMAIN s.addrs
           /\ \A x \in DOMAIN s.addrs : x # a => d.addrs[x] = s.addrs[x]
           /\ Reset(d, t, a, v, s.kaddrs \ {<<a, s.dev>>},
                    s.krules \ AddrRule(a, s.addrs[a].policy))
<1>1. PICK d : d = DelSubnetRoute(s, a)
  OBVIOUS
<1>2. /\ d \in Raw /\ AddrFrame(s, d)
      /\ d.kaddrs = s.kaddrs /\ d.krules = s.krules
      /\ d.ksubnets = s.ksubnets \ {SubnetRoute(a, s.addrs[a].subnet)}
      /\ d.addrs = [s.addrs EXCEPT ![a] = [s.addrs[a] EXCEPT !.subnet = NoSubnet]]
  BY <1>1, DelSubnetRouteIs
<1>3. /\ d.addrs \in AddrMap /\ DOMAIN d.addrs = DOMAIN s.addrs
      /\ \A x \in DOMAIN s.addrs : x # a => d.addrs[x] = s.addrs[x]
  BY <1>2 DEF Raw
<1>4. a \in DOMAIN d.addrs /\ d.addrs[a] \in AddrEntry
  BY <1>2, <1>3, AddressIs
<1> DEFINE v1 == [d.addrs[a] EXCEPT !.enabled = FALSE]
           f1 == [d.addrs EXCEPT ![a] = v1]
           v == [f1[a] EXCEPT !.missed = FALSE]
           f == [f1 EXCEPT ![a] = v]
           ka == d.kaddrs \ {<<a, s.dev>>}
           kr == d.krules \ AddrRule(a, s.addrs[a].policy)
<1>5. t = [d EXCEPT !.addrs = f1, !.addrs = f, !.kaddrs = ka, !.krules = kr]
  BY <1>1 DEF DisableAddress
<1>6. v1 \in AddrEntry /\ ~v1.enabled
  BY <1>4 DEF AddrEntry
<1>7. /\ f1 \in AddrMap /\ DOMAIN f1 = DOMAIN d.addrs /\ f1[a] = v1
      /\ \A x \in DOMAIN d.addrs : x # a => f1[x] = d.addrs[x]
  <2> HIDE DEF v1
  <2> QED BY <1>3, <1>4, <1>6, ExceptIs
<1> HIDE DEF v1, f1
<1>8. v \in AddrEntry /\ ~v.enabled
  BY <1>6, <1>7 DEF AddrEntry
<1>9. /\ f \in AddrMap /\ DOMAIN f = DOMAIN f1 /\ f[a] = v
      /\ \A x \in DOMAIN f1 : x # a => f[x] = f1[x]
  <2> HIDE DEF v
  <2> QED BY <1>4, <1>7, <1>8, ExceptIs
<1>10. ka \in KAddrs /\ kr \in KRules
  BY <1>2, KIs DEF KAddrs, KRules
<1>11. Reset(d, t, a, v, ka, kr)
  <2> HIDE DEF v, f, ka, kr
  <2>1. \A x \in DOMAIN d.addrs : x # a => f[x] = d.addrs[x]
    BY <1>7, <1>9
  <2> QED BY <1>2, <1>4, <1>5, <1>7, <1>8, <1>9, <1>10, <2>1, ResetIs, ZenonT(60)
<1> QED BY <1>2, <1>3, <1>8, <1>11

(* ... which stays right. *)
LEMMA DisableAddressKeeps ==
  ASSUME NEW s \in Raw, AddrInv(s), NEW a \in OwnOf(s), NEW t, t = DisableAddress(s, a)
  PROVE  /\ t \in Raw /\ AddrFrame(s, t) /\ AddrInv(t) /\ (RuleInv(s) => RuleInv(t))
         /\ DOMAIN t.addrs = DOMAIN s.addrs /\ ~t.addrs[a].enabled
         /\ \A x \in DOMAIN s.addrs : x # a => t.addrs[x] = s.addrs[x]
<1>0. a \in DOMAIN s.addrs
  BY DEF OwnOf
<1> DEFINE ka == s.kaddrs \ {<<a, s.dev>>}
           kr == s.krules \ AddrRule(a, s.addrs[a].policy)
<1>1. PICK v \in AddrEntry, d \in Raw :
        /\ ~v.enabled /\ AddrFrame(s, d)
        /\ d.ksubnets = s.ksubnets \ {SubnetRoute(a, s.addrs[a].subnet)}
        /\ DOMAIN d.addrs = DOMAIN s.addrs
        /\ \A x \in DOMAIN s.addrs : x # a => d.addrs[x] = s.addrs[x]
        /\ Reset(d, t, a, v, ka, kr)
  BY <1>0, DisableAddressIs
<1>2. /\ t \in Raw /\ t.kaddrs = ka /\ t.krules = kr /\ t.ksubnets = d.ksubnets
      /\ DOMAIN t.addrs = DOMAIN s.addrs /\ t.addrs[a] = v
      /\ \A x \in DOMAIN s.addrs : x # a => t.addrs[x] = s.addrs[x]
  BY <1>1 DEF Reset
<1>3. AddrFrame(s, t) /\ t.dev = s.dev /\ OwnOf(t) = OwnOf(s)
  BY <1>1, <1>2 DEF Reset, AddrFrame, OwnOf
<1>4. ASSUME NEW k \in t.kaddrs
      PROVE  /\ k[1] \in OwnOf(t) /\ t.addrs[k[1]].enabled
             /\ k = <<k[1], t.dev>>
  <2>1. k[1] \in OwnOf(s) /\ s.addrs[k[1]].enabled /\ k = <<k[1], s.dev>> /\ k[1] # a
    BY <1>2 DEF AddrInv
  <2> QED BY <1>2, <1>3, <2>1 DEF OwnOf
<1>5. ASSUME NEW k \in t.ksubnets
      PROVE  /\ k.addr \in OwnOf(t) /\ t.addrs[k.addr].enabled
             /\ k = SubnetRoute(k.addr, t.addrs[k.addr].subnet)
  <2>1. /\ k.addr \in OwnOf(s) /\ s.addrs[k.addr].enabled /\ k.addr # a
        /\ k = SubnetRoute(k.addr, s.addrs[k.addr].subnet)
    BY <1>1, <1>2 DEF AddrInv
  <2> QED BY <1>2, <1>3, <2>1 DEF OwnOf
<1>6. ASSUME NEW x \in OwnOf(t) PROVE Installed(t, x)
  <2>1. CASE x = a
    BY <1>1, <1>2, <2>1 DEF Installed
  <2>2. CASE x # a
    <3>1. Installed(s, x) /\ t.addrs[x] = s.addrs[x]
      BY <1>2, <1>3, <2>2 DEF AddrInv, Installed, OwnOf
    <3>2. \A k \in AddrRule(x, s.addrs[x].policy) : k \notin AddrRule(a, s.addrs[a].policy)
      BY <2>2, RuleIs
    <3> QED BY <1>2, <1>3, <2>2, <3>1, <3>2 DEF Installed
  <2> QED BY <2>1, <2>2
<1>7. AddrInv(t)
  BY <1>4, <1>5, <1>6 DEF AddrInv, Installed
<1>8. ASSUME RuleInv(s), NEW k \in t.krules
      PROVE  /\ k.addr \in DOMAIN t.addrs /\ t.addrs[k.addr].enabled
             /\ k \in AddrRule(k.addr, t.addrs[k.addr].policy)
  <2>1. /\ k.addr \in DOMAIN s.addrs /\ s.addrs[k.addr].enabled /\ k.addr # a
        /\ k \in AddrRule(k.addr, s.addrs[k.addr].policy)
    BY <1>2, <1>8 DEF RuleInv
  <2> QED BY <1>2, <2>1
<1> QED BY <1>1, <1>2, <1>3, <1>7, <1>8 DEF RuleInv

(* The entry of an address that is enabled; its subnet route comes last. *)
EnabledBy(s, a, willing, t, v, m) ==
  /\ v.enabled /\ v.policy = s.info.table /\ (v.missed <=> a \notin willing)
  /\ Reset(s, m, a, v, s.kaddrs \cup Gone(a \in willing, <<a, s.dev>>),
           s.krules \cup AddrRule(a, s.info.table))
  /\ WithDefault(s) => t = AddSubnetRoute(m, a)
  /\ ~WithDefault(s) => t = m

(* interface_ip_set_enabled gives an address to the kernel. *)
LEMMA EnableAddressIs ==
  ASSUME NEW s \in Raw, NEW a \in DOMAIN s.addrs, NEW willing,
         NEW t, t = EnableAddress(s, a, willing)
  PROVE  \E v \in AddrEntry, m \in Raw : EnabledBy(s, a, willing, t, v, m)
<1> DEFINE v1 == [s.addrs[a] EXCEPT !.enabled = TRUE]
           f1 == [s.addrs EXCEPT ![a] = v1]
           v2 == [f1[a] EXCEPT !.policy = s.info.table]
           f2 == [f1 EXCEPT ![a] = v2]
           v == [f2[a] EXCEPT !.missed = a \notin willing]
           f == [f2 EXCEPT ![a] = v]
           ka == IF a \in willing THEN s.kaddrs \cup {<<a, s.dev>>} ELSE s.kaddrs
           kr == s.krules \cup AddrRule(a, s.info.table)
<1>1. PICK m : m = [s EXCEPT !.addrs = f1, !.addrs = f2, !.addrs = f, !.kaddrs = ka, !.krules = kr]
  OBVIOUS
<1>2. t = IF WithDefault(s) THEN AddSubnetRoute(m, a) ELSE m
  BY <1>1 DEF EnableAddress
<1>3. s.addrs \in AddrMap /\ s.addrs[a] \in AddrEntry /\ a \in Addrs /\ s.info.table \in Nat
  BY AddressIs, InfoIs DEF Raw
<1>4. v1 \in AddrEntry /\ v1.enabled
  BY <1>3 DEF AddrEntry
<1>5. /\ f1 \in AddrMap /\ DOMAIN f1 = DOMAIN s.addrs /\ f1[a] = v1
      /\ \A x \in DOMAIN s.addrs : x # a => f1[x] = s.addrs[x]
  <2> HIDE DEF v1
  <2> QED BY <1>3, <1>4, ExceptIs
<1> HIDE DEF v1, f1
<1>6. v2 \in AddrEntry /\ v2.enabled /\ v2.policy = s.info.table
  BY <1>3, <1>4, <1>5 DEF AddrEntry
<1>7. /\ f2 \in AddrMap /\ DOMAIN f2 = DOMAIN f1 /\ f2[a] = v2
      /\ \A x \in DOMAIN f1 : x # a => f2[x] = f1[x]
  <2> HIDE DEF v2
  <2> QED BY <1>5, <1>6, ExceptIs
<1> HIDE DEF v2, f2
<1>8. v \in AddrEntry /\ v.enabled /\ v.policy = s.info.table /\ v.missed = (a \notin willing)
  BY <1>6, <1>7 DEF AddrEntry
<1>9. /\ f \in AddrMap /\ DOMAIN f = DOMAIN f2 /\ f[a] = v
      /\ \A x \in DOMAIN f2 : x # a => f[x] = f2[x]
  <2> HIDE DEF v
  <2> QED BY <1>5, <1>7, <1>8, ExceptIs
<1>10. ka \in KAddrs /\ kr \in KRules
  <2>1. s.dev \in DeviceOrNone
    BY DEF Raw
  <2>2. AddrRule(a, s.info.table) \subseteq [addr : Addrs, table : Nat]
    BY <1>3 DEF AddrRule
  <2> QED BY <1>3, <2>1, <2>2, KIs DEF KAddrs, KRules
<1>11. Reset(s, m, a, v, ka, kr)
  <2> HIDE DEF v, f, ka, kr
  <2>1. \A x \in DOMAIN s.addrs : x # a => f[x] = s.addrs[x]
    BY <1>5, <1>7, <1>9
  <2>2. DOMAIN f = DOMAIN s.addrs /\ f[a] = v /\ f \in AddrMap
    BY <1>5, <1>7, <1>9
  <2> QED BY <1>1, <1>8, <1>10, <2>1, <2>2, ResetIs
<1>12. ka = s.kaddrs \cup Gone(a \in willing, <<a, s.dev>>)
  BY DEF Gone
<1> HIDE DEF ka, kr, v, f
<1>13. EnabledBy(s, a, willing, t, v, m)
  BY <1>2, <1>8, <1>11, <1>12 DEF kr, EnabledBy
<1>14. m \in Raw
  BY <1>11 DEF Reset
<1> QED BY <1>8, <1>13, <1>14

(* ... which stays right. *)
LEMMA EnableAddressKeeps ==
  ASSUME NEW s \in Raw, AddrInv(s), NEW a \in OwnOf(s), ~s.addrs[a].enabled, NEW willing,
         NEW t, t = EnableAddress(s, a, willing)
  PROVE  /\ t \in Raw /\ AddrFrame(s, t) /\ AddrInv(t) /\ (RuleInv(s) => RuleInv(t))
         /\ DOMAIN t.addrs = DOMAIN s.addrs
         /\ t.addrs[a].enabled /\ t.addrs[a].policy = s.info.table
         /\ \A x \in DOMAIN s.addrs : x # a => t.addrs[x] = s.addrs[x]
<1>0. a \in DOMAIN s.addrs
  BY DEF OwnOf
<1>13. PICK v \in AddrEntry, m \in Raw : EnabledBy(s, a, willing, t, v, m)
  BY <1>0, EnableAddressIs
<1>1. /\ v.enabled /\ v.policy = s.info.table /\ (v.missed <=> a \notin willing)
      /\ Reset(s, m, a, v, s.kaddrs \cup Gone(a \in willing, <<a, s.dev>>),
               s.krules \cup AddrRule(a, s.info.table))
      /\ WithDefault(s) => t = AddSubnetRoute(m, a)
      /\ ~WithDefault(s) => t = m
  BY <1>13 DEF EnabledBy
<1>2. /\ m \in Raw /\ m.kaddrs = s.kaddrs \cup Gone(a \in willing, <<a, s.dev>>)
      /\ m.krules = s.krules \cup AddrRule(a, s.info.table) /\ m.ksubnets = s.ksubnets
      /\ DOMAIN m.addrs = DOMAIN s.addrs /\ m.addrs[a] = v /\ AddrFrame(s, m)
      /\ \A x \in DOMAIN s.addrs : x # a => m.addrs[x] = s.addrs[x]
  BY <1>1 DEF Reset
<1>3. m.dev = s.dev /\ OwnOf(m) = OwnOf(s) /\ m.info = s.info
  BY <1>2 DEF AddrFrame, OwnOf
<1>4. ASSUME NEW k \in m.kaddrs
      PROVE  /\ k[1] \in OwnOf(m) /\ m.addrs[k[1]].enabled
             /\ k = <<k[1], m.dev>>
  <2>1. CASE k \in s.kaddrs
    <3>1. k[1] \in OwnOf(s) /\ s.addrs[k[1]].enabled /\ k = <<k[1], s.dev>> /\ k[1] # a
      BY <2>1 DEF AddrInv
    <3> QED BY <1>2, <1>3, <3>1 DEF OwnOf
  <2>2. CASE k = <<a, s.dev>>
    BY <1>1, <1>2, <1>3, <2>2
  <2> QED BY <1>2, <2>1, <2>2 DEF Gone
<1>5. ASSUME NEW k \in m.ksubnets
      PROVE  /\ k.addr \in OwnOf(m) /\ m.addrs[k.addr].enabled /\ k.addr # a
             /\ k = SubnetRoute(k.addr, m.addrs[k.addr].subnet)
  <2>1. /\ k.addr \in OwnOf(s) /\ s.addrs[k.addr].enabled /\ k.addr # a
        /\ k = SubnetRoute(k.addr, s.addrs[k.addr].subnet)
    BY <1>2 DEF AddrInv
  <2> QED BY <1>2, <1>3, <2>1 DEF OwnOf
<1>6. ASSUME NEW x \in OwnOf(m) PROVE Installed(m, x)
  <2>1. CASE x = a
    BY <1>1, <1>2, <1>3, <2>1 DEF Installed, Gone
  <2>2. CASE x # a
    <3>1. Installed(s, x) /\ m.addrs[x] = s.addrs[x]
      BY <1>2, <1>3, <2>2 DEF AddrInv, Installed, OwnOf
    <3> QED BY <1>2, <1>3, <3>1 DEF Installed
  <2> QED BY <2>1, <2>2
<1>7. AddrInv(m) /\ NoSubnetOf(m, a)
  BY <1>4, <1>5, <1>6 DEF AddrInv, Installed, NoSubnetOf
<1>8. RuleInv(s) => RuleInv(m)
  <2> SUFFICES ASSUME RuleInv(s), NEW k \in m.krules
               PROVE  /\ k.addr \in DOMAIN m.addrs /\ m.addrs[k.addr].enabled
                      /\ k \in AddrRule(k.addr, m.addrs[k.addr].policy)
    BY DEF RuleInv
  <2>1. CASE k \in s.krules
    <3>1. /\ k.addr \in DOMAIN s.addrs /\ s.addrs[k.addr].enabled /\ k.addr # a
          /\ k \in AddrRule(k.addr, s.addrs[k.addr].policy)
      BY <2>1 DEF RuleInv
    <3> QED BY <1>2, <3>1
  <2>2. CASE k \in AddrRule(a, s.info.table)
    <3>1. k.addr = a
      BY <2>2, RuleIs
    <3> QED BY <1>0, <1>1, <1>2, <2>2, <3>1
  <2> QED BY <1>2, <2>1, <2>2
<1>9. CASE ~WithDefault(s)
  <2>1. t = m
    BY <1>1, <1>9
  <2> QED BY <1>1, <1>2, <1>7, <1>8, <2>1
<1>10. CASE WithDefault(s)
  <2>1. t = AddSubnetRoute(m, a) /\ a \in OwnOf(m) /\ m.addrs[a].enabled
    BY <1>1, <1>2, <1>3, <1>10
  <2>2. /\ t \in Raw /\ AddrFrame(m, t) /\ AddrInv(t)
        /\ RuleInv(m) => RuleInv(t)
        /\ DOMAIN t.addrs = DOMAIN m.addrs
        /\ \A x \in DOMAIN t.addrs :
             /\ t.addrs[x].enabled = m.addrs[x].enabled
             /\ t.addrs[x].policy = m.addrs[x].policy
             /\ x # a => t.addrs[x] = m.addrs[x]
    BY <1>2, <1>7, <2>1, AddSubnetRouteKeeps
  <2>3. AddrFrame(s, t)
    BY <1>2, <2>2 DEF AddrFrame
  <2> QED BY <1>0, <1>1, <1>2, <1>8, <2>2, <2>3
<1> QED BY <1>9, <1>10

(* The loop of interface_ip_set_enabled over the addresses. *)
SwitchAddress(s, a, enabled, willing) ==
  IF enabled THEN EnableAddress(s, a, willing) ELSE DisableAddress(s, a)
SwitchAddresses(s, S, enabled, willing) ==
  LET iter[u \in SUBSET S] ==
        IF u = {} THEN s ELSE SwitchAddress(iter[Rest(u)], Pick(u), enabled, willing)
  IN  iter[S]

(* After those in u. *)
Turned(s, u, enabled, t) ==
  /\ AddrFrame(s, t) /\ AddrInv(t) /\ (RuleInv(s) => RuleInv(t))
  /\ DOMAIN t.addrs = DOMAIN s.addrs
  /\ \A x \in u : /\ t.addrs[x].enabled = enabled
                  /\ enabled => t.addrs[x].policy = s.info.table
  /\ \A x \in DOMAIN s.addrs \ u : t.addrs[x] = s.addrs[x]

(* All addresses of the protocol, whatever the order. *)
LEMMA SwitchAddressesIs ==
  ASSUME NEW s \in Raw, AddrInv(s), NEW enabled \in BOOLEAN, NEW willing,
         NEW S \in SUBSET OwnOf(s), \A x \in S : s.addrs[x].enabled # enabled,
         NEW t, t = SwitchAddresses(s, S, enabled, willing)
  PROVE  t \in Raw /\ Turned(s, S, enabled, t)
<1>0. IsFiniteSet(S)
  <2>1. s.addrs \in AddrMap
    BY DEF Raw
  <2>2. S \subseteq Addrs
    BY <2>1, AddrMapIs DEF OwnOf
  <2> QED BY <2>2, FS_Subset, IpAssumption
<1> DEFINE G == [u \in SUBSET S |-> {c \in Raw : Turned(s, u, enabled, c)}]
           All == UNION {G[u] : u \in SUBSET S}
           F == [x \in S |-> [c \in All |-> SwitchAddress(c, x, enabled, willing)]]
           R(f) == f = [u \in SUBSET S |->
                          IF u = {} THEN s ELSE SwitchAddress(f[Rest(u)], Pick(u), enabled, willing)]
<1>1. s \in G[{}]
  <2>1. Turned(s, {}, enabled, s)
    BY DEF Turned, AddrFrame
  <2> QED BY <2>1
<1>2. ASSUME NEW u \in SUBSET S, u # {}, NEW c \in G[Rest(u)],
             NEW d, d = SwitchAddress(c, Pick(u), enabled, willing)
      PROVE  d \in G[u]
  <2>1. /\ Pick(u) \in u /\ Rest(u) \in SUBSET S
        /\ Rest(u) = u \ {Pick(u)}
    BY <1>0, <1>2, RestIs DEF Rest
  <2>2. c \in Raw /\ Turned(s, Rest(u), enabled, c)
    BY <2>1
  <2>3. d \in Raw /\ Turned(s, u, enabled, d)
    <3> DEFINE x == Pick(u)
    <3>1. /\ x \in OwnOf(c) /\ x \notin Rest(u) /\ x \in S
          /\ c.addrs[x].enabled # enabled /\ c.info = s.info
      BY <2>1, <2>2 DEF Turned, OwnOf, AddrFrame
    <3> HIDE DEF x
    <3>2. /\ d \in Raw /\ AddrFrame(c, d) /\ AddrInv(d) /\ (RuleInv(c) => RuleInv(d))
          /\ DOMAIN d.addrs = DOMAIN c.addrs /\ d.addrs[x].enabled = enabled
          /\ enabled => d.addrs[x].policy = s.info.table
          /\ \A y \in DOMAIN c.addrs : y # x => d.addrs[y] = c.addrs[y]
      <4>0. AddrInv(c)
        BY <2>2 DEF Turned
      <4>1. d.addrs[x] \in AddrEntry => d.addrs[x].enabled \in BOOLEAN
        BY DEF AddrEntry
      <4>2. CASE enabled
        <5>1. d = EnableAddress(c, x, willing) /\ ~c.addrs[x].enabled
          BY <1>2, <3>1, <4>2 DEF SwitchAddress, x
        <5>2. /\ d \in Raw /\ AddrFrame(c, d) /\ AddrInv(d) /\ (RuleInv(c) => RuleInv(d))
              /\ DOMAIN d.addrs = DOMAIN c.addrs
              /\ d.addrs[x].enabled /\ d.addrs[x].policy = c.info.table
              /\ \A y \in DOMAIN c.addrs : y # x => d.addrs[y] = c.addrs[y]
          BY <2>2, <3>1, <4>0, <5>1, EnableAddressKeeps
        <5>3. x \in DOMAIN d.addrs
          BY <3>1, <5>2 DEF OwnOf
        <5> QED BY <3>1, <4>1, <4>2, <5>2, <5>3, AddressIs
      <4>3. CASE ~enabled
        <5>1. d = DisableAddress(c, x)
          BY <1>2, <4>3 DEF SwitchAddress, x
        <5>2. /\ d \in Raw /\ AddrFrame(c, d) /\ AddrInv(d) /\ (RuleInv(c) => RuleInv(d))
              /\ DOMAIN d.addrs = DOMAIN c.addrs /\ ~d.addrs[x].enabled
              /\ \A y \in DOMAIN c.addrs : y # x => d.addrs[y] = c.addrs[y]
          BY <2>2, <3>1, <4>0, <5>1, DisableAddressKeeps
        <5>3. x \in DOMAIN d.addrs
          BY <3>1, <5>2 DEF OwnOf
        <5> QED BY <4>1, <4>3, <5>2, <5>3, AddressIs
      <4> QED BY <4>2, <4>3
    <3>3. AddrFrame(s, d) /\ DOMAIN d.addrs = DOMAIN s.addrs
      BY <2>2, <3>2 DEF Turned, AddrFrame
    <3>4. \A y \in u : /\ d.addrs[y].enabled = enabled
                       /\ enabled => d.addrs[y].policy = s.info.table
      <4> SUFFICES ASSUME NEW y \in u
                   PROVE  /\ d.addrs[y].enabled = enabled
                          /\ enabled => d.addrs[y].policy = s.info.table
        OBVIOUS
      <4>1. CASE y = x
        BY <3>2, <4>1
      <4>2. CASE y # x
        <5>1. y \in Rest(u) /\ y \in DOMAIN c.addrs
          BY <2>1, <2>2, <4>2 DEF x, Turned, OwnOf
        <5> QED BY <2>2, <3>2, <4>2, <5>1 DEF Turned
      <4> QED BY <4>1, <4>2
    <3>5. \A y \in DOMAIN s.addrs \ u : d.addrs[y] = s.addrs[y]
      BY <2>1, <2>2, <3>2 DEF Turned, x
    <3> QED BY <2>2, <3>2, <3>3, <3>4, <3>5 DEF Turned
  <2> QED BY <2>3
<1> HIDE DEF G
<1>3. ASSUME NEW u \in SUBSET S, u # {}, NEW c \in G[Rest(u)]
      PROVE  F[Pick(u)][c] = SwitchAddress(c, Pick(u), enabled, willing) /\ F[Pick(u)][c] \in G[u]
  <2>1. Pick(u) \in S /\ Rest(u) \in SUBSET S
    BY <1>0, <1>3, RestIs
  <2>2. c \in All
    BY <2>1
  <2>3. F[Pick(u)][c] = SwitchAddress(c, Pick(u), enabled, willing)
    BY <2>1, <2>2
  <2> QED BY <1>2, <1>3, <2>3
<1> HIDE DEF F
<1>4. Courses(S, G, F, s) # {}
  BY <1>0, <1>1, <1>3, FoldRuns
<1>5. PICK h : h \in Courses(S, G, F, s)
  BY <1>4
<1>6. R(h)
  <2>1. ASSUME NEW u \in SUBSET S, u # {}
        PROVE  h[u] = SwitchAddress(h[Rest(u)], Pick(u), enabled, willing)
    <3>1. h[u] = F[Pick(u)][h[Rest(u)]]
      BY <1>5, <2>1 DEF Courses
    <3>2. Rest(u) \in SUBSET S
      BY <1>0, <2>1, RestIs
    <3>3. h[Rest(u)] \in G[Rest(u)]
      BY <1>5, <3>2 DEF Courses
    <3> QED BY <1>3, <2>1, <3>1, <3>3
  <2>2. h = [u \in SUBSET S |-> h[u]] /\ h[{}] = s
    BY <1>5 DEF Courses
  <2>3. \A u \in SUBSET S :
          h[u] = IF u = {} THEN s ELSE SwitchAddress(h[Rest(u)], Pick(u), enabled, willing)
    BY <2>1, <2>2
  <2> HIDE DEF F, G
  <2> QED BY <2>2, <2>3, Zenon
<1>7. PICK g : g = CHOOSE f : R(f)
  OBVIOUS
<1>8. R(g)
  BY <1>6, <1>7
<1>9. t = g[S]
  BY <1>7 DEF SwitchAddresses
<1>10. \A u \in SUBSET S :
         g[u] = IF u = {} THEN s ELSE SwitchAddress(g[Rest(u)], Pick(u), enabled, willing)
  BY <1>8, Zenon
<1> HIDE DEF R
<1>11. g[{}] \in G[{}]
  BY <1>1, <1>10
<1>12. ASSUME NEW u \in SUBSET S, u # {}, g[Rest(u)] \in G[Rest(u)]
       PROVE  g[u] \in G[u]
  <2>1. g[u] = SwitchAddress(g[Rest(u)], Pick(u), enabled, willing)
    BY <1>10, <1>12
  <2> QED BY <1>2, <1>12, <2>1
<1>13. g[S] \in G[S]
  BY <1>0, <1>11, <1>12, FoldReaches
<1>14. t \in Raw /\ Turned(s, S, enabled, t)
  BY <1>9, <1>13 DEF G
<1> QED BY <1>14

(***************************************************************************)
(* Routes                                                                  *)
(***************************************************************************)

KRoutes == SUBSET [to : Targets, metric : Nat, table : Nat, gw : Gateways,
                   dev : DeviceOrNone]
Dests(w) == IF w = "proto" THEN ProtoRoutes ELSE ConfigRoutes
Other(w) == IF w = "proto" THEN "config" ELSE "proto"

(* What the operators on routes leave alone. *)
RouteFrame(s, t) ==
  /\ t.state = s.state /\ t.dev = s.dev /\ t.info = s.info /\ t.on = s.on
  /\ t.policy = s.policy /\ t.addrs = s.addrs
  /\ t.kaddrs = s.kaddrs /\ t.krules = s.krules /\ t.ksubnets = s.ksubnets
  /\ t.hosts = s.hosts /\ t.khosts = s.khosts /\ t.kpolicy = s.kpolicy

(* The two lists of routes. *)
LEMMA ListIs ==
  ASSUME NEW s \in Raw, NEW w \in Lists
  PROVE  /\ s[w] \in SUBSET RoutesTo(Dests(w)) /\ s.kroutes \in KRoutes
         /\ s["proto"] = s.proto /\ s["config"] = s.config
         /\ s.proto \cup s.config = s[w] \cup s[Other(w)]
         /\ Other(w) \in Lists /\ Other(Other(w)) = w
<1>1. s.proto \in SUBSET RoutesTo(ProtoRoutes) /\ s.config \in SUBSET RoutesTo(ConfigRoutes)
      /\ s.kroutes \in KRoutes
  BY DEF Raw, KRoutes
<1>2. s["proto"] = s.proto /\ s["config"] = s.config
  OBVIOUS
<1>3. CASE w = "proto"
  BY <1>1, <1>2, <1>3 DEF Dests, Other, Lists
<1>4. CASE w = "config"
  BY <1>1, <1>2, <1>4 DEF Dests, Other, Lists
<1> QED BY <1>3, <1>4 DEF Lists

WithList(s, w, l) == [s EXCEPT ![w] = l]
WithKernel(s, k) == [s EXCEPT !.kroutes = k]

(* Another list. *)
LEMMA SetListIs ==
  ASSUME NEW s \in Raw, NEW w \in Lists, NEW l \in SUBSET RoutesTo(Dests(w)),
         NEW t, t = WithList(s, w, l)
  PROVE  /\ t \in Raw /\ RouteFrame(s, t)
         /\ t[w] = l /\ t[Other(w)] = s[Other(w)] /\ t.kroutes = s.kroutes
<1>1. CASE w = "proto"
  <2>1. t = [s EXCEPT !.proto = l] /\ l \in SUBSET RoutesTo(ProtoRoutes)
    BY <1>1 DEF Dests, WithList
  <2>2. t \in Raw
    BY <2>1, ZenonT(60) DEF Raw
  <2>3. /\ RouteFrame(s, t) /\ t.proto = l /\ t.config = s.config
        /\ t.kroutes = s.kroutes
    BY <2>1, SMT DEF Raw, RouteFrame
  <2> QED BY <1>1, <2>2, <2>3 DEF Other
<1>2. CASE w = "config"
  <2>1. t = [s EXCEPT !.config = l] /\ l \in SUBSET RoutesTo(ConfigRoutes)
    BY <1>2 DEF Dests, WithList
  <2>2. t \in Raw
    BY <2>1, ZenonT(60) DEF Raw
  <2>3. /\ RouteFrame(s, t) /\ t.config = l /\ t.proto = s.proto
        /\ t.kroutes = s.kroutes
    BY <2>1, SMT DEF Raw, RouteFrame
  <2> QED BY <1>2, <2>2, <2>3 DEF Other
<1> QED BY <1>1, <1>2 DEF Lists

(* Another table of the kernel. *)
LEMMA KernelRoutesAre ==
  ASSUME NEW s \in Raw, NEW k \in KRoutes, NEW t, t = WithKernel(s, k)
  PROVE  /\ t \in Raw /\ RouteFrame(s, t) /\ t.kroutes = k
         /\ \A w \in Lists : t[w] = s[w]
<1>1. t \in Raw
  BY Zenon DEF Raw, KRoutes, WithKernel
<1>2. RouteFrame(s, t) /\ t.kroutes = k /\ t.proto = s.proto /\ t.config = s.config
  BY SMT DEF Raw, RouteFrame, WithKernel
<1> QED BY <1>1, <1>2 DEF Lists

(* What the kernel has of a route. *)
LEMMA KernelRouteIs ==
  ASSUME NEW s, NEW r, NEW k, k = KernelRoute(s, r)
  PROVE  /\ k.to = r.to /\ k.metric = r.metric /\ k.table = r.table
         /\ k.gw = r.gw /\ k.dev = s.dev
BY DEF KernelRoute

(* Routes of the same target, metric and table are the same. *)
NoTwins(l) == \A r, q \in l : SameRoute(r, q) => r = q

(* RouteInv, part by part. *)
Known(s) ==
  \A k \in s.kroutes : \E r \in s.proto \cup s.config : r.enabled /\ k = KernelRoute(s, r)
There(s) ==
  \A r \in s.proto \cup s.config :
    r.enabled /\ ~r.failed => KernelRoute(s, r) \in s.kroutes
Tidy(l) == IsFiniteSet(l) /\ NoTwins(l)

(* RouteInv, taken apart. *)
LEMMA RouteInvIs ==
  ASSUME NEW s
  PROVE  RouteInv(s) <=> Known(s) /\ There(s) /\ \A w \in Lists : Tidy(s[w])
<1>1. s.kroutes \subseteq {KernelRoute(s, r) : r \in RouteTargets(s)} <=> Known(s)
  BY DEF Known, RouteTargets
<1>2. (\A r \in RouteTargets(s) : ~r.failed => KernelRoute(s, r) \in s.kroutes) <=> There(s)
  BY DEF There, RouteTargets
<1>3. (\A w \in Lists : IsFiniteSet(s[w])) /\ (\A w \in Lists : NoTwins(s[w]))
        <=> \A w \in Lists : Tidy(s[w])
  BY DEF Tidy
<1> QED BY <1>1, <1>2, <1>3 DEF RouteInv, NoTwins

(* What a change of the list w and of the kernel has to see to. *)
LEMMA RouteInvKept ==
  ASSUME NEW s \in Raw, RouteInv(s), NEW w \in Lists, NEW t \in Raw, RouteFrame(s, t),
         t[Other(w)] = s[Other(w)], Tidy(t[w]),
         \A k \in t.kroutes :
           \/ \E r \in t[w] : r.enabled /\ k = KernelRoute(s, r)
           \/ /\ k \in s.kroutes
              /\ \A r \in s[w] \ t[w] : r.enabled => k # KernelRoute(s, r),
         \A r \in t[w] : r.enabled /\ ~r.failed => KernelRoute(s, r) \in t.kroutes,
         \A k \in s.kroutes \ t.kroutes : \E r \in s[w] \cup t[w] : k.to = r.to
  PROVE  RouteInv(t)
<1>1. /\ s.proto \cup s.config = s[w] \cup s[Other(w)]
      /\ t.proto \cup t.config = t[w] \cup t[Other(w)]
      /\ s[w] \in SUBSET RoutesTo(Dests(w)) /\ t[w] \in SUBSET RoutesTo(Dests(w))
      /\ s[Other(w)] \in SUBSET RoutesTo(Dests(Other(w)))
  BY ListIs
<1>2. \A r : KernelRoute(t, r) = KernelRoute(s, r)
  BY DEF RouteFrame, KernelRoute
<1>3. Known(s) /\ There(s) /\ \A v \in Lists : Tidy(s[v])
  BY RouteInvIs
<1>4. ASSUME NEW k \in t.kroutes
      PROVE  \E r \in t[w] \cup t[Other(w)] : r.enabled /\ k = KernelRoute(s, r)
  <2>1. CASE /\ k \in s.kroutes
             /\ \A r \in s[w] \ t[w] : r.enabled => k # KernelRoute(s, r)
    <3>1. PICK r \in s[w] \cup s[Other(w)] : r.enabled /\ k = KernelRoute(s, r)
      BY <1>1, <1>3, <2>1 DEF Known
    <3> QED BY <2>1, <3>1
  <2> QED BY <2>1
<1>5. ASSUME NEW r \in t[Other(w)], r.enabled, ~r.failed
      PROVE  KernelRoute(s, r) \in t.kroutes
  <2>1. KernelRoute(s, r) \in s.kroutes
    BY <1>1, <1>3, <1>5 DEF There
  <2>2. ASSUME NEW q \in s[w] \cup t[w] PROVE KernelRoute(s, r).to # q.to
    <3>1. r.to \in Dests(Other(w)) /\ q.to \in Dests(w)
      BY <1>1 DEF RoutesTo
    <3>2. KernelRoute(s, r).to = r.to
      BY KernelRouteIs
    <3>3. Dests(w) \cap Dests(Other(w)) = {}
      BY IpAssumption DEF Dests, Other, Lists
    <3> QED BY <3>1, <3>2, <3>3
  <2> QED BY <2>1, <2>2
<1>6. Known(t)
  BY <1>1, <1>2, <1>4 DEF Known
<1>7. There(t)
  BY <1>1, <1>2, <1>5 DEF There
<1>8. \A v \in Lists : Tidy(t[v])
  <2>1. \A v \in Lists : v = w \/ v = Other(w)
    BY DEF Lists, Other
  <2>2. Tidy(s[Other(w)])
    BY <1>3, ListIs
  <2> QED BY <2>1, <2>2
<1> QED BY <1>6, <1>7, <1>8, RouteInvIs

(* A route less. *)
LEMMA FewerTidy ==
  ASSUME NEW l, Tidy(l), NEW m \in SUBSET l
  PROVE  Tidy(m)
BY FS_Subset DEF Tidy, NoTwins

(* interface_update_proto_route: a route that goes leaves the kernel right. *)
LEMMA DropRouteKeeps ==
  ASSUME NEW s \in Raw, RouteInv(s), NEW w \in Lists, NEW r \in s[w],
         NEW t, t = DropRoute(s, w, r)
  PROVE  /\ t \in Raw /\ RouteFrame(s, t) /\ RouteInv(t)
         /\ t[w] = s[w] \ {r} /\ t[Other(w)] = s[Other(w)]
         /\ t.kroutes \subseteq s.kroutes
<1>0. PICK l : l = s[w] \ {r}
  OBVIOUS
<1>1. PICK m : m = WithList(s, w, l)
  OBVIOUS
<1>2. /\ s[w] \in SUBSET RoutesTo(Dests(w)) /\ s.kroutes \in KRoutes
  BY ListIs
<1>3. l \in SUBSET RoutesTo(Dests(w))
  BY <1>0, <1>2
<1>4. /\ m \in Raw /\ RouteFrame(s, m) /\ m.kroutes = s.kroutes
      /\ m[w] = l /\ m[Other(w)] = s[Other(w)]
  BY <1>1, <1>3, SetListIs
<1>5. KernelRoute(m, r) = KernelRoute(s, r)
  BY <1>4 DEF RouteFrame, KernelRoute
<1>6. /\ t \in Raw /\ RouteFrame(s, t)
      /\ t.kroutes = s.kroutes \ Gone(r.enabled, KernelRoute(s, r))
      /\ t[w] = s[w] \ {r} /\ t[Other(w)] = s[Other(w)]
  <2>1. CASE ~r.enabled
    <3>1. t = m
      BY <1>0, <1>1, <2>1 DEF DropRoute, WithList
    <3> QED BY <1>0, <1>4, <2>1, <3>1 DEF Gone
  <2>2. CASE r.enabled
    <3>0. PICK k : k = m.kroutes \ {KernelRoute(m, r)}
      OBVIOUS
    <3>1. t = WithKernel(m, k)
      BY <1>0, <1>1, <2>2, <3>0 DEF DropRoute, SystemDelRoute, WithList, WithKernel
    <3>2. k \in KRoutes
      BY <1>2, <1>4, <3>0 DEF KRoutes
    <3>3. /\ t \in Raw /\ RouteFrame(m, t) /\ t.kroutes = k
          /\ \A v \in Lists : t[v] = m[v]
      BY <1>4, <3>1, <3>2, KernelRoutesAre
    <3>4. t[w] = m[w] /\ t[Other(w)] = m[Other(w)]
      BY <3>3, ListIs
    <3> QED BY <1>0, <1>4, <1>5, <2>2, <3>0, <3>3, <3>4 DEF Gone, RouteFrame
  <2> QED BY <2>1, <2>2
<1>7. There(s) /\ Tidy(s[w])
  BY RouteInvIs
<1>8. ASSUME NEW q \in t[w], q.enabled, ~q.failed
      PROVE  KernelRoute(s, q) \in t.kroutes
  <2>1. q \in s[w] /\ q # r /\ KernelRoute(s, q) \in s.kroutes
    BY <1>6, <1>7, <1>8, ListIs DEF There
  <2>2. KernelRoute(s, q) # KernelRoute(s, r)
    BY <1>7, <2>1, KernelRouteIs DEF Tidy, NoTwins, SameRoute
  <2> QED BY <1>6, <2>1, <2>2 DEF Gone
<1>9. RouteInv(t)
  <2>1. Tidy(t[w])
    BY <1>6, <1>7, FewerTidy
  <2>2. \A k \in t.kroutes : k \in s.kroutes /\ \A q \in s[w] \ t[w] : q.enabled => k # KernelRoute(s, q)
    BY <1>6 DEF Gone
  <2>3. \A k \in s.kroutes \ t.kroutes : k.to = r.to
    BY <1>6, KernelRouteIs DEF Gone
  <2> QED BY <1>6, <1>8, <2>1, <2>2, <2>3, RouteInvKept
<1> QED BY <1>6, <1>9

(* The loops over routes that drop them. *)
DropRoutes(s, w, S) ==
  LET iter[u \in SUBSET S] ==
        IF u = {} THEN s ELSE DropRoute(iter[Rest(u)], w, Pick(u))
  IN  iter[S]

(* After those in u. *)
Shed(s, w, u, t) ==
  /\ RouteFrame(s, t) /\ RouteInv(t)
  /\ t[w] = s[w] \ u /\ t[Other(w)] = s[Other(w)]

(* ... and so do all that go, whatever the order. *)
LEMMA DropRoutesIs ==
  ASSUME NEW s \in Raw, RouteInv(s), NEW w \in Lists, NEW S \in SUBSET s[w],
         NEW t, t = DropRoutes(s, w, S)
  PROVE  t \in Raw /\ Shed(s, w, S, t)
<1>0. IsFiniteSet(S)
  BY FS_Subset, RouteInvIs DEF Tidy
<1> DEFINE G == [u \in SUBSET S |-> {c \in Raw : Shed(s, w, u, c)}]
           All == UNION {G[u] : u \in SUBSET S}
           F == [x \in S |-> [c \in All |-> DropRoute(c, w, x)]]
           R(f) == f = [u \in SUBSET S |->
                          IF u = {} THEN s ELSE DropRoute(f[Rest(u)], w, Pick(u))]
<1>1. s \in G[{}]
  <2>1. Shed(s, w, {}, s)
    BY DEF Shed, RouteFrame
  <2> QED BY <2>1
<1>2. ASSUME NEW u \in SUBSET S, u # {}, NEW c \in G[Rest(u)],
             NEW d, d = DropRoute(c, w, Pick(u))
      PROVE  d \in G[u]
  <2>1. /\ Pick(u) \in u /\ Rest(u) \in SUBSET S
        /\ Rest(u) = u \ {Pick(u)}
    BY <1>0, <1>2, RestIs DEF Rest
  <2>2. c \in Raw /\ Shed(s, w, Rest(u), c)
    BY <2>1
  <2>3. d \in Raw /\ Shed(s, w, u, d)
    <3>1. Pick(u) \in c[w] /\ RouteInv(c)
      BY <2>1, <2>2 DEF Shed
    <3>2. /\ d \in Raw /\ RouteFrame(c, d) /\ RouteInv(d)
          /\ d[w] = c[w] \ {Pick(u)} /\ d[Other(w)] = c[Other(w)]
      BY <1>2, <2>2, <3>1, DropRouteKeeps
    <3>3. RouteFrame(s, d)
      BY <2>2, <3>2 DEF Shed, RouteFrame
    <3>4. d[w] = s[w] \ u /\ d[Other(w)] = s[Other(w)]
      BY <2>1, <2>2, <3>2 DEF Shed
    <3> QED BY <3>2, <3>3, <3>4 DEF Shed
  <2> QED BY <2>3
<1> HIDE DEF G
<1>3. ASSUME NEW u \in SUBSET S, u # {}, NEW c \in G[Rest(u)]
      PROVE  F[Pick(u)][c] = DropRoute(c, w, Pick(u)) /\ F[Pick(u)][c] \in G[u]
  <2>1. Pick(u) \in S /\ Rest(u) \in SUBSET S
    BY <1>0, <1>3, RestIs
  <2>2. c \in All
    BY <2>1
  <2>3. F[Pick(u)][c] = DropRoute(c, w, Pick(u))
    BY <2>1, <2>2
  <2> QED BY <1>2, <1>3, <2>3
<1> HIDE DEF F
<1>4. Courses(S, G, F, s) # {}
  BY <1>0, <1>1, <1>3, FoldRuns
<1>5. PICK h : h \in Courses(S, G, F, s)
  BY <1>4
<1>6. R(h)
  <2>1. ASSUME NEW u \in SUBSET S, u # {}
        PROVE  h[u] = DropRoute(h[Rest(u)], w, Pick(u))
    <3>1. h[u] = F[Pick(u)][h[Rest(u)]]
      BY <1>5, <2>1 DEF Courses
    <3>2. Rest(u) \in SUBSET S
      BY <1>0, <2>1, RestIs
    <3>3. h[Rest(u)] \in G[Rest(u)]
      BY <1>5, <3>2 DEF Courses
    <3> QED BY <1>3, <2>1, <3>1, <3>3
  <2>2. h = [u \in SUBSET S |-> h[u]] /\ h[{}] = s
    BY <1>5 DEF Courses
  <2>3. \A u \in SUBSET S :
          h[u] = IF u = {} THEN s ELSE DropRoute(h[Rest(u)], w, Pick(u))
    BY <2>1, <2>2
  <2> HIDE DEF F, G
  <2> QED BY <2>2, <2>3, Zenon
<1>7. PICK g : g = CHOOSE f : R(f)
  OBVIOUS
<1>8. R(g)
  BY <1>6, <1>7
<1>9. t = g[S]
  BY <1>7 DEF DropRoutes
<1>10. \A u \in SUBSET S :
         g[u] = IF u = {} THEN s ELSE DropRoute(g[Rest(u)], w, Pick(u))
  BY <1>8, Zenon
<1> HIDE DEF R
<1>11. g[{}] \in G[{}]
  BY <1>1, <1>10
<1>12. ASSUME NEW u \in SUBSET S, u # {}, g[Rest(u)] \in G[Rest(u)]
       PROVE  g[u] \in G[u]
  <2>1. g[u] = DropRoute(g[Rest(u)], w, Pick(u))
    BY <1>10, <1>12
  <2> QED BY <1>2, <1>12, <2>1
<1>13. g[S] \in G[S]
  BY <1>0, <1>11, <1>12, FoldReaches
<1>14. t \in Raw /\ Shed(s, w, S, t)
  BY <1>9, <1>13 DEF G
<1> QED BY <1>14

(* NLM_F_REPLACE, where no other list has a route of that key. *)
LEMMA SystemAddRouteIs ==
  ASSUME NEW s \in Raw, NEW w \in Lists, NEW r \in RoutesTo(Dests(w)),
         NEW t, t = SystemAddRoute(s, r)
  PROVE  /\ t \in Raw /\ RouteFrame(s, t) /\ \A v \in Lists : t[v] = s[v]
         /\ \A k \in t.kroutes :
              k = KernelRoute(s, r) \/ (k \in s.kroutes /\ ~SameRoute(k, r))
         /\ KernelRoute(s, r) \in t.kroutes
         /\ \A k \in s.kroutes : k \in t.kroutes \/ SameRoute(k, r)
<1>1. PICK k : k = {q \in s.kroutes : <<q.to, q.metric, q.table>> # <<r.to, r.metric, r.table>>}
                     \cup {KernelRoute(s, r)}
  OBVIOUS
<1>2. t = WithKernel(s, k)
  BY <1>1 DEF SystemAddRoute, WithKernel
<1>3. s.kroutes \in KRoutes /\ s.dev \in DeviceOrNone
  BY ListIs DEF Raw
<1>4. KernelRoute(s, r) \in [to : Targets, metric : Nat, table : Nat, gw : Gateways,
                             dev : DeviceOrNone]
  BY <1>3 DEF KernelRoute, RoutesTo, Dests, Targets, Lists
<1>5. k \in KRoutes
  BY <1>1, <1>3, <1>4 DEF KRoutes
<1>6. /\ t \in Raw /\ RouteFrame(s, t) /\ t.kroutes = k /\ \A v \in Lists : t[v] = s[v]
  BY <1>2, <1>5, KernelRoutesAre
<1> QED BY <1>1, <1>6 DEF SameRoute

(* AddRoute, with the loop over the routes it replaces by name. *)
AddRouteBy(s, which, r, willing) ==
  LET old == {q \in s[which] : SameRoute(q, r)}
      keep == \E q \in old : q.gw = r.gw /\ ~q.failed
      gone == IF keep THEN [s EXCEPT ![which] = s[which] \ old]
              ELSE DropRoutes(s, which, old)
      on == EnableRoute(s, which, r)
      new == [r EXCEPT !.enabled = on, !.failed = ~keep /\ on /\ r.to \notin willing]
      add == [gone EXCEPT ![which] = gone[which] \cup {new}]
  IN  IF on /\ ~keep /\ r.to \in willing THEN SystemAddRoute(add, r) ELSE add

(* AddRoute, with its loop by name. *)
LEMMA AddRouteIs ==
  ASSUME NEW s, NEW w, NEW r, NEW willing
  PROVE  AddRoute(s, w, r, willing) = AddRouteBy(s, w, r, willing)
BY DEF AddRoute, AddRouteBy, FoldSet, MapThenFoldSet, DropRoutes, Pick, Rest

(* new in the place of the routes it is the same as. *)
Replaced(s, t, w, r, new) ==
  t[w] = {q \in s[w] : ~SameRoute(q, r)} \cup {new}

(* A route in the place of its likes. *)
LEMMA ReplacedTidy ==
  ASSUME NEW s, NEW t, NEW w, Tidy(s[w]), NEW r, NEW new, SameRoute(new, r),
         Replaced(s, t, w, r, new)
  PROVE  Tidy(t[w])
<1> DEFINE rest == {q \in s[w] : ~SameRoute(q, r)}
<1>1. IsFiniteSet(rest) /\ rest \in SUBSET s[w]
  BY FS_Subset DEF Tidy
<1>2. IsFiniteSet(t[w])
  <2>1. t[w] = rest \cup {new}
    BY DEF Replaced
  <2> HIDE DEF rest
  <2> QED BY <1>1, <2>1, FS_AddElement
<1>3. ASSUME NEW p \in t[w], NEW q \in t[w], SameRoute(p, q) PROVE p = q
  <2>1. CASE p \in rest /\ q \in rest
    BY <1>3, <2>1 DEF Tidy, NoTwins
  <2>2. CASE p \in rest /\ q = new
    BY <1>3, <2>2 DEF SameRoute
  <2>3. CASE p = new /\ q \in rest
    BY <1>3, <2>3 DEF SameRoute
  <2> QED BY <2>1, <2>2, <2>3 DEF Replaced
<1> QED BY <1>2, <1>3 DEF Tidy, NoTwins

Entered(r, on, f) == [r EXCEPT !.enabled = on, !.failed = f]

(* The entry of AddRoute. *)
LEMMA EnteredIs ==
  ASSUME NEW w \in Lists, NEW r \in RoutesTo(Dests(w)), NEW on \in BOOLEAN, NEW f \in BOOLEAN,
         NEW new, new = Entered(r, on, f)
  PROVE  /\ new \in RoutesTo(Dests(w)) /\ new.enabled = on /\ new.failed = f
         /\ SameRoute(new, r) /\ new.to = r.to /\ new.gw = r.gw
         /\ \A s : KernelRoute(s, new) = KernelRoute(s, r)
<1>1. /\ new \in RoutesTo(Dests(w)) /\ new.enabled = on /\ new.failed = f
      /\ new.to = r.to /\ new.metric = r.metric /\ new.table = r.table /\ new.gw = r.gw
  BY DEF RoutesTo, Entered
<1> QED BY <1>1 DEF SameRoute, KernelRoute

SameOnes(s, w, r) == {q \in s[w] : SameRoute(q, r)}
KeepsOne(s, w, r) == \E q \in SameOnes(s, w, r) : q.gw = r.gw /\ ~q.failed

(* The route is kept: the kernel does not see any of it. *)
LEMMA KeepRouteKeeps ==
  ASSUME NEW s \in Raw, RouteInv(s), NEW w \in Lists, Switched(s, w),
         NEW r \in RoutesTo(Dests(w)), KeepsOne(s, w, r),
         NEW new \in RoutesTo(Dests(w)), new.enabled = EnableRoute(s, w, r), ~new.failed,
         SameRoute(new, r), KernelRoute(s, new) = KernelRoute(s, r),
         NEW t \in Raw, RouteFrame(s, t), t.kroutes = s.kroutes,
         t[Other(w)] = s[Other(w)], Replaced(s, t, w, r, new)
  PROVE  RouteInv(t)
<1>1. Known(s) /\ There(s) /\ Tidy(s[w])
  BY RouteInvIs
<1>2. /\ s[w] \in SUBSET RoutesTo(Dests(w)) /\ s.proto \cup s.config = s[w] \cup s[Other(w)]
  BY ListIs
<1>3. PICK q \in s[w] : SameRoute(q, r) /\ q.gw = r.gw /\ ~q.failed
  BY DEF KeepsOne, SameOnes
<1>4. KernelRoute(s, q) = KernelRoute(s, new)
  BY <1>3 DEF SameRoute, KernelRoute
<1>5. q.enabled = new.enabled
  BY <1>3 DEF Switched, EnableRoute, SameRoute
<1>6. ASSUME NEW x \in s[w] \ t[w] PROVE x = q
  <2>1. SameRoute(x, r)
    BY DEF Replaced
  <2>2. SameRoute(x, q)
    BY <1>3, <2>1 DEF SameRoute
  <2> QED BY <1>1, <2>2 DEF Tidy, NoTwins
<1>7. new \in t[w] /\ \A x \in t[w] : x = new \/ x \in s[w]
  BY DEF Replaced
<1>8. \A k \in t.kroutes :
        \/ \E x \in t[w] : x.enabled /\ k = KernelRoute(s, x)
        \/ /\ k \in s.kroutes
           /\ \A x \in s[w] \ t[w] : x.enabled => k # KernelRoute(s, x)
  <2> SUFFICES ASSUME NEW k \in t.kroutes, NEW x \in s[w] \ t[w], x.enabled,
                      k = KernelRoute(s, x)
               PROVE  new.enabled /\ k = KernelRoute(s, new)
    BY <1>7
  <2> QED BY <1>4, <1>5, <1>6
<1>9. \A x \in t[w] : x.enabled /\ ~x.failed => KernelRoute(s, x) \in t.kroutes
  BY <1>1, <1>2, <1>3, <1>4, <1>5, <1>7 DEF There
<1>10. Tidy(t[w])
  BY <1>1, ReplacedTidy
<1> QED BY <1>8, <1>9, <1>10, RouteInvKept

(* The route is new: g is what is left without those it replaces. *)
LEMMA NewRouteKeeps ==
  ASSUME NEW s \in Raw, NEW w \in Lists, NEW r \in RoutesTo(Dests(w)), NEW willing,
         NEW g \in Raw, RouteInv(g), RouteFrame(s, g), g[Other(w)] = s[Other(w)],
         g[w] = s[w] \ SameOnes(s, w, r),
         NEW new \in RoutesTo(Dests(w)),
         new.failed <=> new.enabled /\ r.to \notin willing,
         SameRoute(new, r), \A x : KernelRoute(x, new) = KernelRoute(x, r),
         NEW add \in Raw, RouteFrame(g, add), add.kroutes = g.kroutes,
         add[w] = g[w] \cup {new}, add[Other(w)] = g[Other(w)],
         NEW t,
         new.enabled /\ r.to \in willing => t = SystemAddRoute(add, r),
         ~(new.enabled /\ r.to \in willing) => t = add
  PROVE  /\ t \in Raw /\ RouteFrame(s, t) /\ RouteInv(t)
         /\ t[Other(w)] = s[Other(w)] /\ Replaced(s, t, w, r, new)
<1> DEFINE sent == new.enabled /\ r.to \in willing
<1>1. Known(g) /\ There(g) /\ Tidy(g[w])
  BY RouteInvIs
<1>2. /\ g[w] \in SUBSET RoutesTo(Dests(w)) /\ g.proto \cup g.config = g[w] \cup g[Other(w)]
      /\ Other(w) \in Lists
  BY ListIs
<1>3. KernelRoute(add, r) = KernelRoute(g, new)
  <2>1. KernelRoute(add, new) = KernelRoute(g, new)
    BY DEF RouteFrame, KernelRoute
  <2> QED BY <2>1
<1>4. /\ t \in Raw /\ RouteFrame(g, t) /\ t[w] = add[w] /\ t[Other(w)] = add[Other(w)]
      /\ \A k \in t.kroutes :
           (sent /\ k = KernelRoute(g, new)) \/ k \in g.kroutes
      /\ sent => KernelRoute(g, new) \in t.kroutes
      /\ \A k \in g.kroutes : k \in t.kroutes \/ SameRoute(k, r)
  <2>1. CASE ~sent
    BY <2>1
  <2>2. CASE sent
    <3>1. t = SystemAddRoute(add, r)
      BY <2>2
    <3>2. /\ t \in Raw /\ RouteFrame(add, t) /\ \A v \in Lists : t[v] = add[v]
          /\ \A k \in t.kroutes :
               k = KernelRoute(add, r) \/ (k \in add.kroutes /\ ~SameRoute(k, r))
          /\ KernelRoute(add, r) \in t.kroutes
          /\ \A k \in add.kroutes : k \in t.kroutes \/ SameRoute(k, r)
      BY <3>1, SystemAddRouteIs
    <3>3. RouteFrame(g, t)
      BY <3>2 DEF RouteFrame
    <3> QED BY <1>2, <1>3, <2>2, <3>2, <3>3
  <2> QED BY <2>1, <2>2
<1>5. Replaced(g, t, w, r, new) /\ Replaced(s, t, w, r, new)
  <2>1. \A x \in g[w] : x \in s[w] /\ ~SameRoute(x, r)
    BY DEF SameOnes
  <2>2. g[w] = {q \in s[w] : ~SameRoute(q, r)}
    BY DEF SameOnes
  <2> QED BY <1>4, <2>1, <2>2 DEF Replaced
<1>6. \A k \in t.kroutes :
        \/ \E x \in t[w] : x.enabled /\ k = KernelRoute(g, x)
        \/ /\ k \in g.kroutes
           /\ \A x \in g[w] \ t[w] : x.enabled => k # KernelRoute(g, x)
  BY <1>4
<1>7. ASSUME NEW x \in t[w], x.enabled, ~x.failed PROVE KernelRoute(g, x) \in t.kroutes
  <2>1. CASE x = new
    BY <1>4, <1>7, <2>1
  <2>2. CASE x \in g[w]
    <3>1. KernelRoute(g, x) \in g.kroutes
      BY <1>1, <1>2, <1>7, <2>2 DEF There
    <3>2. ~SameRoute(x, r)
      BY <2>2 DEF SameOnes
    <3>3. ~SameRoute(KernelRoute(g, x), r)
      BY <3>2, KernelRouteIs DEF SameRoute
    <3> QED BY <1>4, <3>1, <3>3
  <2> QED BY <1>4, <2>1, <2>2
<1>8. \A k \in g.kroutes \ t.kroutes : \E x \in g[w] \cup t[w] : k.to = x.to
  <2>1. new \in t[w] /\ new.to = r.to
    BY <1>4 DEF SameRoute
  <2> QED BY <1>4, <2>1 DEF SameRoute
<1>9. RouteInv(t)
  <2>1. Tidy(t[w])
    BY <1>1, <1>5, ReplacedTidy
  <2>2. t[Other(w)] = g[Other(w)]
    BY <1>4
  <2> QED BY <1>4, <1>6, <1>7, <1>8, <2>1, <2>2, RouteInvKept
<1>10. RouteFrame(s, t)
  BY <1>4 DEF RouteFrame
<1> QED BY <1>4, <1>5, <1>9, <1>10

(* interface_update_proto_route: a reported route leaves the kernel right.  *)
LEMMA AddRouteKeeps ==
  ASSUME NEW s \in Raw, RouteInv(s), NEW w \in Lists, Switched(s, w),
         NEW r \in RoutesTo(Dests(w)), NEW willing, NEW t, t = AddRoute(s, w, r, willing)
  PROVE  /\ t \in Raw /\ RouteFrame(s, t) /\ RouteInv(t) /\ Switched(t, w)
         /\ t[Other(w)] = s[Other(w)]
         /\ \E new : SameRoute(new, r) /\ Replaced(s, t, w, r, new)
<1> DEFINE old == SameOnes(s, w, r)
           keep == KeepsOne(s, w, r)
           on == EnableRoute(s, w, r)
           failed == ~keep /\ on /\ r.to \notin willing
<1>1. PICK new : new = Entered(r, on, failed)
  OBVIOUS
<1>2. PICK g : g = IF keep THEN WithList(s, w, s[w] \ old) ELSE DropRoutes(s, w, old)
  OBVIOUS
<1>3. PICK l : l = g[w] \cup {new}
  OBVIOUS
<1>4. PICK add : add = WithList(g, w, l)
  OBVIOUS
<1>5. t = IF on /\ ~keep /\ r.to \in willing THEN SystemAddRoute(add, r) ELSE add
  <2>1. t = AddRouteBy(s, w, r, willing)
    BY AddRouteIs
  <2> QED BY <1>1, <1>2, <1>3, <1>4, <2>1 DEF AddRouteBy, SameOnes, KeepsOne, WithList, Entered
<1>6. on \in BOOLEAN /\ failed \in BOOLEAN
  BY DEF EnableRoute, Raw
<1> HIDE DEF on, failed
<1>7. /\ new \in RoutesTo(Dests(w)) /\ new.enabled = on /\ new.failed = failed
      /\ SameRoute(new, r) /\ new.to = r.to /\ new.gw = r.gw
      /\ \A x : KernelRoute(x, new) = KernelRoute(x, r)
  BY <1>1, <1>6, EnteredIs
<1>8. /\ s[w] \in SUBSET RoutesTo(Dests(w)) /\ Other(w) \in Lists
  BY ListIs
<1>9. /\ g \in Raw /\ RouteFrame(s, g) /\ g[w] = s[w] \ old /\ g[Other(w)] = s[Other(w)]
      /\ keep => g.kroutes = s.kroutes
      /\ ~keep => RouteInv(g)
  <2>1. PICK rest : rest = s[w] \ old
    OBVIOUS
  <2>2. rest \in SUBSET RoutesTo(Dests(w)) /\ old \in SUBSET s[w]
    BY <1>8, <2>1 DEF SameOnes
  <2>3. CASE keep
    <3>1. g = WithList(s, w, rest)
      BY <1>2, <2>1, <2>3
    <3>2. /\ g \in Raw /\ RouteFrame(s, g)
          /\ g[w] = rest /\ g[Other(w)] = s[Other(w)] /\ g.kroutes = s.kroutes
      BY <2>2, <3>1, SetListIs
    <3> QED BY <2>1, <2>3, <3>2
  <2>4. CASE ~keep
    <3>1. g = DropRoutes(s, w, old)
      BY <1>2, <2>4
    <3> HIDE DEF old
    <3>2. g \in Raw /\ Shed(s, w, old, g)
      BY <2>2, <3>1, DropRoutesIs
    <3> QED BY <2>4, <3>2 DEF Shed
  <2> QED BY <2>3, <2>4
<1>10. l \in SUBSET RoutesTo(Dests(w))
  BY <1>3, <1>7, <1>9, ListIs
<1>11. /\ add \in Raw /\ RouteFrame(g, add)
       /\ add[w] = l /\ add[Other(w)] = g[Other(w)] /\ add.kroutes = g.kroutes
  BY <1>4, <1>9, <1>10, SetListIs
<1>12. /\ t \in Raw /\ RouteFrame(s, t) /\ RouteInv(t)
       /\ t[Other(w)] = s[Other(w)] /\ Replaced(s, t, w, r, new)
  <2>1. CASE keep
    <3>1. t = add /\ ~new.failed
      BY <1>5, <1>7, <2>1 DEF failed
    <3>2. RouteFrame(s, t)
      BY <1>9, <1>11, <3>1 DEF RouteFrame
    <3>3. Replaced(s, t, w, r, new)
      BY <1>3, <1>9, <1>11, <3>1 DEF Replaced, SameOnes
    <3>4. t.kroutes = s.kroutes /\ t[Other(w)] = s[Other(w)] /\ t \in Raw
      BY <1>9, <1>11, <2>1, <3>1
    <3>5. new.enabled = EnableRoute(s, w, r) /\ KernelRoute(s, new) = KernelRoute(s, r)
      BY <1>7 DEF on
    <3>6. RouteInv(t)
      BY <1>7, <2>1, <3>1, <3>2, <3>3, <3>4, <3>5, KeepRouteKeeps
    <3> QED BY <3>2, <3>3, <3>4, <3>6
  <2>2. CASE ~keep
    <3>1. /\ new.enabled /\ r.to \in willing => t = SystemAddRoute(add, r)
          /\ ~(new.enabled /\ r.to \in willing) => t = add
      BY <1>5, <1>7, <2>2
    <3>2. new.failed <=> new.enabled /\ r.to \notin willing
      BY <1>6, <1>7, <2>2 DEF failed
    <3>3. add[w] = g[w] \cup {new} /\ RouteInv(g)
      BY <1>3, <1>9, <1>11, <2>2
    <3>4. g[w] = s[w] \ SameOnes(s, w, r)
      BY <1>9
    <3> HIDE DEF keep, old
    <3> QED BY <1>7, <1>9, <1>11, <3>1, <3>2, <3>3, <3>4, NewRouteKeeps
  <2> QED BY <2>1, <2>2
<1>13. Switched(t, w)
  <2> SUFFICES ASSUME NEW q \in t[w] PROVE q.enabled = EnableRoute(t, w, q)
    BY DEF Switched
  <2>1. EnableRoute(t, w, q) = EnableRoute(s, w, q)
    BY <1>12 DEF EnableRoute, RouteFrame
  <2>2. CASE q \in s[w]
    BY <2>1, <2>2 DEF Switched
  <2>3. CASE q = new
    BY <1>7, <2>1, <2>3 DEF on, EnableRoute
  <2> QED BY <1>12, <2>2, <2>3 DEF Replaced
<1> QED BY <1>7, <1>12, <1>13

(* The loop over the routes reported or configured. *)
AddRoutes(s, w, S, willing) ==
  LET iter[u \in SUBSET S] ==
        IF u = {} THEN s ELSE AddRoute(iter[Rest(u)], w, Pick(u), willing)
  IN  iter[S]

(* After those in u. *)
Joined(s, w, u, t) ==
  /\ RouteFrame(s, t) /\ RouteInv(t) /\ Switched(t, w) /\ t[Other(w)] = s[Other(w)]
  /\ \A q \in t[w] : (\E r \in u : SameRoute(q, r))
                     \/ (q \in s[w] /\ ~\E r \in u : SameRoute(q, r))

(* ... and so do all that are reported, whatever the order. *)
LEMMA AddRoutesIs ==
  ASSUME NEW s \in Raw, RouteInv(s), NEW w \in Lists, Switched(s, w),
         NEW S \in SUBSET RoutesTo(Dests(w)), IsFiniteSet(S), NEW willing,
         NEW t, t = AddRoutes(s, w, S, willing)
  PROVE  t \in Raw /\ Joined(s, w, S, t)
<1>0. IsFiniteSet(S)
  OBVIOUS
<1> DEFINE G == [u \in SUBSET S |-> {c \in Raw : Joined(s, w, u, c)}]
           All == UNION {G[u] : u \in SUBSET S}
           F == [x \in S |-> [c \in All |-> AddRoute(c, w, x, willing)]]
           R(f) == f = [u \in SUBSET S |->
                          IF u = {} THEN s ELSE AddRoute(f[Rest(u)], w, Pick(u), willing)]
<1>1. s \in G[{}]
  <2>1. Joined(s, w, {}, s)
    BY DEF Joined, RouteFrame
  <2> QED BY <2>1
<1>2. ASSUME NEW u \in SUBSET S, u # {}, NEW c \in G[Rest(u)],
             NEW d, d = AddRoute(c, w, Pick(u), willing)
      PROVE  d \in G[u]
  <2>1. /\ Pick(u) \in u /\ Rest(u) \in SUBSET S
        /\ Rest(u) = u \ {Pick(u)}
    BY <1>0, <1>2, RestIs DEF Rest
  <2>2. c \in Raw /\ Joined(s, w, Rest(u), c)
    BY <2>1
  <2>3. d \in Raw /\ Joined(s, w, u, d)
    <3>1. Pick(u) \in RoutesTo(Dests(w)) /\ RouteInv(c) /\ Switched(c, w)
      BY <2>1, <2>2 DEF Joined
    <3>2. /\ d \in Raw /\ RouteFrame(c, d) /\ RouteInv(d) /\ Switched(d, w)
          /\ d[Other(w)] = c[Other(w)]
          /\ \E new : SameRoute(new, Pick(u)) /\ Replaced(c, d, w, Pick(u), new)
      BY <1>2, <2>2, <3>1, AddRouteKeeps
    <3>3. RouteFrame(s, d) /\ d[Other(w)] = s[Other(w)]
      BY <2>2, <3>2 DEF Joined, RouteFrame
    <3>4. PICK new : SameRoute(new, Pick(u)) /\ Replaced(c, d, w, Pick(u), new)
      BY <3>2
    <3>5. \A q \in d[w] : q = new \/ (q \in c[w] /\ ~SameRoute(q, Pick(u)))
      BY <3>4 DEF Replaced
    <3>6. \A q \in d[w] : \/ \E r \in u : SameRoute(q, r)
                          \/ q \in s[w] /\ ~\E r \in u : SameRoute(q, r)
      <4> SUFFICES ASSUME NEW q \in d[w]
                   PROVE  \/ \E r \in u : SameRoute(q, r)
                          \/ q \in s[w] /\ ~\E r \in u : SameRoute(q, r)
        OBVIOUS
      <4>1. CASE q = new
        BY <2>1, <3>4, <4>1
      <4>2. CASE q \in c[w] /\ ~SameRoute(q, Pick(u))
        <5>1. \/ \E r \in Rest(u) : SameRoute(q, r)
              \/ q \in s[w] /\ ~\E r \in Rest(u) : SameRoute(q, r)
          BY <2>2, <4>2 DEF Joined
        <5> QED BY <2>1, <4>2, <5>1
      <4> QED BY <3>5, <4>1, <4>2
    <3> QED BY <3>2, <3>3, <3>6 DEF Joined
  <2> QED BY <2>3
<1> HIDE DEF G
<1>3. ASSUME NEW u \in SUBSET S, u # {}, NEW c \in G[Rest(u)]
      PROVE  F[Pick(u)][c] = AddRoute(c, w, Pick(u), willing) /\ F[Pick(u)][c] \in G[u]
  <2>1. Pick(u) \in S /\ Rest(u) \in SUBSET S
    BY <1>0, <1>3, RestIs
  <2>2. c \in All
    BY <2>1
  <2>3. F[Pick(u)][c] = AddRoute(c, w, Pick(u), willing)
    BY <2>1, <2>2
  <2> QED BY <1>2, <1>3, <2>3
<1> HIDE DEF F
<1>4. Courses(S, G, F, s) # {}
  BY <1>0, <1>1, <1>3, FoldRuns
<1>5. PICK h : h \in Courses(S, G, F, s)
  BY <1>4
<1>6. R(h)
  <2>1. ASSUME NEW u \in SUBSET S, u # {}
        PROVE  h[u] = AddRoute(h[Rest(u)], w, Pick(u), willing)
    <3>1. h[u] = F[Pick(u)][h[Rest(u)]]
      BY <1>5, <2>1 DEF Courses
    <3>2. Rest(u) \in SUBSET S
      BY <1>0, <2>1, RestIs
    <3>3. h[Rest(u)] \in G[Rest(u)]
      BY <1>5, <3>2 DEF Courses
    <3> QED BY <1>3, <2>1, <3>1, <3>3
  <2>2. h = [u \in SUBSET S |-> h[u]] /\ h[{}] = s
    BY <1>5 DEF Courses
  <2>3. \A u \in SUBSET S :
          h[u] = IF u = {} THEN s ELSE AddRoute(h[Rest(u)], w, Pick(u), willing)
    BY <2>1, <2>2
  <2> HIDE DEF F, G
  <2> QED BY <2>2, <2>3, Zenon
<1>7. PICK g : g = CHOOSE f : R(f)
  OBVIOUS
<1>8. R(g)
  BY <1>6, <1>7
<1>9. t = g[S]
  BY <1>7 DEF AddRoutes
<1>10. \A u \in SUBSET S :
         g[u] = IF u = {} THEN s ELSE AddRoute(g[Rest(u)], w, Pick(u), willing)
  BY <1>8, Zenon
<1> HIDE DEF R
<1>11. g[{}] \in G[{}]
  BY <1>1, <1>10
<1>12. ASSUME NEW u \in SUBSET S, u # {}, g[Rest(u)] \in G[Rest(u)]
       PROVE  g[u] \in G[u]
  <2>1. g[u] = AddRoute(g[Rest(u)], w, Pick(u), willing)
    BY <1>10, <1>12
  <2> QED BY <1>2, <1>12, <2>1
<1>13. g[S] \in G[S]
  BY <1>0, <1>11, <1>12, FoldReaches
<1>14. t \in Raw /\ Joined(s, w, S, t)
  BY <1>9, <1>13 DEF G
<1> QED BY <1>14

(* q in the place of r. *)
Swapped(s, t, w, r, q) == t[w] = (s[w] \ {r}) \cup {q}

(* The entry of SetRoute. *)
Renewed(s, r, willing) ==
  [SetRouteInfo(s, r) EXCEPT !.enabled = TRUE, !.failed = r.failed \/ r.to \notin willing]

(* The entry has the metric and the table of the interface. *)
LEMMA RenewedIs ==
  ASSUME NEW s \in Raw, NEW w \in Lists, NEW r \in RoutesTo(Dests(w)), NEW willing,
         NEW q, q = Renewed(s, r, willing)
  PROVE  /\ q \in RoutesTo(Dests(w)) /\ q.to = r.to /\ q.enabled
         /\ q.metric = s.info.metric /\ q.table = s.info.table
         /\ r.to \notin willing => q.failed
<1>1. s.info.metric \in Nat /\ s.info.table \in Nat
  BY InfoIs
<1> DEFINE b == r.failed \/ r.to \notin willing
           p == [[r EXCEPT !.metric = s.info.metric] EXCEPT !.table = s.info.table]
<1>2. b \in BOOLEAN
  BY DEF RoutesTo
<1>3. q = [[p EXCEPT !.enabled = TRUE] EXCEPT !.failed = b]
  BY DEF Renewed, SetRouteInfo
<1>4. /\ p \in RoutesTo(Dests(w)) /\ p.to = r.to
      /\ p.metric = s.info.metric /\ p.table = s.info.table
  BY <1>1 DEF RoutesTo
<1> HIDE DEF b, p
<1>5. /\ q \in RoutesTo(Dests(w)) /\ q.to = p.to /\ q.enabled
      /\ q.metric = p.metric /\ q.table = p.table /\ q.failed = b
  BY <1>2, <1>3, <1>4 DEF RoutesTo
<1> QED BY <1>4, <1>5 DEF b

(* interface_ip_set_route_enabled takes a route from the kernel. *)
LEMMA SwitchRouteOff ==
  ASSUME NEW s \in Raw, RouteInv(s), NEW w \in Lists, NEW r \in s[w], r.enabled,
         NEW q \in RoutesTo(Dests(w)), SameRoute(q, r), ~q.enabled,
         NEW m \in Raw, RouteFrame(s, m), m.kroutes = s.kroutes,
         m[Other(w)] = s[Other(w)], Swapped(s, m, w, r, q),
         NEW t, t = SystemDelRoute(m, r)
  PROVE  /\ t \in Raw /\ RouteFrame(s, t) /\ RouteInv(t)
         /\ t[Other(w)] = s[Other(w)] /\ Swapped(s, t, w, r, q)
<1>1. Known(s) /\ There(s) /\ Tidy(s[w])
  BY RouteInvIs
<1>2. /\ s[w] \in SUBSET RoutesTo(Dests(w)) /\ s.proto \cup s.config = s[w] \cup s[Other(w)]
      /\ Other(w) \in Lists /\ m.kroutes \in KRoutes
  BY ListIs
<1>3. KernelRoute(m, r) = KernelRoute(s, r)
  BY DEF RouteFrame, KernelRoute
<1>4. PICK k : k = s.kroutes \ {KernelRoute(s, r)}
  OBVIOUS
<1>5. t = WithKernel(m, k)
  BY <1>3, <1>4 DEF SystemDelRoute, WithKernel
<1>6. k \in KRoutes
  BY <1>2, <1>4 DEF KRoutes
<1>7. /\ t \in Raw /\ RouteFrame(m, t) /\ t.kroutes = k /\ \A v \in Lists : t[v] = m[v]
  BY <1>5, <1>6, KernelRoutesAre
<1>8. /\ RouteFrame(s, t) /\ t[Other(w)] = s[Other(w)] /\ Swapped(s, t, w, r, q)
  BY <1>2, <1>7 DEF RouteFrame, Swapped
<1>9. Tidy(t[w])
  <2>1. {x \in s[w] : ~SameRoute(x, r)} = s[w] \ {r}
    BY <1>1 DEF Tidy, NoTwins, SameRoute
  <2>2. Replaced(s, t, w, r, q)
    BY <1>8, <2>1 DEF Replaced, Swapped
  <2> QED BY <1>1, <2>2, ReplacedTidy
<1>10. \A x \in s[w] \ t[w] : x = r
  BY <1>8 DEF Swapped
<1>11. \A y \in t.kroutes :
         /\ y \in s.kroutes
         /\ \A x \in s[w] \ t[w] : x.enabled => y # KernelRoute(s, x)
  BY <1>4, <1>7, <1>10
<1>12. ASSUME NEW x \in t[w], x.enabled, ~x.failed PROVE KernelRoute(s, x) \in t.kroutes
  <2>1. x \in s[w] /\ x # r
    BY <1>8, <1>12 DEF Swapped
  <2>2. KernelRoute(s, x) \in s.kroutes
    BY <1>1, <1>2, <1>12, <2>1 DEF There
  <2>3. KernelRoute(s, x) # KernelRoute(s, r)
    BY <1>1, <2>1, KernelRouteIs DEF Tidy, NoTwins, SameRoute
  <2> QED BY <1>4, <1>7, <2>2, <2>3
<1>13. \A y \in s.kroutes \ t.kroutes : y.to = r.to
  BY <1>4, <1>7, KernelRouteIs
<1>14. RouteInv(t)
  BY <1>7, <1>8, <1>9, <1>11, <1>12, <1>13, RouteInvKept
<1> QED BY <1>7, <1>8, <1>14

(* ... or gives it, with the settings as they are now. *)
LEMMA SwitchRouteOn ==
  ASSUME NEW s \in Raw, RouteInv(s), NEW w \in Lists, Unique(s[w]), NEW r \in s[w], ~r.enabled,
         NEW willing, NEW q \in RoutesTo(Dests(w)), q.to = r.to, q.enabled,
         r.to \notin willing => q.failed,
         NEW m \in Raw, RouteFrame(s, m), m.kroutes = s.kroutes,
         m[Other(w)] = s[Other(w)], Swapped(s, m, w, r, q),
         NEW t, r.to \in willing => t = SystemAddRoute(m, q), r.to \notin willing => t = m
  PROVE  /\ t \in Raw /\ RouteFrame(s, t) /\ RouteInv(t)
         /\ t[Other(w)] = s[Other(w)] /\ Swapped(s, t, w, r, q)
<1> DEFINE sent == r.to \in willing
<1>1. Known(s) /\ There(s) /\ Tidy(s[w])
  BY RouteInvIs
<1>2. /\ s[w] \in SUBSET RoutesTo(Dests(w)) /\ s.proto \cup s.config = s[w] \cup s[Other(w)]
      /\ Other(w) \in Lists
  BY ListIs
<1>3. KernelRoute(m, q) = KernelRoute(s, q)
  BY DEF RouteFrame, KernelRoute
<1>4. /\ t \in Raw /\ RouteFrame(s, t) /\ t[w] = m[w] /\ t[Other(w)] = s[Other(w)]
      /\ \A k \in t.kroutes : (sent /\ k = KernelRoute(s, q)) \/ k \in s.kroutes
      /\ sent => KernelRoute(s, q) \in t.kroutes
      /\ \A k \in s.kroutes : k \in t.kroutes \/ SameRoute(k, q)
  <2>1. CASE ~sent
    BY <2>1
  <2>2. CASE sent
    <3>1. t = SystemAddRoute(m, q)
      BY <2>2
    <3>2. /\ t \in Raw /\ RouteFrame(m, t) /\ \A v \in Lists : t[v] = m[v]
          /\ \A k \in t.kroutes :
               k = KernelRoute(m, q) \/ (k \in m.kroutes /\ ~SameRoute(k, q))
          /\ KernelRoute(m, q) \in t.kroutes
          /\ \A k \in m.kroutes : k \in t.kroutes \/ SameRoute(k, q)
      BY <3>1, SystemAddRouteIs
    <3>3. RouteFrame(s, t)
      BY <3>2 DEF RouteFrame
    <3> QED BY <1>2, <1>3, <2>2, <3>2, <3>3
  <2> QED BY <2>1, <2>2
<1>5. Swapped(s, t, w, r, q)
  BY <1>4 DEF Swapped
<1>6. \A x \in s[w] \ {r} : x.to # q.to
  BY DEF Unique
<1>7. Tidy(t[w])
  <2>1. IsFiniteSet(s[w] \ {r})
    BY <1>1, FS_Subset DEF Tidy
  <2>2. IsFiniteSet(t[w])
    <3>1. PICK rest : rest = s[w] \ {r}
      OBVIOUS
    <3>2. t[w] = rest \cup {q} /\ IsFiniteSet(rest)
      BY <1>5, <2>1, <3>1 DEF Swapped
    <3> QED BY <3>2, FS_AddElement
  <2>3. NoTwins(t[w])
    BY <1>1, <1>5, <1>6 DEF Swapped, Tidy, NoTwins, SameRoute
  <2> QED BY <2>2, <2>3 DEF Tidy
<1>8. \A k \in t.kroutes :
        \/ \E x \in t[w] : x.enabled /\ k = KernelRoute(s, x)
        \/ /\ k \in s.kroutes
           /\ \A x \in s[w] \ t[w] : x.enabled => k # KernelRoute(s, x)
  BY <1>4, <1>5 DEF Swapped
<1>9. ASSUME NEW x \in t[w], x.enabled, ~x.failed PROVE KernelRoute(s, x) \in t.kroutes
  <2>1. CASE x = q
    BY <1>4, <1>9, <2>1
  <2>2. CASE x \in s[w] \ {r}
    <3>1. KernelRoute(s, x) \in s.kroutes
      BY <1>1, <1>2, <1>9, <2>2 DEF There
    <3>2. KernelRoute(s, x).to # q.to
      BY <1>6, <2>2, KernelRouteIs
    <3> QED BY <1>4, <3>1, <3>2 DEF SameRoute
  <2> QED BY <1>5, <2>1, <2>2 DEF Swapped
<1>10. \A k \in s.kroutes \ t.kroutes : \E x \in s[w] \cup t[w] : k.to = x.to
  <2>1. q \in t[w]
    BY <1>5 DEF Swapped
  <2> QED BY <1>4, <2>1 DEF SameRoute
<1>11. RouteInv(t)
  BY <1>4, <1>7, <1>8, <1>9, <1>10, RouteInvKept
<1> QED BY <1>4, <1>5, <1>11

MetricOf(s, q) == q.metric = s.info.metric /\ q.table = s.info.table

(* ... or leaves it as it is. *)
LEMMA SetRouteKeeps ==
  ASSUME NEW s \in Raw, RouteInv(s), NEW w \in Lists, NEW r \in s[w],
         NEW enabled \in BOOLEAN, enabled => Unique(s[w]), NEW willing,
         NEW t, t = SetRoute(s, w, r, enabled, willing)
  PROVE  /\ t \in Raw /\ RouteFrame(s, t) /\ RouteInv(t) /\ t[Other(w)] = s[Other(w)]
         /\ \E q : /\ Swapped(s, t, w, r, q) /\ q.to = r.to
                   /\ q.enabled = (enabled /\ EnableRoute(s, w, r))
                   /\ q.enabled => q = r \/ MetricOf(s, q)
<1> DEFINE on == enabled /\ EnableRoute(s, w, r)
<1>1. /\ s[w] \in SUBSET RoutesTo(Dests(w)) /\ r \in RoutesTo(Dests(w))
      /\ r.enabled \in BOOLEAN /\ r.failed \in BOOLEAN
  BY ListIs DEF RoutesTo
<1>2. on \in BOOLEAN
  BY DEF EnableRoute, Raw
<1>3. CASE on = r.enabled
  <2>1. t = s
    BY <1>3 DEF SetRoute
  <2>2. Swapped(s, t, w, r, r)
    BY <2>1 DEF Swapped
  <2>3. RouteFrame(s, t)
    BY <2>1 DEF RouteFrame
  <2> QED BY <1>3, <2>1, <2>2, <2>3
<1>4. CASE on # r.enabled /\ ~on
  <2>1. PICK q : q = [r EXCEPT !.enabled = FALSE]
    OBVIOUS
  <2>2. PICK l : l = (s[w] \ {r}) \cup {q}
    OBVIOUS
  <2>3. PICK m : m = WithList(s, w, l)
    OBVIOUS
  <2>4. /\ q \in RoutesTo(Dests(w)) /\ q.enabled = FALSE
        /\ SameRoute(q, r) /\ q.to = r.to
    BY <1>1, <2>1 DEF RoutesTo, SameRoute
  <2>6. t = SystemDelRoute(m, r)
    BY <1>4, <2>1, <2>2, <2>3 DEF SetRoute, WithList
  <2>7. l \in SUBSET RoutesTo(Dests(w))
    BY <1>1, <2>2, <2>4
  <2>8. /\ m \in Raw /\ RouteFrame(s, m)
        /\ m[w] = l /\ m[Other(w)] = s[Other(w)] /\ m.kroutes = s.kroutes
    BY <2>3, <2>7, SetListIs
  <2>9. Swapped(s, m, w, r, q) /\ r.enabled
    BY <1>1, <1>2, <1>4, <2>2, <2>8 DEF Swapped
  <2>10. /\ t \in Raw /\ RouteFrame(s, t) /\ RouteInv(t)
         /\ t[Other(w)] = s[Other(w)] /\ Swapped(s, t, w, r, q)
    BY <2>4, <2>6, <2>8, <2>9, SwitchRouteOff
  <2> QED BY <1>4, <2>4, <2>10
<1>5. CASE on # r.enabled /\ on
  <2>1. PICK q : q = Renewed(s, r, willing)
    OBVIOUS
  <2>2. PICK l : l = (s[w] \ {r}) \cup {q}
    OBVIOUS
  <2>3. PICK m : m = WithList(s, w, l)
    OBVIOUS
  <2>4. /\ q \in RoutesTo(Dests(w)) /\ q.to = r.to /\ q.enabled
        /\ q.metric = s.info.metric /\ q.table = s.info.table
        /\ r.to \notin willing => q.failed
    BY <1>1, <2>1, RenewedIs
  <2>5. q = [SetRouteInfo(s, r) EXCEPT !.enabled = TRUE,
                                       !.failed = SetRouteInfo(s, r).failed \/ r.to \notin willing]
    <3>1. SetRouteInfo(s, r).failed = r.failed
      BY <1>1 DEF SetRouteInfo, RoutesTo
    <3> QED BY <2>1, <3>1 DEF Renewed
  <2>6. t = IF r.to \in willing THEN SystemAddRoute(m, q) ELSE m
    BY <1>5, <2>2, <2>3, <2>5 DEF SetRoute, WithList
  <2>7. l \in SUBSET RoutesTo(Dests(w))
    BY <1>1, <2>2, <2>4
  <2>8. /\ m \in Raw /\ RouteFrame(s, m)
        /\ m[w] = l /\ m[Other(w)] = s[Other(w)] /\ m.kroutes = s.kroutes
    BY <2>3, <2>7, SetListIs
  <2>9. Swapped(s, m, w, r, q) /\ ~r.enabled /\ Unique(s[w])
    BY <1>1, <1>2, <1>5, <2>2, <2>8 DEF Swapped
  <2>10. /\ r.to \in willing => t = SystemAddRoute(m, q)
         /\ r.to \notin willing => t = m
    BY <2>6
  <2>11. /\ t \in Raw /\ RouteFrame(s, t) /\ RouteInv(t)
         /\ t[Other(w)] = s[Other(w)] /\ Swapped(s, t, w, r, q)
    BY <2>4, <2>8, <2>9, <2>10, SwitchRouteOn
  <2>12. q.enabled = TRUE
    BY <2>4 DEF RoutesTo
  <2> QED BY <1>2, <1>5, <2>4, <2>11, <2>12 DEF MetricOf
<1> QED BY <1>3, <1>4, <1>5

(* The loop of interface_ip_set_enabled over the routes of a list. *)
SwitchRoutes(s, w, S, enabled, willing) ==
  LET iter[u \in SUBSET S] ==
        IF u = {} THEN s ELSE SetRoute(iter[Rest(u)], w, Pick(u), enabled, willing)
  IN  iter[S]

(* After those in u; S is what the list was before the loop. *)
Served(s, w, S, u, enabled, t) ==
  /\ RouteFrame(s, t) /\ RouteInv(t) /\ t[Other(w)] = s[Other(w)]
  /\ Unique(s[w]) => Unique(t[w])
  /\ S \ u \subseteq t[w] /\ (S = {} => t[w] = {})
  /\ \A q \in t[w] :
       \/ q \in S \ u
       \/ /\ q.enabled = (enabled /\ EnableRoute(s, w, q))
          /\ q.enabled => q \in S \/ MetricOf(s, q)

(* All routes of a list, whatever the order. *)
LEMMA SwitchRoutesIs ==
  ASSUME NEW s \in Raw, RouteInv(s), NEW w \in Lists, NEW S, S = s[w],
         NEW enabled \in BOOLEAN, enabled => Unique(s[w]), NEW willing,
         NEW t, t = SwitchRoutes(s, w, S, enabled, willing)
  PROVE  t \in Raw /\ Served(s, w, S, S, enabled, t)
<1>0. IsFiniteSet(S)
  BY RouteInvIs DEF Tidy
<1> DEFINE G == [u \in SUBSET S |-> {c \in Raw : Served(s, w, S, u, enabled, c)}]
           All == UNION {G[u] : u \in SUBSET S}
           F == [x \in S |-> [c \in All |-> SetRoute(c, w, x, enabled, willing)]]
           R(f) == f = [u \in SUBSET S |->
                          IF u = {} THEN s ELSE SetRoute(f[Rest(u)], w, Pick(u), enabled, willing)]
<1>1. s \in G[{}]
  <2>1. Served(s, w, S, {}, enabled, s)
    BY DEF Served, RouteFrame
  <2> QED BY <2>1
<1>2. ASSUME NEW u \in SUBSET S, u # {}, NEW c \in G[Rest(u)],
             NEW d, d = SetRoute(c, w, Pick(u), enabled, willing)
      PROVE  d \in G[u]
  <2>1. /\ Pick(u) \in u /\ Rest(u) \in SUBSET S
        /\ Rest(u) = u \ {Pick(u)}
    BY <1>0, <1>2, RestIs DEF Rest
  <2>2. c \in Raw /\ Served(s, w, S, Rest(u), enabled, c)
    BY <2>1
  <2>3. d \in Raw /\ Served(s, w, S, u, enabled, d)
    <3>1. /\ Pick(u) \in c[w] /\ RouteInv(c) /\ (enabled => Unique(c[w]))
          /\ \A q : EnableRoute(c, w, q) = EnableRoute(s, w, q)
          /\ \A q : MetricOf(c, q) = MetricOf(s, q)
      BY <2>1, <2>2 DEF Served, RouteFrame, EnableRoute, MetricOf
    <3>2. /\ d \in Raw /\ RouteFrame(c, d) /\ RouteInv(d) /\ d[Other(w)] = c[Other(w)]
          /\ \E q : /\ Swapped(c, d, w, Pick(u), q) /\ q.to = Pick(u).to
                    /\ q.enabled = (enabled /\ EnableRoute(c, w, Pick(u)))
                    /\ q.enabled => q = Pick(u) \/ MetricOf(c, q)
      BY <1>2, <2>2, <3>1, SetRouteKeeps
    <3>3. PICK q : /\ Swapped(c, d, w, Pick(u), q) /\ q.to = Pick(u).to
                   /\ q.enabled = (enabled /\ EnableRoute(c, w, Pick(u)))
                   /\ q.enabled => q = Pick(u) \/ MetricOf(c, q)
      BY <3>2
    <3>4. RouteFrame(s, d) /\ d[Other(w)] = s[Other(w)]
      BY <2>2, <3>2 DEF Served, RouteFrame
    <3>5. Unique(c[w]) => Unique(d[w])
      BY <3>1, <3>3 DEF Unique, Swapped
    <3>6. S \ u \subseteq d[w] /\ S # {}
      BY <2>1, <2>2, <3>3 DEF Served, Swapped
    <3>7. ASSUME NEW x \in d[w]
          PROVE  \/ x \in S \ u
                 \/ /\ x.enabled = (enabled /\ EnableRoute(s, w, x))
                    /\ x.enabled => x \in S \/ MetricOf(s, x)
      <4>1. CASE x = q
        <5>1. EnableRoute(c, w, Pick(u)) = EnableRoute(s, w, q)
          BY <3>1, <3>3 DEF EnableRoute
        <5> QED BY <2>1, <3>1, <3>3, <4>1, <5>1
      <4>2. CASE x \in c[w] /\ x # Pick(u)
        <5>1. \/ x \in S \ Rest(u)
              \/ /\ x.enabled = (enabled /\ EnableRoute(s, w, x))
                 /\ x.enabled => x \in S \/ MetricOf(s, x)
          BY <2>2, <4>2 DEF Served
        <5> QED BY <2>1, <4>2, <5>1
      <4> QED BY <3>3, <4>1, <4>2 DEF Swapped
    <3> QED BY <2>2, <3>2, <3>4, <3>5, <3>6, <3>7 DEF Served
  <2> QED BY <2>3
<1> HIDE DEF G
<1>3. ASSUME NEW u \in SUBSET S, u # {}, NEW c \in G[Rest(u)]
      PROVE  F[Pick(u)][c] = SetRoute(c, w, Pick(u), enabled, willing) /\ F[Pick(u)][c] \in G[u]
  <2>1. Pick(u) \in S /\ Rest(u) \in SUBSET S
    BY <1>0, <1>3, RestIs
  <2>2. c \in All
    BY <2>1
  <2>3. F[Pick(u)][c] = SetRoute(c, w, Pick(u), enabled, willing)
    BY <2>1, <2>2
  <2> QED BY <1>2, <1>3, <2>3
<1> HIDE DEF F
<1>4. Courses(S, G, F, s) # {}
  BY <1>0, <1>1, <1>3, FoldRuns
<1>5. PICK h : h \in Courses(S, G, F, s)
  BY <1>4
<1>6. R(h)
  <2>1. ASSUME NEW u \in SUBSET S, u # {}
        PROVE  h[u] = SetRoute(h[Rest(u)], w, Pick(u), enabled, willing)
    <3>1. h[u] = F[Pick(u)][h[Rest(u)]]
      BY <1>5, <2>1 DEF Courses
    <3>2. Rest(u) \in SUBSET S
      BY <1>0, <2>1, RestIs
    <3>3. h[Rest(u)] \in G[Rest(u)]
      BY <1>5, <3>2 DEF Courses
    <3> QED BY <1>3, <2>1, <3>1, <3>3
  <2>2. h = [u \in SUBSET S |-> h[u]] /\ h[{}] = s
    BY <1>5 DEF Courses
  <2>3. \A u \in SUBSET S :
          h[u] = IF u = {} THEN s ELSE SetRoute(h[Rest(u)], w, Pick(u), enabled, willing)
    BY <2>1, <2>2
  <2> HIDE DEF F, G
  <2> QED BY <2>2, <2>3, Zenon
<1>7. PICK g : g = CHOOSE f : R(f)
  OBVIOUS
<1>8. R(g)
  BY <1>6, <1>7
<1>9. t = g[S]
  BY <1>7 DEF SwitchRoutes
<1>10. \A u \in SUBSET S :
         g[u] = IF u = {} THEN s ELSE SetRoute(g[Rest(u)], w, Pick(u), enabled, willing)
  BY <1>8, Zenon
<1> HIDE DEF R
<1>11. g[{}] \in G[{}]
  BY <1>1, <1>10
<1>12. ASSUME NEW u \in SUBSET S, u # {}, g[Rest(u)] \in G[Rest(u)]
       PROVE  g[u] \in G[u]
  <2>1. g[u] = SetRoute(g[Rest(u)], w, Pick(u), enabled, willing)
    BY <1>10, <1>12
  <2> QED BY <1>2, <1>12, <2>1
<1>13. g[S] \in G[S]
  BY <1>0, <1>11, <1>12, FoldReaches
<1>14. t \in Raw /\ Served(s, w, S, S, enabled, t)
  BY <1>9, <1>13 DEF G
<1> QED BY <1>14

(***************************************************************************)
(* Switching on and off                                                    *)
(***************************************************************************)

PolicyInv(s) ==
  s.kpolicy = (IF s.policy THEN {s.dev} ELSE {}) /\ (s.dev = NoDevice => ~s.policy)
HostInv(s) ==
  \A k \in s.khosts : /\ k.dev = s.dev
                      /\ \E h \in s.hosts : k.metric = h.metric /\ k.gw = h.gw

(* What holds in the middle of an action as well. *)
Sound(s) ==
  /\ s \in Raw /\ AddrInv(s) /\ RouteInv(s) /\ PolicyInv(s) /\ HostInv(s)
  /\ Unique(s.config)
Rules(s) == RuleInv(s) /\ ExternalNow(s)

(* All but `on`, all but `policy` and what follows from it. *)
OnFrame(s, t) ==
  /\ t.state = s.state /\ t.dev = s.dev /\ t.info = s.info /\ t.policy = s.policy
  /\ t.addrs = s.addrs /\ t.proto = s.proto /\ t.config = s.config /\ t.hosts = s.hosts
  /\ t.kaddrs = s.kaddrs /\ t.krules = s.krules /\ t.ksubnets = s.ksubnets
  /\ t.kroutes = s.kroutes /\ t.khosts = s.khosts /\ t.kpolicy = s.kpolicy
PolicyFrame(s, t) ==
  /\ t.state = s.state /\ t.dev = s.dev /\ t.info = s.info /\ t.on = s.on
  /\ t.addrs = s.addrs /\ t.proto = s.proto /\ t.config = s.config /\ t.hosts = s.hosts
  /\ t.kaddrs = s.kaddrs /\ t.krules = s.krules /\ t.ksubnets = s.ksubnets
  /\ t.kroutes = s.kroutes /\ t.khosts = s.khosts

(* interface_ip_set_enabled: the rule for what no policy covers. *)
LEMMA SetPolicyIs ==
  ASSUME NEW s \in Raw, s.kpolicy = (IF s.policy THEN {s.dev} ELSE {}),
         NEW enabled \in BOOLEAN, NEW t, t = SetPolicy(s, enabled)
  PROVE  /\ t \in Raw /\ PolicyFrame(s, t) /\ t.policy = enabled
         /\ t.kpolicy = (IF t.policy THEN {t.dev} ELSE {})
<1>1. CASE s.policy = enabled
  <2>1. t = s
    BY <1>1 DEF SetPolicy
  <2> QED BY <1>1, <2>1 DEF PolicyFrame
<1>2. CASE s.policy # enabled
  <2>1. PICK k : k = IF enabled THEN s.kpolicy \cup {s.dev} ELSE s.kpolicy \ {s.dev}
    OBVIOUS
  <2>2. t = [s EXCEPT !.policy = enabled, !.kpolicy = k]
    BY <1>2, <2>1 DEF SetPolicy
  <2>3. s.policy \in BOOLEAN /\ s.dev \in DeviceOrNone /\ s.kpolicy \in SUBSET DeviceOrNone
    BY DEF Raw
  <2>4. k \in SUBSET DeviceOrNone /\ k = IF enabled THEN {s.dev} ELSE {}
    BY <1>2, <2>1, <2>3
  <2>5. t \in Raw
    BY <2>2, <2>4, ZenonT(60) DEF Raw
  <2>6. PolicyFrame(s, t) /\ t.policy = enabled /\ t.kpolicy = k
    BY <2>2, SMT DEF Raw, PolicyFrame
  <2> QED BY <2>4, <2>5, <2>6 DEF PolicyFrame
<1> QED BY <1>1, <1>2

WithOn(s, w, enabled) == [s EXCEPT !.on[w] = enabled]

(* The flag `enabled` of a list. *)
LEMMA OnIs ==
  ASSUME NEW s \in Raw, NEW w \in Lists, NEW enabled \in BOOLEAN,
         NEW t, t = WithOn(s, w, enabled)
  PROVE  /\ t \in Raw /\ OnFrame(s, t)
         /\ t.on[w] = enabled /\ t.on[Other(w)] = s.on[Other(w)]
<1>1. PICK o : o = [s.on EXCEPT ![w] = enabled]
  OBVIOUS
<1>2. t = [s EXCEPT !.on = o]
  BY <1>1 DEF WithOn
<1>3. s.on \in [proto : BOOLEAN, config : BOOLEAN]
  BY DEF Raw
<1>4. /\ o \in [proto : BOOLEAN, config : BOOLEAN]
      /\ o[w] = enabled /\ o[Other(w)] = s.on[Other(w)]
  <2>1. CASE w = "proto"
    BY <1>1, <1>3, <2>1 DEF Other
  <2>2. CASE w = "config"
    BY <1>1, <1>3, <2>2 DEF Other
  <2> QED BY <2>1, <2>2 DEF Lists
<1>5. t \in Raw
  BY <1>2, <1>4, ZenonT(60) DEF Raw
<1>6. OnFrame(s, t) /\ t.on = o
  BY <1>2, SMT DEF Raw, OnFrame
<1> QED BY <1>4, <1>5, <1>6

(* The invariants that look at some of the state only. *)
LEMMA AddrInvOf ==
  ASSUME NEW s, AddrInv(s), NEW t, t.dev = s.dev, t.addrs = s.addrs,
         t.kaddrs = s.kaddrs, t.krules = s.krules, t.ksubnets = s.ksubnets
  PROVE  AddrInv(t) /\ (RuleInv(s) => RuleInv(t))
<1>1. OwnOf(t) = OwnOf(s)
  BY DEF OwnOf
<1> QED BY <1>1 DEF AddrInv, RuleInv

LEMMA RouteInvOf ==
  ASSUME NEW s, RouteInv(s), NEW t, t.dev = s.dev, t.proto = s.proto, t.config = s.config,
         t["proto"] = s["proto"], t["config"] = s["config"], t.kroutes = s.kroutes
  PROVE  RouteInv(t)
<1>1. Known(s) /\ There(s) /\ \A w \in Lists : Tidy(s[w])
  BY RouteInvIs
<1>2. \A r : KernelRoute(t, r) = KernelRoute(s, r)
  BY DEF KernelRoute
<1>3. Known(t) /\ There(t)
  BY <1>1, <1>2 DEF Known, There
<1>4. \A w \in Lists : Tidy(t[w])
  BY <1>1 DEF Lists
<1> QED BY <1>3, <1>4, RouteInvIs

(* The addresses interface_ip_set_enabled goes through. *)
ToSwitch(s, w, enabled) ==
  IF w = "config" THEN {}
  ELSE {a \in DOMAIN s.addrs \ External : s.addrs[a].enabled # enabled}

(* SetEnabled, with its loops by name. *)
SetEnabledBy(s, which, enabled, willing) ==
  LET m == [s EXCEPT !.on[which] = enabled]
      a1 == SwitchAddresses(m, ToSwitch(s, which, enabled), enabled, willing)
      r1 == SwitchRoutes(a1, which, s[which], enabled, willing)
  IN  IF s.dev = NoDevice THEN m ELSE SetPolicy(r1, enabled)

(* It is the same. *)
LEMMA SetEnabledIs ==
  ASSUME NEW s, NEW w, NEW enabled, NEW willing
  PROVE  SetEnabled(s, w, enabled, willing) = SetEnabledBy(s, w, enabled, willing)
BY DEF SetEnabled, SetEnabledBy, ToSwitch, FoldSet, MapThenFoldSet, SwitchAddresses, SwitchAddress,
       SwitchRoutes, Pick, Rest

(* What it leaves. *)
PutFrame(s, t, w, enabled) ==
  /\ t.state = s.state /\ t.dev = s.dev /\ t.info = s.info
  /\ t.hosts = s.hosts /\ t.khosts = s.khosts
  /\ DOMAIN t.addrs = DOMAIN s.addrs
  /\ \A x \in DOMAIN s.addrs \cap External : t.addrs[x] = s.addrs[x]
  /\ w = "config" => \A x \in DOMAIN s.addrs : t.addrs[x] = s.addrs[x]
  /\ t.on[w] = enabled /\ t.on[Other(w)] = s.on[Other(w)]
  /\ t[Other(w)] = s[Other(w)]
  /\ (Unique(s[w]) => Unique(t[w])) /\ (s[w] = {} => t[w] = {})
PutOff(s, t, w) ==
  t[w] = s[w] /\ t.policy = s.policy /\ \A x \in DOMAIN s.addrs : t.addrs[x] = s.addrs[x]
PutOn(s, t, w, enabled) ==
  /\ Switched(t, w) /\ t.policy = enabled
  /\ ~enabled => \A r \in t[w] : ~r.enabled
  /\ MetricNow(s, w) => MetricNow(t, w)
  /\ w = "proto" =>
       \A x \in OwnOf(t) : /\ t.addrs[x].enabled = enabled
                           /\ t.addrs[x] = s.addrs[x]
                              \/ (enabled => t.addrs[x].policy = s.info.table)
Put(s, t, w, enabled) ==
  /\ PutFrame(s, t, w, enabled)
  /\ s.dev = NoDevice => PutOff(s, t, w)
  /\ s.dev # NoDevice => PutOn(s, t, w, enabled)
  /\ Sound(t) /\ (RuleInv(s) => RuleInv(t))

(* The addresses, and the routes after them. *)
LEMMA SwitchedAddresses ==
  ASSUME NEW s, Sound(s), NEW w \in Lists, NEW enabled \in BOOLEAN,
         NEW m \in Raw, OnFrame(s, m),
         NEW willing, NEW t, t = SwitchAddresses(m, ToSwitch(s, w, enabled), enabled, willing)
  PROVE  /\ t \in Raw /\ AddrFrame(m, t) /\ AddrInv(t) /\ (RuleInv(s) => RuleInv(t))
         /\ DOMAIN t.addrs = DOMAIN s.addrs
         /\ \A x \in DOMAIN s.addrs \cap External : t.addrs[x] = s.addrs[x]
         /\ w = "config" => \A x \in DOMAIN s.addrs : t.addrs[x] = s.addrs[x]
         /\ w = "proto" =>
              \A x \in OwnOf(t) : /\ t.addrs[x].enabled = enabled
                                  /\ t.addrs[x] = s.addrs[x]
                                     \/ (enabled => t.addrs[x].policy = s.info.table)
         /\ RouteInv(t) /\ t[w] = s[w] /\ t[Other(w)] = s[Other(w)]
<1>1. PICK S : S = ToSwitch(s, w, enabled)
  OBVIOUS
<1>2. m.addrs = s.addrs /\ m.info = s.info /\ m.dev = s.dev
  BY DEF OnFrame
<1>3. AddrInv(m) /\ (RuleInv(s) => RuleInv(m))
  BY AddrInvOf DEF Sound, OnFrame
<1>4. S \in SUBSET OwnOf(m) /\ \A x \in S : m.addrs[x].enabled # enabled
  BY <1>1, <1>2 DEF ToSwitch, OwnOf
<1>5. t \in Raw /\ Turned(m, S, enabled, t)
  BY <1>1, <1>3, <1>4, SwitchAddressesIs
<1>6. /\ AddrFrame(m, t) /\ AddrInv(t) /\ (RuleInv(m) => RuleInv(t))
      /\ DOMAIN t.addrs = DOMAIN m.addrs
      /\ \A x \in S : /\ t.addrs[x].enabled = enabled
                      /\ enabled => t.addrs[x].policy = m.info.table
      /\ \A x \in DOMAIN m.addrs \ S : t.addrs[x] = m.addrs[x]
  BY <1>5 DEF Turned
<1>7. \A x \in DOMAIN s.addrs \cap External : t.addrs[x] = s.addrs[x]
  BY <1>2, <1>4, <1>6 DEF OwnOf
<1>8. w = "config" => \A x \in DOMAIN s.addrs : t.addrs[x] = s.addrs[x]
  BY <1>1, <1>2, <1>6 DEF ToSwitch
<1>9. ASSUME w = "proto", NEW x \in OwnOf(t)
      PROVE  /\ t.addrs[x].enabled = enabled
             /\ t.addrs[x] = s.addrs[x] \/ (enabled => t.addrs[x].policy = s.info.table)
  <2>1. x \in DOMAIN s.addrs \ External
    BY <1>2, <1>6 DEF OwnOf
  <2>2. CASE x \in S
    BY <1>2, <1>6, <2>2
  <2>3. CASE x \notin S
    <3>1. s.addrs[x].enabled = enabled
      BY <1>1, <1>9, <2>1, <2>3 DEF ToSwitch
    <3> QED BY <1>2, <1>6, <2>1, <2>3, <3>1
  <2> QED BY <2>2, <2>3
<1>10. t.proto = s.proto /\ t.config = s.config /\ t.kroutes = s.kroutes /\ t.dev = s.dev
  BY <1>6 DEF AddrFrame, OnFrame
<1>11. s \in Raw
  BY DEF Sound
<1>12. t["proto"] = s["proto"] /\ t["config"] = s["config"]
  BY <1>5, <1>10, <1>11
<1>13. t[w] = s[w] /\ t[Other(w)] = s[Other(w)]
  BY <1>12 DEF Lists, Other
<1>14. RouteInv(t)
  BY <1>10, <1>12, RouteInvOf DEF Sound
<1> QED BY <1>2, <1>3, <1>5, <1>6, <1>7, <1>8, <1>9, <1>13, <1>14

(* One route to a target in the configuration, whichever list is switched.  *)
LEMMA UniqueConfig ==
  ASSUME NEW s \in Raw, NEW t \in Raw, NEW w \in Lists, Unique(s.config),
         Unique(s[w]) => Unique(t[w]), t[Other(w)] = s[Other(w)]
  PROVE  Unique(t.config)
<1>1. s["config"] = s.config /\ t["config"] = t.config
  OBVIOUS
<1>2. CASE w = "config"
  BY <1>1, <1>2
<1>3. CASE w = "proto"
  BY <1>1, <1>3 DEF Other
<1> QED BY <1>2, <1>3 DEF Lists

(* interface_ip_set_enabled: the list is switched and the kernel is right.  *)
LEMMA SetEnabledKeeps ==
  ASSUME NEW s, Sound(s), NEW w \in Lists, NEW enabled \in BOOLEAN,
         enabled /\ s.dev # NoDevice => Unique(s[w]), NEW willing,
         NEW t, t = SetEnabled(s, w, enabled, willing)
  PROVE  Put(s, t, w, enabled)
<1>0. /\ s \in Raw /\ AddrInv(s) /\ RouteInv(s) /\ PolicyInv(s) /\ HostInv(s)
      /\ Unique(s.config)
  BY DEF Sound
<1>1. PICK m : m = WithOn(s, w, enabled)
  OBVIOUS
<1>2. PICK a1 : a1 = SwitchAddresses(m, ToSwitch(s, w, enabled), enabled, willing)
  OBVIOUS
<1>3. PICK r1 : r1 = SwitchRoutes(a1, w, s[w], enabled, willing)
  OBVIOUS
<1>4. t = IF s.dev = NoDevice THEN m ELSE SetPolicy(r1, enabled)
  <2>1. t = SetEnabledBy(s, w, enabled, willing)
    BY SetEnabledIs
  <2> QED BY <1>1, <1>2, <1>3, <2>1 DEF SetEnabledBy, WithOn
<1>5. /\ m \in Raw /\ OnFrame(s, m)
      /\ m.on[w] = enabled /\ m.on[Other(w)] = s.on[Other(w)]
  BY <1>0, <1>1, OnIs
<1>6. CASE s.dev = NoDevice
  <2>1. t = m
    BY <1>4, <1>6
  <2>2. /\ t \in Raw /\ t.state = s.state /\ t.dev = s.dev /\ t.info = s.info
        /\ t.policy = s.policy /\ t.addrs = s.addrs /\ t.proto = s.proto
        /\ t.config = s.config /\ t.hosts = s.hosts /\ t.kaddrs = s.kaddrs
        /\ t.krules = s.krules /\ t.ksubnets = s.ksubnets /\ t.kroutes = s.kroutes
        /\ t.khosts = s.khosts /\ t.kpolicy = s.kpolicy
    BY <1>5, <2>1 DEF OnFrame
  <2>3. t["proto"] = s["proto"] /\ t["config"] = s["config"]
    BY <1>0, <2>2
  <2>4. t[w] = s[w] /\ t[Other(w)] = s[Other(w)]
    BY <2>3 DEF Lists, Other
  <2>5. AddrInv(t) /\ (RuleInv(s) => RuleInv(t))
    BY <1>0, <2>2, AddrInvOf
  <2>6. RouteInv(t)
    BY <1>0, <2>2, <2>3, RouteInvOf
  <2>7. PolicyInv(t) /\ HostInv(t) /\ Unique(t.config)
    BY <1>0, <2>2 DEF PolicyInv, HostInv
  <2>8. Sound(t)
    BY <2>2, <2>5, <2>6, <2>7 DEF Sound
  <2>9. PutFrame(s, t, w, enabled)
    BY <1>5, <2>1, <2>2, <2>4 DEF PutFrame
  <2>10. PutOff(s, t, w)
    BY <2>2, <2>4 DEF PutOff
  <2> QED BY <1>6, <2>5, <2>8, <2>9, <2>10 DEF Put
<1>7. CASE s.dev # NoDevice
  <2>1. t = SetPolicy(r1, enabled)
    BY <1>4, <1>7
  <2>2. /\ a1 \in Raw /\ AddrFrame(m, a1) /\ AddrInv(a1) /\ (RuleInv(s) => RuleInv(a1))
        /\ DOMAIN a1.addrs = DOMAIN s.addrs
        /\ \A x \in DOMAIN s.addrs \cap External : a1.addrs[x] = s.addrs[x]
        /\ w = "config" => \A x \in DOMAIN s.addrs : a1.addrs[x] = s.addrs[x]
        /\ w = "proto" =>
             \A x \in OwnOf(a1) : /\ a1.addrs[x].enabled = enabled
                                  /\ a1.addrs[x] = s.addrs[x]
                                     \/ (enabled => a1.addrs[x].policy = s.info.table)
        /\ RouteInv(a1) /\ a1[w] = s[w] /\ a1[Other(w)] = s[Other(w)]
    BY <1>2, <1>5, SwitchedAddresses
  <2>3. PICK S : S = s[w]
    OBVIOUS
  <2>4. r1 \in Raw /\ Served(a1, w, S, S, enabled, r1)
    BY <1>3, <1>7, <2>2, <2>3, SwitchRoutesIs
  <2>5. /\ RouteFrame(a1, r1) /\ RouteInv(r1) /\ r1[Other(w)] = a1[Other(w)]
        /\ Unique(a1[w]) => Unique(r1[w])
        /\ S = {} => r1[w] = {}
        /\ \A q \in r1[w] : /\ q.enabled = (enabled /\ EnableRoute(a1, w, q))
                            /\ q.enabled => q \in S \/ MetricOf(a1, q)
    BY <2>4 DEF Served
  <2>6. r1.policy = s.policy /\ r1.kpolicy = s.kpolicy /\ r1.dev = s.dev
    BY <1>5, <2>2, <2>5 DEF OnFrame, AddrFrame, RouteFrame
  <2>7. /\ t \in Raw /\ PolicyFrame(r1, t) /\ t.policy = enabled
        /\ t.kpolicy = (IF t.policy THEN {t.dev} ELSE {})
    BY <1>0, <2>1, <2>4, <2>6, SetPolicyIs DEF PolicyInv
  <2>8. /\ t.state = s.state /\ t.dev = s.dev /\ t.info = s.info /\ t.on = m.on
        /\ t.hosts = s.hosts /\ t.khosts = s.khosts
        /\ a1.dev = s.dev /\ a1.info = s.info /\ a1.on = m.on
    BY <1>5, <2>2, <2>5, <2>7 DEF OnFrame, AddrFrame, RouteFrame, PolicyFrame
  <2>9. /\ t.addrs = a1.addrs /\ t.kaddrs = a1.kaddrs /\ t.krules = a1.krules
        /\ t.ksubnets = a1.ksubnets
    BY <2>5, <2>7 DEF RouteFrame, PolicyFrame
  <2>10. t.proto = r1.proto /\ t.config = r1.config /\ t.kroutes = r1.kroutes /\ t.dev = r1.dev
    BY <2>7 DEF PolicyFrame
  <2>11. t["proto"] = r1["proto"] /\ t["config"] = r1["config"]
    BY <2>4, <2>7, <2>10
  <2>12. t[w] = r1[w] /\ t[Other(w)] = s[Other(w)]
    BY <2>2, <2>5, <2>11 DEF Lists, Other
  <2>13. AddrInv(t) /\ (RuleInv(s) => RuleInv(t))
    BY <2>2, <2>8, <2>9, AddrInvOf
  <2>14. RouteInv(t)
    BY <2>5, <2>10, <2>11, RouteInvOf
  <2>15. Unique(s[w]) => Unique(t[w])
    BY <2>2, <2>5, <2>12
  <2>16. Sound(t)
    <3>1. Unique(t.config)
      BY <1>0, <2>7, <2>12, <2>15, UniqueConfig
    <3>2. PolicyInv(t) /\ HostInv(t)
      BY <1>0, <1>7, <2>7, <2>8 DEF PolicyInv, HostInv
    <3> QED BY <2>7, <2>13, <2>14, <3>1, <3>2 DEF Sound
  <2>17. PutFrame(s, t, w, enabled)
    BY <1>5, <2>2, <2>3, <2>5, <2>8, <2>9, <2>12, <2>15 DEF PutFrame
  <2>18. PutOn(s, t, w, enabled)
    <3>1. \A q : EnableRoute(t, w, q) = EnableRoute(a1, w, q)
      BY <2>8 DEF EnableRoute
    <3>2. ASSUME NEW q \in t[w] PROVE q.enabled = EnableRoute(t, w, q)
      <4>1. q.enabled = (enabled /\ EnableRoute(a1, w, q))
        BY <2>5, <2>12
      <4>2. EnableRoute(a1, w, q) => enabled
        BY <1>5, <2>8 DEF EnableRoute
      <4>3. EnableRoute(a1, w, q) \in BOOLEAN
        BY <2>2 DEF EnableRoute, Raw
      <4> QED BY <3>1, <4>1, <4>2, <4>3
    <3>3. ~enabled => \A r \in t[w] : ~r.enabled
      BY <2>5, <2>12
    <3>4. MetricNow(s, w) => MetricNow(t, w)
      BY <2>3, <2>5, <2>8, <2>12 DEF MetricNow, MetricOf
    <3>5. w = "proto" =>
            \A x \in OwnOf(t) : /\ t.addrs[x].enabled = enabled
                                /\ t.addrs[x] = s.addrs[x]
                                   \/ (enabled => t.addrs[x].policy = s.info.table)
      BY <2>2, <2>9 DEF OwnOf
    <3> QED BY <2>7, <3>2, <3>3, <3>4, <3>5 DEF PutOn, Switched
  <2> QED BY <1>7, <2>13, <2>16, <2>17, <2>18 DEF Put
<1> QED BY <1>6, <1>7

(* What SetBoth leaves. *)
ListPut(s, t, w, enabled) ==
  /\ t.on[w] = enabled
  /\ (Unique(s[w]) => Unique(t[w])) /\ (s[w] = {} => t[w] = {})
  /\ s.dev = NoDevice => t[w] = s[w]
  /\ s.dev # NoDevice => /\ Switched(t, w)
                         /\ ~enabled => \A r \in t[w] : ~r.enabled
                         /\ MetricNow(s, w) => MetricNow(t, w)
AddrsPut(s, t, enabled) ==
  /\ DOMAIN t.addrs = DOMAIN s.addrs
  /\ \A x \in DOMAIN s.addrs \cap External : t.addrs[x] = s.addrs[x]
  /\ \A x \in OwnOf(t) :
       \/ t.addrs[x] = s.addrs[x]
       \/ t.addrs[x].enabled = enabled /\ (enabled => t.addrs[x].policy = s.info.table)
  /\ s.dev # NoDevice => \A x \in OwnOf(t) : t.addrs[x].enabled = enabled
BothPut(s, t, enabled) ==
  /\ Sound(t) /\ (RuleInv(s) => RuleInv(t))
  /\ t.state = s.state /\ t.dev = s.dev /\ t.info = s.info
  /\ t.hosts = s.hosts /\ t.khosts = s.khosts
  /\ \A w \in Lists : ListPut(s, t, w, enabled[w])
  /\ AddrsPut(s, t, enabled.proto)
  /\ s.dev # NoDevice => t.policy = enabled.proto \/ t.policy = enabled.config

(* A list that stays, under flags and settings that stay. *)
LEMMA SwitchedStays ==
  ASSUME NEW s, NEW t, NEW w, t[w] = s[w], t.on[w] = s.on[w], t.info = s.info
  PROVE  /\ Switched(s, w) => Switched(t, w)
         /\ MetricNow(s, w) => MetricNow(t, w)
BY DEF Switched, MetricNow, EnableRoute

(* Both lists, in the order of the caller. *)
LEMMA SetBothKeeps ==
  ASSUME NEW s, Sound(s), NEW first \in Lists,
         NEW enabled \in [proto : BOOLEAN, config : BOOLEAN],
         enabled.proto /\ s.dev # NoDevice => Unique(s.proto), NEW willing,
         NEW t, t = SetBoth(s, first, enabled, willing)
  PROVE  BothPut(s, t, enabled)
<1>1. PICK second : second = Other(first)
  OBVIOUS
<1>2. /\ second \in Lists /\ first = Other(second) /\ second = Other(first)
      /\ \A w \in Lists : w = first \/ w = second
      /\ first # second
      /\ (first = "proto" /\ second = "config") \/ (first = "config" /\ second = "proto")
  BY <1>1 DEF Other, Lists
<1>3. PICK e1 : e1 = enabled[first]
  OBVIOUS
<1>4. PICK e2 : e2 = enabled[second]
  OBVIOUS
<1>5. /\ e1 \in BOOLEAN /\ e2 \in BOOLEAN
      /\ enabled["proto"] = enabled.proto /\ enabled["config"] = enabled.config
  BY <1>2, <1>3, <1>4
<1>6. PICK m : m = SetEnabled(s, first, e1, willing)
  OBVIOUS
<1>7. t = SetEnabled(m, second, e2, willing)
  BY <1>1, <1>3, <1>4, <1>6 DEF SetBoth, Other
<1>8. s \in Raw /\ Unique(s["config"]) /\ (enabled["proto"] /\ s.dev # NoDevice => Unique(s["proto"]))
  BY <1>5 DEF Sound
<1>9. Put(s, m, first, e1)
  <2>1. e1 /\ s.dev # NoDevice => Unique(s[first])
    BY <1>2, <1>3, <1>8
  <2> QED BY <1>5, <1>6, <2>1, SetEnabledKeeps
<1>10. Sound(m) /\ (RuleInv(s) => RuleInv(m)) /\ PutFrame(s, m, first, e1)
  BY <1>9 DEF Put
<1>11. m.dev = s.dev /\ m.info = s.info /\ m[second] = s[second]
  BY <1>1, <1>10 DEF PutFrame
<1>12. Put(m, t, second, e2)
  <2>1. e2 /\ m.dev # NoDevice => Unique(m[second])
    BY <1>2, <1>4, <1>8, <1>11
  <2> QED BY <1>2, <1>5, <1>7, <1>10, <2>1, SetEnabledKeeps
<1>13. Sound(t) /\ (RuleInv(m) => RuleInv(t)) /\ PutFrame(m, t, second, e2)
  BY <1>12 DEF Put
<1>14. /\ t.state = s.state /\ t.dev = s.dev /\ t.info = s.info
       /\ t.hosts = s.hosts /\ t.khosts = s.khosts
  BY <1>10, <1>13 DEF PutFrame
<1>15. ListPut(s, t, first, e1)
  <2>1. t[first] = m[first] /\ t.on[first] = m.on[first] /\ m.on[first] = e1 /\ t.info = m.info
    BY <1>2, <1>10, <1>13 DEF PutFrame
  <2>2. /\ Unique(s[first]) => Unique(m[first])
        /\ s[first] = {} => m[first] = {}
    BY <1>10 DEF PutFrame
  <2>3. s.dev = NoDevice => m[first] = s[first]
    BY <1>9 DEF Put, PutOff
  <2>4. s.dev # NoDevice => /\ Switched(m, first)
                            /\ ~e1 => \A r \in m[first] : ~r.enabled
                            /\ MetricNow(s, first) => MetricNow(m, first)
    BY <1>9 DEF Put, PutOn
  <2> QED BY <2>1, <2>2, <2>3, <2>4, SwitchedStays DEF ListPut
<1>16. ListPut(s, t, second, e2)
  <2>1. t.on[second] = e2 /\ m[second] = s[second] /\ m.dev = s.dev
    BY <1>11, <1>13 DEF PutFrame
  <2>2. /\ Unique(m[second]) => Unique(t[second])
        /\ m[second] = {} => t[second] = {}
    BY <1>13 DEF PutFrame
  <2>3. m.dev = NoDevice => t[second] = m[second]
    BY <1>12 DEF Put, PutOff
  <2>4. m.dev # NoDevice => /\ Switched(t, second)
                            /\ ~e2 => \A r \in t[second] : ~r.enabled
                            /\ MetricNow(m, second) => MetricNow(t, second)
    BY <1>12 DEF Put, PutOn
  <2>5. MetricNow(s, second) => MetricNow(m, second)
    BY <1>11 DEF MetricNow
  <2> QED BY <2>1, <2>2, <2>3, <2>4, <2>5 DEF ListPut
<1>17. \A w \in Lists : ListPut(s, t, w, enabled[w])
  BY <1>2, <1>3, <1>4, <1>15, <1>16
<1>18. AddrsPut(s, t, enabled.proto)
  <2>1. /\ DOMAIN t.addrs = DOMAIN s.addrs /\ DOMAIN m.addrs = DOMAIN s.addrs
        /\ \A x \in DOMAIN s.addrs \cap External : t.addrs[x] = s.addrs[x]
    BY <1>10, <1>13 DEF PutFrame
  <2>2. OwnOf(t) = OwnOf(s) /\ OwnOf(m) = OwnOf(s) /\ \A x \in OwnOf(s) : x \in DOMAIN s.addrs
    BY <2>1 DEF OwnOf
  <2>3. CASE s.dev = NoDevice
    <3>1. \A x \in DOMAIN s.addrs : m.addrs[x] = s.addrs[x]
      BY <1>9, <2>3 DEF Put, PutOff
    <3>2. \A x \in DOMAIN m.addrs : t.addrs[x] = m.addrs[x]
      BY <1>11, <1>12, <2>3 DEF Put, PutOff
    <3> QED BY <2>1, <2>2, <2>3, <3>1, <3>2 DEF AddrsPut
  <2>4. CASE s.dev # NoDevice /\ first = "proto"
    <3>1. \A x \in OwnOf(m) : /\ m.addrs[x].enabled = e1
                              /\ m.addrs[x] = s.addrs[x]
                                 \/ (e1 => m.addrs[x].policy = s.info.table)
      BY <1>9, <2>4 DEF Put, PutOn
    <3>2. \A x \in DOMAIN m.addrs : t.addrs[x] = m.addrs[x]
      BY <1>2, <1>13, <2>4 DEF PutFrame
    <3>3. e1 = enabled.proto
      BY <1>3, <1>5, <2>4
    <3>4. ASSUME NEW x \in OwnOf(t)
          PROVE  /\ t.addrs[x].enabled = enabled.proto
                 /\ \/ t.addrs[x] = s.addrs[x]
                    \/ enabled.proto => t.addrs[x].policy = s.info.table
      <4>1. x \in OwnOf(m) /\ t.addrs[x] = m.addrs[x]
        BY <2>1, <2>2, <3>2
      <4> QED BY <3>1, <3>3, <4>1
    <3> QED BY <2>1, <3>4 DEF AddrsPut
  <2>5. CASE s.dev # NoDevice /\ first = "config"
    <3>1. \A x \in OwnOf(t) : /\ t.addrs[x].enabled = e2
                              /\ t.addrs[x] = m.addrs[x]
                                 \/ (e2 => t.addrs[x].policy = m.info.table)
      BY <1>2, <1>11, <1>12, <2>5 DEF Put, PutOn
    <3>2. \A x \in DOMAIN s.addrs : m.addrs[x] = s.addrs[x]
      BY <1>10, <2>5 DEF PutFrame
    <3>3. e2 = enabled.proto
      BY <1>2, <1>4, <1>5, <2>5
    <3>4. ASSUME NEW x \in OwnOf(t)
          PROVE  /\ t.addrs[x].enabled = enabled.proto
                 /\ \/ t.addrs[x] = s.addrs[x]
                    \/ enabled.proto => t.addrs[x].policy = s.info.table
      <4>1. m.addrs[x] = s.addrs[x]
        BY <2>2, <3>2
      <4> QED BY <1>11, <3>1, <3>3, <4>1
    <3> QED BY <2>1, <3>4 DEF AddrsPut
  <2> QED BY <2>3, <2>4, <2>5 DEF Lists
<1>19. s.dev # NoDevice => t.policy = enabled.proto \/ t.policy = enabled.config
  <2>1. m.dev # NoDevice => t.policy = e2
    BY <1>12 DEF Put, PutOn
  <2> QED BY <1>2, <1>4, <1>5, <1>11, <2>1
<1> QED BY <1>10, <1>13, <1>14, <1>17, <1>18, <1>19 DEF BothPut

(* Everything is switched off. *)
Quiet(s) ==
  /\ \A w \in Lists : ~s.on[w] /\ \A r \in s[w] : ~r.enabled
  /\ \A x \in OwnOf(s) : ~s.addrs[x].enabled
  /\ ~s.policy

(* ... and off. *)
LEMMA OffIs ==
  ASSUME NEW s, Sound(s), s.dev = NoDevice => Idle(s) /\ Switched(s, "config"),
         NEW willing, NEW t, t = SetBoth(s, "config", Off, willing)
  PROVE  BothPut(s, t, Off) /\ Quiet(t)
<1>1. /\ Off \in [proto : BOOLEAN, config : BOOLEAN]
      /\ ~Off.proto /\ ~Off.config /\ ~Off["proto"] /\ ~Off["config"]
  BY DEF Off
<1>2. "config" \in Lists /\ "proto" \in Lists
  BY DEF Lists
<1>3. BothPut(s, t, Off)
  BY <1>1, <1>2, SetBothKeeps
<1>4. /\ s \in Raw /\ t \in Raw /\ t.dev = s.dev /\ PolicyInv(t)
      /\ t.on["proto"] = Off["proto"] /\ t.on["config"] = Off["config"]
      /\ DOMAIN t.addrs = DOMAIN s.addrs
  BY <1>2, <1>3 DEF BothPut, Sound, ListPut, AddrsPut
<1>5. CASE s.dev = NoDevice
  <2>1. t["proto"] = s["proto"] /\ t["config"] = s["config"]
    BY <1>2, <1>3, <1>5 DEF BothPut, ListPut
  <2>2. s["proto"] = {} /\ ~s.on["config"] /\ DOMAIN s.addrs = {}
    BY <1>4, <1>5 DEF Idle
  <2>3. ASSUME NEW r \in s["config"] PROVE ~r.enabled
    BY <1>5, <2>2 DEF Switched, EnableRoute
  <2>4. OwnOf(t) = {} /\ ~t.policy
    BY <1>4, <1>5, <2>2 DEF OwnOf, PolicyInv
  <2> QED BY <1>1, <1>3, <1>4, <2>1, <2>2, <2>3, <2>4 DEF Quiet, Lists
<1>6. CASE s.dev # NoDevice
  <2>1. /\ \A r \in t["proto"] : ~r.enabled
        /\ \A r \in t["config"] : ~r.enabled
    BY <1>1, <1>2, <1>3, <1>6 DEF BothPut, ListPut
  <2>2. \A x \in OwnOf(t) : ~t.addrs[x].enabled
    BY <1>1, <1>3, <1>6 DEF BothPut, AddrsPut
  <2>3. ~t.policy
    BY <1>1, <1>3, <1>6 DEF BothPut
  <2> QED BY <1>1, <1>3, <1>4, <2>1, <2>2, <2>3 DEF Quiet, Lists
<1> QED BY <1>5, <1>6

(* Flush, with its loops by name. *)
FlushBy(s) ==
  DropAddresses(DropRoutes([s EXCEPT !.hosts = {}, !.khosts = {}], "proto", s.proto),
                DOMAIN s.addrs)

(* It is the same. *)
LEMMA FlushIs == \A s : Flush(s) = FlushBy(s)
BY DEF Flush, FlushBy, FoldSet, MapThenFoldSet, DropAddresses, DropRoutes, Pick, Rest

Flushed(s, t) ==
  /\ Sound(t) /\ (RuleInv(s) => RuleInv(t))
  /\ t.state = s.state /\ t.dev = s.dev /\ t.info = s.info /\ t.on = s.on
  /\ t.policy = s.policy /\ t.config = s.config
  /\ t.proto = {} /\ DOMAIN t.addrs = {} /\ t.hosts = {} /\ t.khosts = {}

NoHosts(s) == [s EXCEPT !.hosts = {}, !.khosts = {}]

(* interface_ip_flush: nothing of the protocol is left. *)
LEMMA FlushKeeps ==
  ASSUME NEW s, Sound(s), NEW t, t = Flush(s)
  PROVE  Flushed(s, t)
<1>0. /\ s \in Raw /\ AddrInv(s) /\ RouteInv(s) /\ PolicyInv(s) /\ Unique(s.config)
  BY DEF Sound
<1>1. PICK h : h = NoHosts(s)
  OBVIOUS
<1>2. PICK P : P = s["proto"]
  OBVIOUS
<1>3. PICK A : A = DOMAIN s.addrs
  OBVIOUS
<1>4. PICK r : r = DropRoutes(h, "proto", P)
  OBVIOUS
<1>5. t = DropAddresses(r, A)
  <2>1. t = FlushBy(s)
    BY FlushIs
  <2>2. s["proto"] = s.proto
    OBVIOUS
  <2> QED BY <1>1, <1>2, <1>3, <1>4, <2>1, <2>2 DEF FlushBy, NoHosts
<1>6. h \in Raw
  BY <1>0, <1>1, ZenonT(60) DEF Raw, NoHosts
<1>7. /\ h.state = s.state /\ h.dev = s.dev /\ h.info = s.info /\ h.on = s.on
      /\ h.policy = s.policy /\ h.addrs = s.addrs /\ h.proto = s.proto
      /\ h.config = s.config /\ h.kaddrs = s.kaddrs /\ h.krules = s.krules
      /\ h.ksubnets = s.ksubnets /\ h.kroutes = s.kroutes /\ h.kpolicy = s.kpolicy
      /\ h.hosts = {} /\ h.khosts = {}
  BY <1>0, <1>1, SMT DEF Raw, NoHosts
<1>8. h["proto"] = s["proto"] /\ h["config"] = s["config"] /\ s["config"] = s.config
  BY <1>0, <1>6, <1>7
<1>9. RouteInv(h) /\ AddrInv(h) /\ (RuleInv(s) => RuleInv(h))
  <2>1. RouteInv(h)
    BY <1>0, <1>7, <1>8, RouteInvOf
  <2>2. AddrInv(h) /\ (RuleInv(s) => RuleInv(h))
    BY <1>0, <1>7, AddrInvOf
  <2> QED BY <2>1, <2>2
<1>10. r \in Raw /\ Shed(h, "proto", P, r)
  <2>1. P \in SUBSET h["proto"] /\ "proto" \in Lists
    BY <1>2, <1>8 DEF Lists
  <2> QED BY <1>4, <1>6, <1>9, <2>1, DropRoutesIs
<1>11. /\ RouteFrame(h, r) /\ RouteInv(r)
       /\ r["proto"] = {} /\ r["config"] = s["config"]
  BY <1>2, <1>8, <1>10 DEF Shed, Other
<1>12. /\ r.addrs = s.addrs /\ r.kaddrs = h.kaddrs /\ r.krules = h.krules
       /\ r.ksubnets = h.ksubnets /\ r.dev = h.dev /\ r.addrs = h.addrs
  BY <1>7, <1>11 DEF RouteFrame
<1>13. AddrInv(r) /\ (RuleInv(h) => RuleInv(r))
  BY <1>9, <1>12, AddrInvOf
<1>14. t \in Raw /\ Dropped(r, A, t)
  <2>1. A \in SUBSET DOMAIN r.addrs
    BY <1>3, <1>12
  <2> QED BY <1>5, <1>10, <1>13, <2>1, DropAddressesIs
<1>15. /\ AddrFrame(r, t) /\ AddrInv(t) /\ (RuleInv(r) => RuleInv(t))
       /\ DOMAIN t.addrs = {}
  BY <1>3, <1>12, <1>14 DEF Dropped
<1>16. /\ t.state = s.state /\ t.dev = s.dev /\ t.info = s.info /\ t.on = s.on
       /\ t.policy = s.policy /\ t.kpolicy = s.kpolicy /\ t.hosts = {} /\ t.khosts = {}
       /\ t.proto = r.proto /\ t.config = r.config /\ t.kroutes = r.kroutes /\ t.dev = r.dev
  BY <1>7, <1>11, <1>15 DEF RouteFrame, AddrFrame
<1>17. /\ t["proto"] = r["proto"] /\ t["config"] = r["config"]
       /\ r.proto = {} /\ r.config = s.config
  BY <1>8, <1>10, <1>11, <1>14, <1>16
<1>18. RouteInv(t)
  BY <1>11, <1>16, <1>17, RouteInvOf
<1>19. PolicyInv(t) /\ HostInv(t)
  BY <1>0, <1>16 DEF PolicyInv, HostInv
<1>20. Sound(t)
  BY <1>0, <1>14, <1>15, <1>16, <1>17, <1>18, <1>19 DEF Sound
<1> QED BY <1>9, <1>13, <1>15, <1>16, <1>17, <1>20 DEF Flushed

(***************************************************************************)
(* Another layer 3 device, another state                                   *)
(***************************************************************************)

Empty(s) == s.proto = {} /\ DOMAIN s.addrs = {} /\ s.hosts = {} /\ s.khosts = {}

(* All but the device and the state. *)
PlaceFrame(s, t) ==
  /\ t.info = s.info /\ t.policy = s.policy /\ t.on = s.on
  /\ t.addrs = s.addrs /\ t.proto = s.proto /\ t.config = s.config /\ t.hosts = s.hosts
  /\ t.kaddrs = s.kaddrs /\ t.krules = s.krules /\ t.ksubnets = s.ksubnets
  /\ t.kroutes = s.kroutes /\ t.khosts = s.khosts /\ t.kpolicy = s.kpolicy

Moved(s, d) == [s EXCEPT !.dev = d]
WithState(s, state) == [s EXCEPT !.state = state]

(* Another device ... *)
LEMMA MovedIs ==
  ASSUME NEW s \in Raw, NEW d \in DeviceOrNone, NEW t, t = Moved(s, d)
  PROVE  t \in Raw /\ PlaceFrame(s, t) /\ t.dev = d /\ t.state = s.state
<1>1. t \in Raw
  BY ZenonT(60) DEF Raw, Moved
<1>2. PlaceFrame(s, t) /\ t.dev = d /\ t.state = s.state
  BY SMT DEF Raw, PlaceFrame, Moved
<1> QED BY <1>1, <1>2

(* ... and another state. *)
LEMMA WithStateIs ==
  ASSUME NEW s \in Raw, NEW state \in {"DOWN", "SETUP", "UP", "TEARDOWN"},
         NEW t, t = WithState(s, state)
  PROVE  t \in Raw /\ PlaceFrame(s, t) /\ t.state = state /\ t.dev = s.dev
<1>1. t \in Raw
  BY Zenon DEF Raw, WithState
<1>2. PlaceFrame(s, t) /\ t.dev = s.dev /\ t.state = state
  BY SMT DEF Raw, PlaceFrame, WithState
<1> QED BY <1>1, <1>2

(* With nothing switched on and nothing there, the kernel has nothing.      *)
LEMMA NothingThere ==
  ASSUME NEW s, Sound(s), Quiet(s), Empty(s)
  PROVE  /\ s.kaddrs = {} /\ s.ksubnets = {} /\ s.kroutes = {} /\ s.kpolicy = {}
         /\ RuleInv(s) => s.krules = {}
<1>1. OwnOf(s) = {}
  BY DEF Empty, OwnOf
<1>2. s.kaddrs = {} /\ s.ksubnets = {}
  BY <1>1 DEF Sound, AddrInv
<1>3. s.kroutes = {}
  <2>1. RouteTargets(s) = {}
    <3>1. s["proto"] = s.proto /\ s["config"] = s.config
      BY DEF Sound, Raw
    <3>2. \A r \in s.proto \cup s.config : ~r.enabled
      BY <3>1 DEF Quiet, Lists
    <3> QED BY <3>2 DEF RouteTargets
  <2> QED BY <2>1 DEF Sound, RouteInv
<1>4. s.kpolicy = {}
  BY DEF Sound, PolicyInv, Quiet
<1>5. RuleInv(s) => s.krules = {}
  BY DEF RuleInv, Empty
<1> QED BY <1>2, <1>3, <1>4, <1>5

(* ... so that the device and the state may change. *)
LEMMA PlaceKeeps ==
  ASSUME NEW s, Sound(s), Quiet(s), Empty(s), NEW t \in Raw, PlaceFrame(s, t)
  PROVE  Sound(t) /\ Quiet(t) /\ Empty(t) /\ (RuleInv(s) => RuleInv(t))
<1>0. s \in Raw
  BY DEF Sound
<1>1. /\ s.kaddrs = {} /\ s.ksubnets = {} /\ s.kroutes = {} /\ s.kpolicy = {}
      /\ RuleInv(s) => s.krules = {}
  BY NothingThere
<1>2. t["proto"] = s["proto"] /\ t["config"] = s["config"]
  BY <1>0 DEF PlaceFrame
<1>3. OwnOf(t) = {} /\ OwnOf(s) = {}
  BY DEF Empty, OwnOf, PlaceFrame
<1>4. Empty(t) /\ Quiet(t)
  BY <1>2, <1>3 DEF Empty, PlaceFrame, Quiet, Lists
<1>5. AddrInv(t) /\ (RuleInv(s) => RuleInv(t))
  BY <1>1, <1>3 DEF AddrInv, RuleInv, PlaceFrame
<1>6. RouteInv(t)
  <2>1. \A w \in Lists : Tidy(s[w])
    BY RouteInvIs DEF Sound
  <2>2. \A w \in Lists : Tidy(t[w])
    BY <1>2, <2>1 DEF Lists
  <2>3. \A r \in t.proto \cup t.config : ~r.enabled
    BY <1>0, <1>2 DEF Quiet, Lists, PlaceFrame
  <2>4. Known(t) /\ There(t)
    BY <1>1, <2>3 DEF Known, There, PlaceFrame
  <2> QED BY <2>2, <2>4, RouteInvIs
<1>7. PolicyInv(t) /\ HostInv(t) /\ Unique(t.config)
  BY <1>1 DEF Sound, PolicyInv, HostInv, PlaceFrame, Quiet, Empty
<1> QED BY <1>4, <1>5, <1>6, <1>7 DEF Sound

(* ... and then every setting is followed. *)
LEMMA QuietIs ==
  ASSUME NEW s \in Raw, Quiet(s), Empty(s)
  PROVE  /\ Idle(s) /\ \A w \in Lists : Switched(s, w) /\ MetricNow(s, w)
         /\ OwnNow(s) /\ ExternalNow(s) /\ Unique(s.proto)
<1>1. /\ s.on["config"] = s.on.config
      /\ \A w \in Lists : s.on[w] \in BOOLEAN /\ \A r \in s[w] : r.enabled \in BOOLEAN
  <2>1. /\ s.proto \in SUBSET RoutesTo(ProtoRoutes) /\ s.config \in SUBSET RoutesTo(ConfigRoutes)
        /\ s.on \in [proto : BOOLEAN, config : BOOLEAN]
        /\ s["proto"] = s.proto /\ s["config"] = s.config
    BY DEF Raw
  <2> QED BY <2>1 DEF RoutesTo, Lists
<1>2. \A w \in Lists : Switched(s, w) /\ MetricNow(s, w)
  BY <1>1 DEF Switched, MetricNow, Quiet, EnableRoute
<1>3. Idle(s)
  BY <1>1 DEF Idle, Quiet, Empty, Lists
<1>4. OwnNow(s) /\ ExternalNow(s) /\ Unique(s.proto)
  BY DEF Empty, OwnNow, OwnOf, ExternalNow, Unique
<1> QED BY <1>2, <1>3, <1>4

(* Switched off and flushed. *)
Cleared(s, t) ==
  /\ Sound(t) /\ Quiet(t) /\ Empty(t) /\ (RuleInv(s) => RuleInv(t))
  /\ t.state = s.state /\ t.dev = s.dev /\ t.info = s.info

(* What comes before a change of the device and in mark_interface_down. *)
LEMMA ClearIs ==
  ASSUME NEW s, Sound(s), s.dev = NoDevice => Idle(s), Switched(s, "config"),
         NEW willing, NEW t, t = Flush(SetBoth(s, "config", Off, willing))
  PROVE  Cleared(s, t)
<1>1. PICK m : m = SetBoth(s, "config", Off, willing)
  OBVIOUS
<1>2. BothPut(s, m, Off) /\ Quiet(m)
  BY <1>1, OffIs
<1>3. /\ Sound(m) /\ (RuleInv(s) => RuleInv(m))
      /\ m.state = s.state /\ m.dev = s.dev /\ m.info = s.info
  BY <1>2 DEF BothPut
<1>4. Flushed(m, t)
  BY <1>1, <1>3, FlushKeeps
<1>5. /\ Sound(t) /\ (RuleInv(m) => RuleInv(t))
      /\ t.state = m.state /\ t.dev = m.dev /\ t.info = m.info /\ t.on = m.on
      /\ t.policy = m.policy /\ t.config = m.config
      /\ t.proto = {} /\ DOMAIN t.addrs = {} /\ t.hosts = {} /\ t.khosts = {}
  BY <1>4 DEF Flushed
<1>6. t["proto"] = t.proto /\ t["config"] = t.config /\ m["config"] = m.config
  BY <1>3, <1>5 DEF Sound, Raw
<1>7. Quiet(t)
  BY <1>2, <1>5, <1>6 DEF Quiet, Lists, OwnOf
<1> QED BY <1>3, <1>5, <1>7 DEF Cleared, Empty

(* What interface_set_l3_dev leaves. *)
Followed(s) ==
  /\ \A w \in Lists : Switched(s, w) /\ MetricNow(s, w)
  /\ OwnNow(s) /\ ExternalNow(s) /\ Unique(s.proto)
L3Set(s, d, claimed, t) ==
  /\ Sound(t) /\ (RuleInv(s) => RuleInv(t)) /\ Followed(t)
  /\ t.state = s.state /\ t.info = s.info /\ t.dev = d
  /\ t.proto = {} /\ DOMAIN t.addrs = {}
  /\ ~claimed \/ ~s.on.config => Idle(t)

(* interface_set_l3_dev, to another device. *)
LEMMA SetL3DevKeeps ==
  ASSUME NEW s, Sound(s), s.dev = NoDevice => Idle(s), Switched(s, "config"),
         NEW d \in Devices, d # s.dev, NEW claimed \in BOOLEAN,
         NEW willing, NEW t, t = SetL3Dev(s, d, claimed, willing)
  PROVE  L3Set(s, d, claimed, t)
<1>0. s \in Raw /\ s.on.config \in BOOLEAN
  BY DEF Sound, Raw
<1>1. d # NoDevice /\ d \in DeviceOrNone
  BY IpAssumption DEF DeviceOrNone
<1>2. PICK c : c = Flush(SetBoth(s, "config", Off, willing))
  OBVIOUS
<1>3. Cleared(s, c)
  BY <1>2, ClearIs
<1>4. /\ Sound(c) /\ Quiet(c) /\ Empty(c) /\ (RuleInv(s) => RuleInv(c))
      /\ c.state = s.state /\ c.info = s.info /\ c \in Raw
  BY <1>3 DEF Cleared, Sound
<1>5. PICK m : m = Moved(c, d)
  OBVIOUS
<1>6. m \in Raw /\ PlaceFrame(c, m) /\ m.dev = d /\ m.state = c.state
  BY <1>1, <1>4, <1>5, MovedIs
<1>7. /\ Sound(m) /\ Quiet(m) /\ Empty(m) /\ (RuleInv(s) => RuleInv(m))
      /\ m.state = s.state /\ m.info = s.info
  <2>1. Sound(m) /\ Quiet(m) /\ Empty(m) /\ (RuleInv(c) => RuleInv(m))
    BY <1>4, <1>6, PlaceKeeps
  <2> QED BY <1>4, <1>6, <2>1 DEF PlaceFrame
<1>8. /\ Idle(m) /\ \A w \in Lists : Switched(m, w) /\ MetricNow(m, w)
      /\ OwnNow(m) /\ ExternalNow(m) /\ Unique(m.proto)
  BY <1>6, <1>7, QuietIs
<1>9. CASE ~claimed
  <2>1. t = m
    BY <1>1, <1>2, <1>5, <1>9 DEF SetL3Dev, Moved
  <2> QED BY <1>6, <1>7, <1>8, <2>1 DEF L3Set, Followed, Empty
<1>10. CASE claimed
  <2>1. PICK both : both = [proto |-> s.on.config, config |-> s.on.config]
    OBVIOUS
  <2>2. t = SetBoth(m, "config", both, willing)
    BY <1>1, <1>2, <1>5, <1>10, <2>1 DEF SetL3Dev, Moved
  <2>3. both \in [proto : BOOLEAN, config : BOOLEAN] /\ "config" \in Lists
    BY <1>0, <2>1 DEF Lists
  <2>4. BothPut(m, t, both)
    BY <1>7, <1>8, <2>2, <2>3, SetBothKeeps
  <2>5. /\ Sound(t) /\ (RuleInv(m) => RuleInv(t)) /\ t \in Raw
        /\ t.state = m.state /\ t.dev = m.dev /\ t.info = m.info
        /\ DOMAIN t.addrs = {}
    BY <1>7, <2>4 DEF BothPut, AddrsPut, Sound, Empty
  <2>6. ASSUME NEW w \in Lists PROVE Switched(t, w) /\ MetricNow(t, w)
    <3>1. ListPut(m, t, w, both[w])
      BY <2>4 DEF BothPut
    <3> QED BY <1>1, <1>6, <1>8, <3>1 DEF ListPut
  <2>7. t.proto = {} /\ t.on.config = s.on.config
    <3>1. ListPut(m, t, "proto", both["proto"]) /\ ListPut(m, t, "config", both["config"])
      BY <2>4 DEF BothPut, Lists
    <3>2. m["proto"] = m.proto /\ t["proto"] = t.proto /\ t.on["config"] = t.on.config
      BY <1>6, <2>5
    <3> QED BY <1>7, <2>1, <3>1, <3>2 DEF ListPut, Empty
  <2>8. OwnNow(t) /\ ExternalNow(t) /\ Unique(t.proto)
    BY <2>5, <2>7 DEF OwnNow, OwnOf, ExternalNow, Unique
  <2>9. ~s.on.config => Idle(t)
    BY <2>5, <2>7 DEF Idle
  <2> QED BY <1>6, <1>7, <1>10, <2>5, <2>6, <2>7, <2>8, <2>9 DEF L3Set, Followed
<1> QED BY <1>9, <1>10

(***************************************************************************)
(* What a protocol reports                                                 *)
(***************************************************************************)

NewRoutes(s, T, gw, until) == {NewRoute(s, to, gw, until) : to \in T}
Reported(s, rep, until, gw, willing) ==
  AddRoutes(AddAddresses(s, rep.addrs, until, willing), "proto",
            NewRoutes(s, rep.routes, gw, until), willing)
NotIn(l, new) == {r \in l : ~\E q \in new : SameRoute(q, r)}

(* Apply, with its loops by name. *)
ApplyBy(s, rep, until, gw, keep, willing) ==
  LET r1 == Reported(s, rep, until, gw, willing)
      r2 == DropRoutes(r1, "proto", NotIn(r1.proto, NewRoutes(s, rep.routes, gw, until)))
  IN  IF keep THEN r1 ELSE DropAddresses(r2, DOMAIN r2.addrs \ rep.addrs)

(* It is the same. *)
LEMMA ApplyIs ==
  ASSUME NEW s, NEW rep, NEW until, NEW gw, NEW keep, NEW willing
  PROVE  Apply(s, rep, until, gw, keep, willing) = ApplyBy(s, rep, until, gw, keep, willing)
BY DEF Apply, ApplyBy, Reported, NewRoutes, NotIn, FoldSet, MapThenFoldSet, DropAddresses,
       DropRoutes, AddAddresses, AddRoutes, Pick, Rest

(* The routes of a report: one to a target, with the settings as they are.  *)
LEMMA NewRoutesAre ==
  ASSUME NEW s \in Raw, NEW w \in Lists, NEW T \in SUBSET Dests(w),
         NEW gw \in Gateways, NEW until \in Times, NEW S, S = NewRoutes(s, T, gw, until)
  PROVE  /\ S \in SUBSET RoutesTo(Dests(w)) /\ IsFiniteSet(S)
         /\ \A r \in S : r.to \in T /\ MetricOf(s, r)
         /\ \A r, q \in S : r.to = q.to => SameRoute(r, q)
<1>1. s.info.metric \in Nat /\ s.info.table \in Nat
  BY InfoIs
<1>2. ASSUME NEW to \in T
      PROVE  /\ NewRoute(s, to, gw, until) \in RoutesTo(Dests(w))
             /\ NewRoute(s, to, gw, until).to = to
             /\ MetricOf(s, NewRoute(s, to, gw, until))
  BY <1>1 DEF NewRoute, RoutesTo, MetricOf
<1>3. IsFiniteSet(T)
  <2>1. T \subseteq Targets
    BY DEF Dests, Targets
  <2> QED BY <2>1, FS_Subset, IpAssumption
<1>4. IsFiniteSet(S)
  <2>1. S = {NewRoute(s, to, gw, until) : to \in T}
    BY DEF NewRoutes
  <2>2. IsFiniteSet({NewRoute(s, to, gw, until) : to \in T})
    <3>1. PICK f : f = [to \in T |-> NewRoute(s, to, gw, until)]
      OBVIOUS
    <3>2. f \in Surjection(T, {NewRoute(s, to, gw, until) : to \in T})
      BY <3>1 DEF Surjection
    <3> QED BY <1>3, <3>2, FS_Surjection
  <2> QED BY <2>1, <2>2
<1>5. /\ S \in SUBSET RoutesTo(Dests(w))
      /\ \A r \in S : r.to \in T /\ MetricOf(s, r)
  BY <1>2 DEF NewRoutes
<1>6. \A r, q \in S : r.to = q.to => SameRoute(r, q)
  BY <1>5 DEF MetricOf, SameRoute
<1> QED BY <1>4, <1>5, <1>6

(* All but the addresses, the routes and what the kernel has of them. *)
ApplyFrame(s, t) ==
  /\ t.state = s.state /\ t.dev = s.dev /\ t.info = s.info /\ t.on = s.on
  /\ t.policy = s.policy /\ t.kpolicy = s.kpolicy
  /\ t.hosts = s.hosts /\ t.khosts = s.khosts /\ t["config"] = s["config"]

Told(s, new, t) ==
  /\ t \in Raw /\ ApplyFrame(s, t) /\ AddrInv(t) /\ OwnNow(t) /\ RouteInv(t)
  /\ RuleInv(s) /\ ExternalNow(s) => RuleInv(t) /\ ExternalNow(t)
  /\ Switched(t, "proto")
  /\ \A q \in t["proto"] : \/ \E r \in new : SameRoute(q, r)
                           \/ q \in s["proto"] /\ ~\E r \in new : SameRoute(q, r)

(* vlist_add of what is reported. *)
LEMMA ReportedIs ==
  ASSUME NEW s, Sound(s), OwnNow(s), Switched(s, "proto"),
         NEW rep \in Reports, NEW until \in Times, NEW gw \in Gateways, NEW willing,
         NEW new, new = NewRoutes(s, rep.routes, gw, until),
         NEW t, t = Reported(s, rep, until, gw, willing)
  PROVE  Told(s, new, t)
<1>0. s \in Raw /\ AddrInv(s) /\ RouteInv(s)
  BY DEF Sound
<1>1. rep.addrs \in SUBSET Addrs /\ rep.routes \in SUBSET ProtoRoutes
  BY IpAssumption
<1>2. PICK A : A = rep.addrs
  OBVIOUS
<1>3. PICK a1 : a1 = AddAddresses(s, A, until, willing)
  OBVIOUS
<1>4. t = AddRoutes(a1, "proto", new, willing)
  BY <1>2, <1>3 DEF Reported
<1>5. a1 \in Raw /\ Added(s, A, a1)
  BY <1>0, <1>1, <1>2, <1>3, AddAddressesIs
<1>6. /\ AddrFrame(s, a1) /\ AddrInv(a1) /\ OwnNow(a1)
      /\ RuleInv(s) /\ ExternalNow(s) => RuleInv(a1) /\ ExternalNow(a1)
  BY <1>5 DEF Added
<1>7. a1["proto"] = s["proto"] /\ a1["config"] = s["config"]
  BY <1>0, <1>5, <1>6 DEF AddrFrame
<1>8. RouteInv(a1)
  BY <1>0, <1>6, <1>7, RouteInvOf DEF AddrFrame
<1>9. Switched(a1, "proto")
  BY <1>6, <1>7, SwitchedStays DEF AddrFrame
<1>10. "proto" \in Lists /\ Dests("proto") = ProtoRoutes /\ Other("proto") = "config"
  BY DEF Lists, Dests, Other
<1>11. new \in SUBSET RoutesTo(Dests("proto")) /\ IsFiniteSet(new)
  <2>1. PICK T : T = rep.routes
    OBVIOUS
  <2>2. T \in SUBSET Dests("proto") /\ new = NewRoutes(s, T, gw, until)
    BY <1>1, <1>10, <2>1
  <2> QED BY <1>0, <1>10, <2>2, NewRoutesAre
<1>12. t \in Raw /\ Joined(a1, "proto", new, t)
  BY <1>4, <1>5, <1>8, <1>9, <1>10, <1>11, AddRoutesIs
<1>13. /\ RouteFrame(a1, t) /\ RouteInv(t) /\ Switched(t, "proto") /\ t["config"] = a1["config"]
       /\ \A q \in t["proto"] : (\E r \in new : SameRoute(q, r))
                                \/ (q \in a1["proto"] /\ ~\E r \in new : SameRoute(q, r))
  BY <1>10, <1>12 DEF Joined
<1>14. AddrInv(t) /\ (RuleInv(a1) => RuleInv(t))
  BY <1>6, <1>13, AddrInvOf DEF RouteFrame
<1>15. OwnNow(t) /\ (ExternalNow(a1) => ExternalNow(t))
  BY <1>6, <1>13 DEF OwnNow, OwnOf, ExternalNow, RouteFrame
<1>16. ApplyFrame(s, t)
  BY <1>6, <1>7, <1>13 DEF ApplyFrame, AddrFrame, RouteFrame
<1> QED BY <1>6, <1>7, <1>12, <1>13, <1>14, <1>15, <1>16 DEF Told

(* What all but the addresses and routes of the protocol say stays. *)
LEMMA ApplyFrameKeeps ==
  ASSUME NEW s, Sound(s), NEW t \in Raw, ApplyFrame(s, t), AddrInv(t), RouteInv(t)
  PROVE  Sound(t)
<1>1. s["config"] = s.config /\ t["config"] = t.config
  BY DEF Sound, Raw
<1>2. PolicyInv(t) /\ HostInv(t) /\ Unique(t.config)
  BY <1>1 DEF Sound, PolicyInv, HostInv, ApplyFrame
<1> QED BY <1>2 DEF Sound

(* vlist_flush of what was not reported. *)
LEMMA ForgottenGoes ==
  ASSUME NEW s, Sound(s), NEW new, NEW r1, Told(s, new, r1),
         NEW gone \in SUBSET r1["proto"], NEW r2, r2 = DropRoutes(r1, "proto", gone),
         NEW B \in SUBSET DOMAIN r2.addrs, NEW t, t = DropAddresses(r2, B)
  PROVE  /\ Told(s, new, t) /\ t["proto"] = r1["proto"] \ gone
<1>0. "proto" \in Lists /\ Other("proto") = "config"
  BY DEF Lists, Other
<1>1. /\ r1 \in Raw /\ ApplyFrame(s, r1) /\ AddrInv(r1) /\ OwnNow(r1) /\ RouteInv(r1)
      /\ RuleInv(s) /\ ExternalNow(s) => RuleInv(r1) /\ ExternalNow(r1)
      /\ Switched(r1, "proto")
      /\ \A q \in r1["proto"] : \/ \E r \in new : SameRoute(q, r)
                                \/ q \in s["proto"] /\ ~\E r \in new : SameRoute(q, r)
  BY DEF Told
<1>2. r2 \in Raw /\ Shed(r1, "proto", gone, r2)
  BY <1>0, <1>1, DropRoutesIs
<1>3. /\ RouteFrame(r1, r2) /\ RouteInv(r2)
      /\ r2["proto"] = r1["proto"] \ gone /\ r2["config"] = r1["config"]
  BY <1>0, <1>2 DEF Shed
<1>4. AddrInv(r2) /\ (RuleInv(r1) => RuleInv(r2))
  BY <1>1, <1>3, AddrInvOf DEF RouteFrame
<1>5. t \in Raw /\ Dropped(r2, B, t)
  BY <1>2, <1>4, DropAddressesIs
<1>6. /\ AddrFrame(r2, t) /\ AddrInv(t) /\ (RuleInv(r2) => RuleInv(t))
      /\ DOMAIN t.addrs \subseteq DOMAIN r1.addrs
      /\ \A x \in DOMAIN t.addrs : t.addrs[x] = r1.addrs[x]
  BY <1>3, <1>5 DEF Dropped, RouteFrame
<1>7. t["proto"] = r2["proto"] /\ t["config"] = r2["config"]
  BY <1>2, <1>5, <1>6 DEF AddrFrame
<1>8. RouteInv(t)
  BY <1>3, <1>6, <1>7, RouteInvOf DEF AddrFrame
<1>9. t.info = r1.info /\ t.on = r1.on /\ t.dev = r1.dev
  BY <1>3, <1>6 DEF AddrFrame, RouteFrame
<1>10. OwnNow(t) /\ (ExternalNow(r1) => ExternalNow(t))
  <2>1. OwnNow(t)
    BY <1>1, <1>6, <1>9 DEF OwnNow, OwnOf
  <2>2. ASSUME ExternalNow(r1) PROVE ExternalNow(t)
    BY <1>6, <1>9, <2>2 DEF ExternalNow
  <2> QED BY <2>1, <2>2
<1>11. Switched(t, "proto")
  BY <1>1, <1>3, <1>7, <1>9 DEF Switched, EnableRoute
<1>12. ApplyFrame(s, t)
  BY <1>1, <1>3, <1>6, <1>7 DEF ApplyFrame, AddrFrame, RouteFrame
<1>13. \A q \in t["proto"] : \/ \E r \in new : SameRoute(q, r)
                             \/ q \in s["proto"] /\ ~\E r \in new : SameRoute(q, r)
  BY <1>1, <1>3, <1>7
<1> QED BY <1>1, <1>3, <1>4, <1>5, <1>6, <1>7, <1>8, <1>10, <1>11, <1>12, <1>13 DEF Told

MayAdd(s, T) == s.info.nodefault => \A to \in T : Mask[to] # 0

Applied(s, t) ==
  /\ Sound(t) /\ ApplyFrame(s, t) /\ (Rules(s) => Rules(t))
  /\ OwnNow(t) /\ Switched(t, "proto") /\ MetricNow(t, "proto")

(* A report: the kernel is right, and there is one route to a target as     *)
(* long as the one that is there must be enabled.                           *)
LEMMA ApplyKeeps ==
  ASSUME NEW s, Sound(s), OwnNow(s), Switched(s, "proto"), MetricNow(s, "proto"),
         NEW rep \in Reports, NEW until \in Times, NEW gw \in Gateways,
         NEW keep \in BOOLEAN, NEW willing,
         NEW t, t = Apply(s, rep, until, gw, keep, willing)
  PROVE  /\ Applied(s, t)
         /\ ~keep => Unique(t.proto)
         /\ s.on.proto /\ Unique(s.proto) /\ MayAdd(s, rep.routes) => Unique(t.proto)
<1>0. s \in Raw /\ s["proto"] = s.proto /\ "proto" \in Lists
  BY DEF Sound, Raw, Lists
<1>1. PICK new : new = NewRoutes(s, rep.routes, gw, until)
  OBVIOUS
<1>2. PICK r1 : r1 = Reported(s, rep, until, gw, willing)
  OBVIOUS
<1>3. PICK gone : gone = NotIn(r1["proto"], new)
  OBVIOUS
<1>4. PICK r2 : r2 = DropRoutes(r1, "proto", gone)
  OBVIOUS
<1>5. PICK B : B = DOMAIN r2.addrs \ rep.addrs
  OBVIOUS
<1>6. Told(s, new, r1)
  BY <1>1, <1>2, ReportedIs
<1>7. r1["proto"] = r1.proto
  BY <1>6 DEF Told, Raw
<1>8. t = IF keep THEN r1 ELSE DropAddresses(r2, B)
  <2>1. t = ApplyBy(s, rep, until, gw, keep, willing)
    BY ApplyIs
  <2> QED BY <1>1, <1>2, <1>3, <1>4, <1>5, <1>7, <2>1 DEF ApplyBy
<1>9. /\ \A r \in new : r.to \in rep.routes /\ MetricOf(s, r)
      /\ \A r, q \in new : r.to = q.to => SameRoute(r, q)
  <2>1. PICK T : T = rep.routes
    OBVIOUS
  <2>2. T \in SUBSET Dests("proto") /\ new = NewRoutes(s, T, gw, until)
    BY <1>1, <2>1, IpAssumption DEF Dests
  <2> QED BY <1>0, <2>1, <2>2, NewRoutesAre
<1>10. Told(s, new, t) /\ (~keep => t["proto"] = r1["proto"] \ gone)
  <2>1. CASE keep
    BY <1>6, <1>8, <2>1
  <2>2. CASE ~keep
    <3>1. gone \in SUBSET r1["proto"] /\ B \in SUBSET DOMAIN r2.addrs
      BY <1>3, <1>5 DEF NotIn
    <3>2. t = DropAddresses(r2, B)
      BY <1>8, <2>2
    <3> QED BY <1>4, <1>6, <2>2, <3>1, <3>2, ForgottenGoes
  <2> QED BY <2>1, <2>2
<1>11. /\ t \in Raw /\ ApplyFrame(s, t) /\ AddrInv(t) /\ OwnNow(t) /\ RouteInv(t)
       /\ RuleInv(s) /\ ExternalNow(s) => RuleInv(t) /\ ExternalNow(t)
       /\ Switched(t, "proto")
       /\ \A q \in t["proto"] : \/ \E r \in new : SameRoute(q, r)
                                \/ q \in s["proto"] /\ ~\E r \in new : SameRoute(q, r)
  BY <1>10 DEF Told
<1>12. Sound(t)
  BY <1>11, ApplyFrameKeeps
<1>13. t.info = s.info /\ t.on = s.on
  BY <1>11 DEF ApplyFrame
<1>14. MetricNow(t, "proto")
  <2>1. ASSUME NEW q \in t["proto"], q.enabled
        PROVE  q.metric = t.info.metric /\ q.table = t.info.table
    BY <1>9, <1>11, <1>13, <2>1 DEF MetricNow, MetricOf, SameRoute
  <2> QED BY <2>1 DEF MetricNow
<1>15. NoTwins(t["proto"]) /\ t["proto"] = t.proto
  BY <1>0, <1>11, RouteInvIs DEF Tidy, Raw
<1>16. ASSUME ~keep PROVE Unique(t.proto)
  <2>1. \A q \in t["proto"] : \E r \in new : SameRoute(q, r)
    <3>1. t["proto"] = r1["proto"] \ gone
      BY <1>10, <1>16
    <3>2. PICK l : l = r1["proto"]
      OBVIOUS
    <3>3. \A q \in l : q \in NotIn(l, new) \/ \E r \in new : SameRoute(q, r)
      BY DEF NotIn, SameRoute
    <3>4. gone = NotIn(l, new) /\ t["proto"] = l \ gone
      BY <1>3, <3>1, <3>2
    <3> QED BY <3>3, <3>4
  <2>2. ASSUME NEW p \in t["proto"], NEW q \in t["proto"], p.to = q.to PROVE p = q
    <3>1. PICK n \in new : SameRoute(p, n)
      BY <2>1
    <3>2. PICK k \in new : SameRoute(q, k)
      BY <2>1
    <3>3. SameRoute(n, k)
      BY <1>9, <2>2, <3>1, <3>2 DEF SameRoute
    <3>4. SameRoute(p, q)
      BY <3>1, <3>2, <3>3 DEF SameRoute
    <3> QED BY <1>15, <3>4 DEF NoTwins
  <2> QED BY <1>15, <2>2 DEF Unique
<1>17. ASSUME s.on.proto, Unique(s.proto), MayAdd(s, rep.routes) PROVE Unique(t.proto)
  <2>1. ASSUME NEW q \in s["proto"], NEW n \in new, q.to = n.to PROVE SameRoute(q, n)
    <3>1. EnableRoute(s, "proto", q)
      <4>1. n.to \in rep.routes
        BY <1>9
      <4>2. s.on["proto"]
        BY <1>0, <1>17 DEF Raw
      <4>3. s.info.nodefault => Mask[q.to] # 0
        <5>1. s.info.nodefault => Mask[n.to] # 0
          BY <1>17, <4>1 DEF MayAdd
        <5> QED BY <2>1, <5>1
      <4> QED BY <4>2, <4>3 DEF EnableRoute
    <3>2. q.enabled
      BY <3>1 DEF Switched
    <3> QED BY <1>9, <2>1, <3>2 DEF MetricNow, MetricOf, SameRoute
  <2>2. ASSUME NEW p \in t["proto"], NEW q \in t["proto"], p.to = q.to PROVE p = q
    <3>1. CASE \E n \in new : SameRoute(p, n)
      <4>1. PICK n \in new : SameRoute(p, n)
        BY <3>1
      <4>2. CASE \E k \in new : SameRoute(q, k)
        <5>1. PICK k \in new : SameRoute(q, k)
          BY <4>2
        <5>2. SameRoute(n, k)
          BY <1>9, <2>2, <4>1, <5>1 DEF SameRoute
        <5>3. SameRoute(p, q)
          BY <4>1, <5>1, <5>2 DEF SameRoute
        <5> QED BY <1>15, <5>3 DEF NoTwins
      <4>3. CASE ~\E k \in new : SameRoute(q, k)
        <5>1. q \in s["proto"] /\ q.to = n.to
          BY <1>11, <2>2, <4>1, <4>3 DEF SameRoute
        <5> QED BY <2>1, <4>3, <5>1
      <4> QED BY <4>2, <4>3
    <3>2. CASE ~\E n \in new : SameRoute(p, n)
      <4>1. p \in s["proto"]
        BY <1>11, <3>2
      <4>2. CASE \E k \in new : SameRoute(q, k)
        <5>1. PICK k \in new : SameRoute(q, k)
          BY <4>2
        <5>2. p.to = k.to
          BY <2>2, <5>1 DEF SameRoute
        <5> QED BY <2>1, <3>2, <4>1, <5>2
      <4>3. CASE ~\E k \in new : SameRoute(q, k)
        <5>1. q \in s["proto"]
          BY <1>11, <4>3
        <5> QED BY <1>0, <1>17, <2>2, <4>1, <5>1 DEF Unique
      <4> QED BY <4>2, <4>3
    <3> QED BY <3>1, <3>2
  <2> QED BY <1>15, <2>2 DEF Unique
<1> QED BY <1>11, <1>12, <1>14, <1>16, <1>17 DEF Applied, Rules

(***************************************************************************)
(* The invariant                                                           *)
(***************************************************************************)

(* What holds but in a teardown. *)
Steady(s) ==
  /\ Sound(s) /\ (OneTable => Rules(s))
  /\ \A w \in Lists : Switched(s, w) /\ MetricNow(s, w)
  /\ OwnNow(s)
  /\ s.on.proto => Unique(s.proto)

Inv(s) ==
  /\ Sound(s) /\ (OneTable => Rules(s))
  /\ Switched(s, "config")
  /\ s.on.proto => Unique(s.proto)
  /\ s.state # "TEARDOWN" => Steady(s)
  /\ s.state \in {"DOWN", "SETUP"} \/ s.dev = NoDevice => Idle(s)

(* The invariant, from what holds but in a teardown. *)
LEMMA SteadyIs ==
  ASSUME NEW s, Steady(s), s.state \in {"DOWN", "SETUP"} \/ s.dev = NoDevice => Idle(s)
  PROVE  Inv(s)
BY DEF Inv, Steady, Lists

(* All but the state. *)
LEMMA StateKeeps ==
  ASSUME NEW s \in Raw, NEW t \in Raw, PlaceFrame(s, t), t.dev = s.dev
  PROVE  /\ Sound(s) => Sound(t)
         /\ Rules(s) => Rules(t)
         /\ \A w \in Lists : /\ Switched(s, w) => Switched(t, w)
                             /\ MetricNow(s, w) => MetricNow(t, w)
         /\ OwnNow(s) => OwnNow(t)
         /\ Unique(s.proto) => Unique(t.proto)
         /\ t.on = s.on
         /\ Steady(s) => Steady(t)
         /\ Idle(s) => Idle(t)
<1>1. /\ t.info = s.info /\ t.policy = s.policy /\ t.on = s.on
      /\ t.addrs = s.addrs /\ t.proto = s.proto /\ t.config = s.config /\ t.hosts = s.hosts
      /\ t.kaddrs = s.kaddrs /\ t.krules = s.krules /\ t.ksubnets = s.ksubnets
      /\ t.kroutes = s.kroutes /\ t.khosts = s.khosts /\ t.kpolicy = s.kpolicy
  BY DEF PlaceFrame
<1>2. t["proto"] = s["proto"] /\ t["config"] = s["config"]
  BY <1>1
<1>3. \A w \in Lists : t[w] = s[w] /\ t.on[w] = s.on[w]
  BY <1>1, <1>2 DEF Lists
<1>4. \A w \in Lists : /\ Switched(s, w) => Switched(t, w)
                       /\ MetricNow(s, w) => MetricNow(t, w)
  BY <1>1, <1>3, SwitchedStays
<1>5. Sound(s) => Sound(t)
  <2>1. AddrInv(s) => AddrInv(t)
    BY <1>1, AddrInvOf
  <2>2. RouteInv(s) => RouteInv(t)
    BY <1>1, <1>2, RouteInvOf
  <2>3. PolicyInv(s) /\ HostInv(s) /\ Unique(s.config) =>
          PolicyInv(t) /\ HostInv(t) /\ Unique(t.config)
    BY <1>1 DEF PolicyInv, HostInv
  <2> QED BY <2>1, <2>2, <2>3 DEF Sound
<1>6. Rules(s) => Rules(t)
  BY <1>1 DEF Rules, RuleInv, ExternalNow
<1>7. OwnNow(s) => OwnNow(t)
  BY <1>1 DEF OwnNow, OwnOf
<1>8. Steady(s) => Steady(t)
  BY <1>1, <1>4, <1>5, <1>6, <1>7 DEF Steady
<1>9. Idle(s) => Idle(t)
  BY <1>1 DEF Idle
<1> QED BY <1>1, <1>4, <1>5, <1>6, <1>7, <1>8, <1>9

(* Other settings: what is there stays as it is. *)
WithInfo(s, info) == [s EXCEPT !.info = info]

LEMMA InfoKeeps ==
  ASSUME NEW s, Sound(s), NEW info \in Infos, NEW t, t = WithInfo(s, info)
  PROVE  /\ Sound(t) /\ t \in Raw /\ (RuleInv(s) => RuleInv(t))
         /\ t.info = info /\ t.state = s.state /\ t.dev = s.dev /\ t.on = s.on
         /\ t.addrs = s.addrs /\ t.proto = s.proto /\ t.config = s.config
         /\ Switched(s, "config") => Switched(t, "config")
         /\ Idle(s) => Idle(t)
<1>0. s \in Raw
  BY DEF Sound
<1>1. t \in Raw
  BY <1>0, Zenon DEF Raw, WithInfo
<1>2. /\ t.state = s.state /\ t.dev = s.dev /\ t.policy = s.policy /\ t.on = s.on
      /\ t.addrs = s.addrs /\ t.proto = s.proto /\ t.config = s.config /\ t.hosts = s.hosts
      /\ t.kaddrs = s.kaddrs /\ t.krules = s.krules /\ t.ksubnets = s.ksubnets
      /\ t.kroutes = s.kroutes /\ t.khosts = s.khosts /\ t.kpolicy = s.kpolicy
      /\ t.info = info
  BY <1>0, SMT DEF Raw, WithInfo
<1>3. t["proto"] = s["proto"] /\ t["config"] = s["config"]
  BY <1>0, <1>1, <1>2
<1>4. AddrInv(t) /\ (RuleInv(s) => RuleInv(t))
  BY <1>2, AddrInvOf DEF Sound
<1>5. RouteInv(t)
  BY <1>2, <1>3, RouteInvOf DEF Sound
<1>6. PolicyInv(t) /\ HostInv(t) /\ Unique(t.config)
  BY <1>2 DEF Sound, PolicyInv, HostInv
<1>7. Sound(t)
  BY <1>1, <1>4, <1>5, <1>6 DEF Sound
<1>8. Switched(s, "config") => Switched(t, "config")
  BY <1>2, <1>3 DEF Switched, EnableRoute
<1>9. Idle(s) => Idle(t)
  BY <1>2 DEF Idle
<1> QED BY <1>1, <1>2, <1>4, <1>7, <1>8, <1>9

(* The rules of addresses that are not ours. *)
LEMMA ExternalStays ==
  ASSUME NEW s, NEW t, ExternalNow(s), t.info = s.info, DOMAIN t.addrs = DOMAIN s.addrs,
         \A x \in DOMAIN s.addrs \cap External : t.addrs[x] = s.addrs[x]
  PROVE  ExternalNow(t)
BY DEF ExternalNow

(* Both lists are switched where everything is as it should be. *)
LEMMA PutKeepsSteady ==
  ASSUME NEW s, Steady(s), s.dev # NoDevice,
         NEW enabled \in [proto : BOOLEAN, config : BOOLEAN], NEW t, BothPut(s, t, enabled),
         Unique(s.proto)
  PROVE  Steady(t)
<1>1. /\ Sound(t) /\ (RuleInv(s) => RuleInv(t)) /\ t.info = s.info
      /\ \A w \in Lists : ListPut(s, t, w, enabled[w])
      /\ AddrsPut(s, t, enabled.proto)
  BY DEF BothPut
<1>2. s \in Raw /\ t \in Raw
  BY <1>1 DEF Steady, Sound
<1>3. \A w \in Lists : Switched(t, w) /\ MetricNow(t, w)
  BY <1>1 DEF ListPut, Steady
<1>4. /\ DOMAIN t.addrs = DOMAIN s.addrs
      /\ \A x \in DOMAIN s.addrs \cap External : t.addrs[x] = s.addrs[x]
      /\ \A x \in OwnOf(t) : \/ t.addrs[x] = s.addrs[x]
                             \/ /\ t.addrs[x].enabled = enabled.proto
                                /\ enabled.proto => t.addrs[x].policy = s.info.table
  BY <1>1 DEF AddrsPut
<1>5. OwnNow(t)
  <2>1. OwnOf(t) = OwnOf(s)
    BY <1>4 DEF OwnOf
  <2>2. ASSUME NEW a \in OwnOf(t), t.addrs[a].enabled PROVE t.addrs[a].policy = s.info.table
    <3>1. CASE t.addrs[a] = s.addrs[a]
      BY <2>1, <2>2, <3>1 DEF Steady, OwnNow
    <3>2. CASE t.addrs[a] # s.addrs[a]
      <4>1. t.addrs[a].enabled = enabled.proto /\ (enabled.proto => t.addrs[a].policy = s.info.table)
        BY <1>4, <2>1, <3>2
      <4> QED BY <2>2, <4>1
    <3> QED BY <3>1, <3>2
  <2> QED BY <1>1, <2>2 DEF OwnNow
<1>6. OneTable => Rules(t)
  BY <1>1, <1>4, ExternalStays DEF Steady, Rules
<1>7. Unique(t.proto)
  <2>1. Unique(s["proto"]) => Unique(t["proto"])
    BY <1>1 DEF ListPut, Lists
  <2> QED BY <1>2, <2>1
<1> QED BY <1>1, <1>3, <1>5, <1>6, <1>7 DEF Steady

(***************************************************************************)
(* One lemma per action                                                    *)
(***************************************************************************)

(* A report, where everything is as it should be. *)
LEMMA AppliedKeepsSteady ==
  ASSUME NEW s, Steady(s), NEW t, Applied(s, t), s.on.proto => Unique(t.proto)
  PROVE  /\ Steady(t) /\ t.state = s.state /\ t.dev = s.dev /\ t.info = s.info
<1>1. /\ Sound(t) /\ ApplyFrame(s, t) /\ (Rules(s) => Rules(t))
      /\ OwnNow(t) /\ Switched(t, "proto") /\ MetricNow(t, "proto")
  BY DEF Applied
<1>2. /\ t.state = s.state /\ t.dev = s.dev /\ t.info = s.info /\ t.on = s.on
      /\ t["config"] = s["config"]
  BY <1>1 DEF ApplyFrame
<1>3. Switched(t, "config") /\ MetricNow(t, "config")
  BY <1>2, SwitchedStays DEF Steady, Lists
<1>4. \A w \in Lists : Switched(t, w) /\ MetricNow(t, w)
  BY <1>1, <1>3 DEF Lists
<1> QED BY <1>1, <1>2, <1>4 DEF Steady

(* interface_set_l3_dev, also to the device it has.                         *)
LEMMA LinkDevice ==
  ASSUME NEW s, Inv(s), s.state \in {"SETUP", "UP"}, NEW d \in Devices,
         NEW claimed \in BOOLEAN, NEW willing, NEW t, t = SetL3Dev(s, d, claimed, willing)
  PROVE  /\ Steady(t) /\ t.state = s.state /\ t.dev = d /\ t.info = s.info
         /\ d # s.dev /\ ~claimed => Idle(t)
<1>0. /\ Sound(s) /\ (OneTable => Rules(s)) /\ Switched(s, "config") /\ Steady(s)
      /\ s.dev = NoDevice => Idle(s)
  BY DEF Inv
<1>1. CASE d = s.dev
  <2>1. t = s
    BY <1>1 DEF SetL3Dev
  <2> QED BY <1>0, <1>1, <2>1
<1>2. CASE d # s.dev
  <2>1. L3Set(s, d, claimed, t)
    BY <1>0, <1>2, SetL3DevKeeps
  <2>2. /\ Sound(t) /\ (RuleInv(s) => RuleInv(t)) /\ Followed(t)
        /\ t.state = s.state /\ t.info = s.info /\ t.dev = d
        /\ ~claimed => Idle(t)
    BY <2>1 DEF L3Set
  <2>3. Steady(t)
    BY <1>0, <2>2 DEF Steady, Followed, Rules
  <2> QED BY <2>2, <2>3
<1> QED BY <1>1, <1>2

(* IFPEV_UP *)
LEMMA UpKeeps ==
  ASSUME NEW s, Steady(s), s.state \in {"SETUP", "UP"}, s.dev # NoDevice,
         s.state = "SETUP" => Unique(s.proto), NEW willing, NEW t, t = Up(s, willing)
  PROVE  Inv(t)
<1>1. CASE s.state = "UP"
  <2>1. t = s
    BY <1>1 DEF Up
  <2> QED BY <1>1, <2>1, SteadyIs
<1>2. CASE s.state = "SETUP"
  <2>1. PICK m : m = SetBoth(s, "config", On, willing)
    OBVIOUS
  <2>2. t = WithState(m, "UP")
    BY <1>2, <2>1 DEF Up, WithState
  <2>3. On \in [proto : BOOLEAN, config : BOOLEAN] /\ "config" \in Lists
    BY DEF On, Lists
  <2>4. Sound(s) /\ Unique(s.proto)
    BY <1>2 DEF Steady
  <2>5. BothPut(s, m, On)
    BY <2>1, <2>3, <2>4, SetBothKeeps
  <2>6. Steady(m)
    BY <2>3, <2>4, <2>5, PutKeepsSteady
  <2>7. m \in Raw /\ m.dev = s.dev
    BY <2>5, <2>6 DEF BothPut, Steady, Sound
  <2>8. t \in Raw /\ PlaceFrame(m, t) /\ t.state = "UP" /\ t.dev = m.dev
    BY <2>2, <2>7, WithStateIs
  <2>9. Steady(t)
    BY <2>6, <2>7, <2>8, StateKeeps
  <2> QED BY <2>7, <2>8, <2>9, SteadyIs
<1> QED BY <1>1, <1>2

(* proto_shell_update_link *)
LEMMA UpdateLinkKeeps ==
  ASSUME NEW s, Inv(s), s.state \in {"SETUP", "UP"},
         NEW d \in Devices, NEW rep \in Reports, NEW until \in Times, NEW gw \in Gateways,
         NEW keep \in BOOLEAN, NEW willing,
         keep => s.state = "UP" /\ MayAdd(s, rep.routes),
         NEW t, t = Up(Apply(SetL3Dev(s, d, TRUE, willing), rep, until, gw, keep, willing), willing)
  PROVE  Inv(t)
<1>1. PICK l : l = SetL3Dev(s, d, TRUE, willing)
  OBVIOUS
<1>2. PICK a : a = Apply(l, rep, until, gw, keep, willing)
  OBVIOUS
<1>3. t = Up(a, willing)
  BY <1>1, <1>2
<1>4. Steady(l) /\ l.state = s.state /\ l.dev = d /\ l.info = s.info
  <2>1. PICK claimed : claimed = TRUE
    OBVIOUS
  <2>2. claimed \in BOOLEAN /\ l = SetL3Dev(s, d, claimed, willing)
    BY <1>1, <2>1
  <2> QED BY <2>2, LinkDevice
<1>5. Sound(l) /\ OwnNow(l) /\ Switched(l, "proto") /\ MetricNow(l, "proto")
  BY <1>4 DEF Steady, Lists
<1>6. /\ Applied(l, a)
      /\ ~keep => Unique(a.proto)
      /\ l.on.proto /\ Unique(l.proto) /\ MayAdd(l, rep.routes) => Unique(a.proto)
  BY <1>2, <1>5, ApplyKeeps
<1>7. l.on.proto => Unique(a.proto)
  <2>1. l.on.proto => Unique(l.proto)
    BY <1>4 DEF Steady
  <2>2. keep => MayAdd(l, rep.routes)
    BY <1>4 DEF MayAdd
  <2> QED BY <1>6, <2>1, <2>2
<1>8. Steady(a) /\ a.state = l.state /\ a.dev = l.dev
  BY <1>4, <1>6, <1>7, AppliedKeepsSteady
<1>9. a.state \in {"SETUP", "UP"} /\ a.dev # NoDevice
  BY <1>4, <1>8, IpAssumption
<1>10. a.state = "SETUP" => Unique(a.proto)
  BY <1>4, <1>6, <1>8
<1> QED BY <1>3, <1>8, <1>9, <1>10, UpKeeps

(* interface_set_l3_dev to a device that cannot be claimed. *)
LEMMA ChangeDeviceKeeps ==
  ASSUME NEW s, Inv(s), s.state \in {"SETUP", "UP"}, NEW d \in Devices \ {s.dev},
         NEW willing, NEW t, t = SetL3Dev(s, d, FALSE, willing)
  PROVE  Inv(t)
<1>1. Steady(t) /\ Idle(t)
  BY LinkDevice
<1> QED BY <1>1, SteadyIs

(* Set-up and teardown begin. *)
LEMMA WithStateKeeps ==
  ASSUME NEW s, Inv(s), NEW state \in {"SETUP", "TEARDOWN"},
         state = "SETUP" => s.state = "DOWN", NEW t, t = WithState(s, state)
  PROVE  Inv(t)
<1>1. s \in Raw
  BY DEF Inv, Sound
<1>2. t \in Raw /\ PlaceFrame(s, t) /\ t.state = state /\ t.dev = s.dev
  BY <1>1, WithStateIs
<1>3. /\ Sound(t) /\ (Rules(s) => Rules(t)) /\ t.on = s.on
      /\ Switched(t, "config") /\ (Unique(s.proto) => Unique(t.proto))
      /\ Steady(s) => Steady(t)
      /\ Idle(s) => Idle(t)
  BY <1>1, <1>2, StateKeeps DEF Inv, Lists
<1> QED BY <1>2, <1>3 DEF Inv

(* mark_interface_down *)
LEMMA MarkDownKeeps ==
  ASSUME NEW s, Inv(s), NEW c, c = Flush(SetBoth(s, "config", Off, {})),
         NEW m, m = WithState(c, "DOWN"),
         NEW t, t = m \/ t = Moved(m, NoDevice) \/ t = WithState(m, "SETUP")
  PROVE  Inv(t)
<1>1. Cleared(s, c)
  <2>1. Sound(s) /\ Switched(s, "config") /\ (s.dev = NoDevice => Idle(s))
    BY DEF Inv
  <2>2. PICK w : w = {}
    OBVIOUS
  <2>3. c = Flush(SetBoth(s, "config", Off, w))
    BY <2>2
  <2> QED BY <2>1, <2>3, ClearIs
<1>2. Sound(c) /\ Quiet(c) /\ Empty(c) /\ (RuleInv(s) => RuleInv(c)) /\ c \in Raw
  BY <1>1 DEF Cleared, Sound
<1>3. m \in Raw /\ PlaceFrame(c, m) /\ m.state = "DOWN"
  BY <1>2, WithStateIs
<1>4. t \in Raw /\ PlaceFrame(c, t) /\ t.state \in {"DOWN", "SETUP"}
  <2>1. CASE t = m
    BY <1>3, <2>1
  <2>2. CASE t = Moved(m, NoDevice)
    <3>1. PICK d : d = NoDevice
      OBVIOUS
    <3>2. d \in DeviceOrNone /\ t = Moved(m, d)
      BY <2>2, <3>1 DEF DeviceOrNone
    <3>3. t \in Raw /\ PlaceFrame(m, t) /\ t.state = m.state
      BY <1>3, <3>2, MovedIs
    <3> QED BY <1>3, <3>3 DEF PlaceFrame
  <2>3. CASE t = WithState(m, "SETUP")
    <3>1. t \in Raw /\ PlaceFrame(m, t) /\ t.state = "SETUP"
      BY <1>3, <2>3, WithStateIs
    <3> QED BY <1>3, <3>1 DEF PlaceFrame
  <2> QED BY <2>1, <2>2, <2>3
<1>5. Sound(t) /\ Quiet(t) /\ Empty(t) /\ (RuleInv(c) => RuleInv(t))
  BY <1>2, <1>4, PlaceKeeps
<1>6. /\ Idle(t) /\ \A w \in Lists : Switched(t, w) /\ MetricNow(t, w)
      /\ OwnNow(t) /\ ExternalNow(t) /\ Unique(t.proto)
  BY <1>4, <1>5, QuietIs
<1>7. Steady(t)
  BY <1>2, <1>5, <1>6 DEF Inv, Steady, Rules
<1> QED BY <1>6, <1>7, SteadyIs

(* Expire, with its loops by name. *)
Due(e, now) == e.until \in 1 .. now
ExpireBy(s, now) ==
  DropRoutes(DropAddresses(s, {a \in DOMAIN s.addrs : Due(s.addrs[a], now)}), "proto",
             {r \in s.proto : Due(r, now)})

(* It is the same. *)
LEMMA ExpireIs == Expire => \E now \in Times \ {0} : ip' = ExpireBy(ip, now)
BY DEF Expire, ExpireBy, Due, FoldSet, MapThenFoldSet, DropAddresses, DropRoutes, Pick, Rest

(* interface_ip_valid_until_handler *)
LEMMA ExpireKeeps ==
  ASSUME NEW s, Inv(s), s.state = "UP", NEW A \in SUBSET DOMAIN s.addrs,
         NEW R \in SUBSET s["proto"], NEW a1, a1 = DropAddresses(s, A),
         NEW t, t = DropRoutes(a1, "proto", R)
  PROVE  Inv(t)
<1>0. /\ s \in Raw /\ AddrInv(s) /\ RouteInv(s) /\ Sound(s) /\ Steady(s)
      /\ "proto" \in Lists /\ Other("proto") = "config"
      /\ s["proto"] = s.proto
  BY DEF Inv, Sound, Lists, Other, Raw
<1>1. a1 \in Raw /\ Dropped(s, A, a1)
  BY <1>0, DropAddressesIs
<1>2. /\ AddrFrame(s, a1) /\ AddrInv(a1) /\ (RuleInv(s) => RuleInv(a1))
      /\ DOMAIN a1.addrs \subseteq DOMAIN s.addrs
      /\ \A x \in DOMAIN a1.addrs : a1.addrs[x] = s.addrs[x]
  BY <1>1 DEF Dropped
<1>3. a1["proto"] = s["proto"] /\ a1["config"] = s["config"]
  BY <1>0, <1>1, <1>2 DEF AddrFrame
<1>4. RouteInv(a1)
  BY <1>0, <1>2, <1>3, RouteInvOf DEF AddrFrame
<1>5. t \in Raw /\ Shed(a1, "proto", R, t)
  BY <1>0, <1>1, <1>3, <1>4, DropRoutesIs
<1>6. /\ RouteFrame(a1, t) /\ RouteInv(t)
      /\ t["proto"] = s["proto"] \ R /\ t["config"] = s["config"]
  BY <1>0, <1>3, <1>5 DEF Shed
<1>7. AddrInv(t) /\ (RuleInv(s) => RuleInv(t))
  BY <1>2, <1>6, AddrInvOf DEF RouteFrame
<1>8. ApplyFrame(s, t)
  BY <1>2, <1>6 DEF ApplyFrame, AddrFrame, RouteFrame
<1>9. Sound(t)
  BY <1>0, <1>5, <1>6, <1>7, <1>8, ApplyFrameKeeps
<1>10. /\ t.info = s.info /\ t.on = s.on /\ t.state = s.state /\ t.dev = s.dev
       /\ DOMAIN t.addrs \subseteq DOMAIN s.addrs
       /\ \A x \in DOMAIN t.addrs : t.addrs[x] = s.addrs[x]
  BY <1>2, <1>6, <1>8 DEF ApplyFrame, RouteFrame
<1>11. OwnNow(t) /\ (ExternalNow(s) => ExternalNow(t))
  <2>1. OwnNow(t)
    BY <1>0, <1>10 DEF Steady, OwnNow, OwnOf
  <2>2. ASSUME ExternalNow(s) PROVE ExternalNow(t)
    BY <1>10, <2>2 DEF ExternalNow
  <2> QED BY <2>1, <2>2
<1>12. Switched(t, "proto") /\ MetricNow(t, "proto")
  <2>1. Switched(s, "proto") /\ MetricNow(s, "proto")
    BY <1>0 DEF Steady
  <2>2. t["proto"] \subseteq s["proto"]
    BY <1>6
  <2> QED BY <1>10, <2>1, <2>2 DEF Switched, MetricNow, EnableRoute
<1>13. t["proto"] = t.proto /\ t.proto \subseteq s.proto
  BY <1>0, <1>5, <1>6
<1>14. Unique(s.proto) => Unique(t.proto)
  BY <1>13 DEF Unique
<1>15. Steady(t)
  <2>1. Applied(s, t)
    BY <1>7, <1>8, <1>9, <1>11, <1>12 DEF Applied, Rules
  <2>2. s.on.proto => Unique(t.proto)
    BY <1>0, <1>14 DEF Steady
  <2> QED BY <1>0, <2>1, <2>2, AppliedKeepsSteady
<1>16. Idle(s) => Idle(t)
  BY <1>10, <1>13 DEF Idle
<1> QED BY <1>10, <1>15, <1>16, SteadyIs DEF Inv

(* reload_ip *)
LEMMA ReloadIpKeeps ==
  ASSUME NEW s, Inv(s), NEW info \in Infos, s.info.table # 0 => info.table # 0,
         NEW willing, NEW t, t = ReloadIp(s, info, willing)
  PROVE  Inv(t)
<1>0. /\ s \in Raw /\ Sound(s) /\ Switched(s, "config")
      /\ s.on \in [proto : BOOLEAN, config : BOOLEAN]
  BY DEF Inv, Sound, Raw
<1>1. PICK n : n = WithInfo(s, info)
  OBVIOUS
<1>2. PICK off : off = SetBoth(n, "config", Off, willing)
  OBVIOUS
<1>3. PICK on : on = s.on
  OBVIOUS
<1>4. t = SetBoth(off, "proto", on, willing)
  BY <1>1, <1>2, <1>3 DEF ReloadIp, WithInfo
<1>5. /\ Sound(n) /\ n \in Raw /\ (RuleInv(s) => RuleInv(n))
      /\ n.info = info /\ n.state = s.state /\ n.dev = s.dev /\ n.on = s.on
      /\ n.addrs = s.addrs /\ n.proto = s.proto /\ n.config = s.config
      /\ Switched(n, "config")
      /\ Idle(s) => Idle(n)
  BY <1>0, <1>1, InfoKeeps
<1>6. BothPut(n, off, Off) /\ Quiet(off)
  <2>1. n.dev = NoDevice => Idle(n)
    BY <1>5 DEF Inv
  <2> QED BY <1>2, <1>5, <2>1, OffIs
<1>7. /\ Sound(off) /\ (RuleInv(n) => RuleInv(off)) /\ off \in Raw
      /\ off.state = n.state /\ off.dev = n.dev /\ off.info = n.info
      /\ \A w \in Lists : ListPut(n, off, w, Off[w])
      /\ AddrsPut(n, off, Off.proto)
  BY <1>6 DEF BothPut, Sound
<1>8. /\ "proto" \in Lists /\ "config" \in Lists
      /\ off["proto"] = off.proto /\ off["config"] = off.config
      /\ n["proto"] = n.proto /\ n["config"] = n.config
      /\ on \in [proto : BOOLEAN, config : BOOLEAN] /\ on["proto"] = on.proto
      /\ on["config"] = on.config
  BY <1>0, <1>3, <1>5, <1>7 DEF Lists
<1>9. /\ on.proto => Unique(off.proto)
      /\ n.proto = {} => off.proto = {}
      /\ n.dev = NoDevice => off.proto = n.proto /\ off.config = n.config
  <2>1. s.on.proto => Unique(s.proto)
    BY DEF Inv
  <2>2. Unique(n["proto"]) => Unique(off["proto"])
    BY <1>7, <1>8 DEF ListPut
  <2>3. n["proto"] = {} => off["proto"] = {}
    BY <1>7, <1>8 DEF ListPut
  <2>4. n.dev = NoDevice => off["proto"] = n["proto"] /\ off["config"] = n["config"]
    BY <1>7, <1>8 DEF ListPut
  <2> QED BY <1>3, <1>5, <1>8, <2>1, <2>2, <2>3, <2>4
<1>10. BothPut(off, t, on)
  BY <1>4, <1>7, <1>8, <1>9, SetBothKeeps
<1>11. /\ Sound(t) /\ (RuleInv(off) => RuleInv(t)) /\ t \in Raw
       /\ t.state = off.state /\ t.dev = off.dev /\ t.info = off.info
       /\ \A w \in Lists : ListPut(off, t, w, on[w])
       /\ AddrsPut(off, t, on.proto)
  BY <1>10 DEF BothPut, Sound
<1>12. t["proto"] = t.proto /\ t["config"] = t.config
       /\ t.on["proto"] = t.on.proto /\ t.on["config"] = t.on.config
  BY <1>11 DEF Raw
<1>13. /\ t.on.proto = s.on.proto /\ t.on.config = s.on.config
       /\ on.proto => Unique(t.proto)
       /\ off.proto = {} => t.proto = {}
       /\ off.dev = NoDevice => t.config = off.config
  <2>1. ListPut(off, t, "proto", on["proto"]) /\ ListPut(off, t, "config", on["config"])
    BY <1>8, <1>11
  <2> QED BY <1>3, <1>8, <1>9, <1>12, <2>1 DEF ListPut
<1>14. \A w \in Lists : off.dev # NoDevice => Switched(t, w) /\ MetricNow(t, w)
  <2>1. ASSUME NEW w \in Lists PROVE MetricNow(off, w)
    BY <1>6 DEF Quiet, MetricNow
  <2> QED BY <1>11, <2>1 DEF ListPut
<1>15. Switched(t, "config")
  <2>1. CASE off.dev # NoDevice
    BY <1>8, <1>14, <2>1
  <2>2. CASE off.dev = NoDevice
    <3>1. t["config"] = n["config"] /\ t.on["config"] = n.on["config"] /\ t.info = n.info
      BY <1>0, <1>5, <1>7, <1>8, <1>9, <1>11, <1>12, <1>13, <2>2
    <3> QED BY <1>5, <3>1, SwitchedStays
  <2> QED BY <2>1, <2>2
<1>16. /\ DOMAIN t.addrs = DOMAIN s.addrs
       /\ \A x \in DOMAIN s.addrs \cap External : t.addrs[x] = s.addrs[x]
  BY <1>5, <1>7, <1>11 DEF AddrsPut
<1>17. OneTable => Rules(t)
  <2>1. ASSUME OneTable, ExternalNow(s) PROVE ExternalNow(t)
    <3>1. t.info = info /\ s.info \in Infos
      BY <1>5, <1>0, <1>7, <1>11, InfoIs
    <3>2. ASSUME NEW x \in DOMAIN t.addrs \cap External, t.addrs[x].policy # 0
          PROVE  t.addrs[x].policy = t.info.table
      <4>1. s.addrs[x].policy # 0 /\ s.addrs[x].policy = s.info.table
        BY <1>16, <2>1, <3>2 DEF ExternalNow
      <4>2. s.info.table = info.table
        BY <2>1, <3>1, <3>2, <4>1 DEF OneTable
      <4> QED BY <1>16, <3>1, <3>2, <4>1, <4>2
    <3> QED BY <3>2 DEF ExternalNow
  <2>2. RuleInv(s) => RuleInv(t)
    BY <1>5, <1>7, <1>11
  <2> QED BY <2>1, <2>2 DEF Inv, Rules
<1>18. Idle(s) => Idle(t)
  BY <1>5, <1>9, <1>13, <1>16 DEF Idle
<1>19. OwnNow(t)
  <2>1. ASSUME NEW x \in OwnOf(t), t.addrs[x].enabled
        PROVE  t.addrs[x].policy = t.info.table
    <3>1. x \in OwnOf(off)
      BY <1>7, <1>11 DEF OwnOf, AddrsPut
    <3>2. ~off.addrs[x].enabled
      BY <1>6, <3>1 DEF Quiet
    <3>3. /\ t.addrs[x].enabled = on.proto
          /\ on.proto => t.addrs[x].policy = off.info.table
      BY <1>11, <2>1, <3>2 DEF AddrsPut
    <3> QED BY <1>11, <2>1, <3>3
  <2> QED BY <2>1 DEF OwnNow
<1>20. t.state # "TEARDOWN" => Steady(t)
  <2>1. CASE off.dev # NoDevice
    BY <1>3, <1>11, <1>13, <1>14, <1>17, <1>19, <2>1 DEF Steady
  <2>2. CASE off.dev = NoDevice
    <3>1. Idle(t)
      BY <1>5, <1>7, <1>18, <2>2 DEF Inv
    <3>2. Switched(t, "proto") /\ MetricNow(t, "proto")
      BY <1>12, <3>1 DEF Idle, Switched, MetricNow
    <3>3. MetricNow(t, "config")
      BY <1>12, <1>15, <3>1 DEF Idle, Switched, MetricNow, EnableRoute
    <3>4. \A w \in Lists : Switched(t, w) /\ MetricNow(t, w)
      BY <1>15, <3>2, <3>3 DEF Lists
    <3> QED BY <1>3, <1>11, <1>13, <1>17, <1>19, <3>4 DEF Steady
  <2> QED BY <2>1, <2>2
<1>21. t.state = s.state /\ t.dev = s.dev
  BY <1>5, <1>7, <1>11
<1> QED BY <1>3, <1>11, <1>13, <1>15, <1>17, <1>18, <1>20, <1>21 DEF Inv

(* A change that takes a new set-up. *)
LEMMA NewSettings ==
  ASSUME NEW s, Inv(s), NEW info \in Infos, s.info.table # 0 => info.table # 0,
         NEW n, n = WithInfo(s, info), NEW state,
         state = (IF s.state = "DOWN" THEN "DOWN" ELSE "TEARDOWN"),
         NEW t, t = WithState(n, state)
  PROVE  Inv(t)
<1>0. Sound(s) /\ s \in Raw
  BY DEF Inv, Sound
<1>1. /\ Sound(n) /\ n \in Raw /\ (RuleInv(s) => RuleInv(n))
      /\ n.info = info /\ n.state = s.state /\ n.dev = s.dev /\ n.on = s.on
      /\ n.addrs = s.addrs /\ n.proto = s.proto /\ n.config = s.config
      /\ Switched(n, "config")
      /\ Idle(s) => Idle(n)
  BY <1>0, InfoKeeps DEF Inv
<1>2. ExternalNow(n) \/ ~OneTable
  <2>1. s.info \in Infos
    BY <1>0, InfoIs
  <2>2. ASSUME OneTable, ExternalNow(s), NEW x \in DOMAIN n.addrs \cap External,
               n.addrs[x].policy # 0
        PROVE  n.addrs[x].policy = n.info.table
    <3>1. s.addrs[x].policy # 0 /\ s.addrs[x].policy = s.info.table
      BY <1>1, <2>2 DEF ExternalNow
    <3>2. s.info.table = info.table
      BY <2>1, <2>2, <3>1 DEF OneTable
    <3> QED BY <1>1, <3>1, <3>2
  <2> QED BY <2>2 DEF ExternalNow, Inv, Rules
<1>3. OneTable => Rules(n)
  BY <1>1, <1>2 DEF Inv, Rules
<1>4. t \in Raw /\ PlaceFrame(n, t) /\ t.state = state /\ t.dev = n.dev
  BY <1>1, WithStateIs
<1>5. /\ Sound(t) /\ (OneTable => Rules(t)) /\ t.on = n.on
      /\ Switched(t, "config") /\ (Unique(n.proto) => Unique(t.proto))
      /\ Idle(n) => Idle(t)
      /\ Steady(n) => Steady(t)
  BY <1>1, <1>3, <1>4, StateKeeps DEF Lists
<1>6. ASSUME s.state = "DOWN" PROVE Steady(n)
  <2>1. Idle(n)
    BY <1>1, <1>6 DEF Inv
  <2>2. n["proto"] = n.proto /\ n["config"] = n.config /\ n.on["config"] = n.on.config
    BY <1>1 DEF Raw
  <2>3. Switched(n, "proto") /\ MetricNow(n, "proto")
    BY <2>1, <2>2 DEF Idle, Switched, MetricNow
  <2>4. MetricNow(n, "config")
    BY <1>1, <2>1, <2>2 DEF Idle, Switched, MetricNow, EnableRoute
  <2>5. \A w \in Lists : Switched(n, w) /\ MetricNow(n, w)
    BY <1>1, <2>3, <2>4 DEF Lists
  <2>6. OwnNow(n) /\ Unique(n.proto)
    BY <2>1 DEF Idle, OwnNow, OwnOf, Unique
  <2> QED BY <1>1, <1>3, <2>5, <2>6 DEF Steady
<1> QED BY <1>1, <1>4, <1>5, <1>6 DEF Inv

(* InitRoutes, with its loops by name. *)
InitRoutesBy(s, T, gw, willing) ==
  LET new == NewRoutes(s, T, gw, 0)
      r1 == AddRoutes(s, "config", new, willing)
  IN  DropRoutes(r1, "config", NotIn(r1.config, new))

(* It is the same. *)
LEMMA InitRoutesIs ==
  InitRoutes => \E T \in SUBSET ConfigRoutes, gw \in ConfigGateways, willing \in Willing :
                  ip' = InitRoutesBy(ip, T, gw, willing)
BY DEF InitRoutes, InitRoutesBy, NewRoutes, NotIn, FoldSet, MapThenFoldSet, DropRoutes, AddRoutes,
       Pick, Rest

(* config_init_routes *)
LEMMA InitRoutesKeeps ==
  ASSUME NEW s, Inv(s), NEW T \in SUBSET ConfigRoutes, NEW gw \in ConfigGateways, NEW willing,
         NEW t, t = InitRoutesBy(s, T, gw, willing)
  PROVE  Inv(t)
<1>0. /\ s \in Raw /\ AddrInv(s) /\ RouteInv(s) /\ Sound(s) /\ Switched(s, "config")
      /\ "config" \in Lists /\ Other("config") = "proto" /\ Dests("config") = ConfigRoutes
  BY DEF Inv, Sound, Lists, Other, Dests
<1>1. PICK until : until = 0
  OBVIOUS
<1>2. until \in Times /\ gw \in Gateways /\ T \in SUBSET Dests("config")
  BY <1>0, <1>1, IpAssumption
<1>3. PICK new : new = NewRoutes(s, T, gw, until)
  OBVIOUS
<1>4. PICK r1 : r1 = AddRoutes(s, "config", new, willing)
  OBVIOUS
<1>5. PICK gone : gone = NotIn(r1["config"], new)
  OBVIOUS
<1>6. /\ new \in SUBSET RoutesTo(Dests("config")) /\ IsFiniteSet(new)
      /\ \A r \in new : MetricOf(s, r)
      /\ \A r, q \in new : r.to = q.to => SameRoute(r, q)
  BY <1>0, <1>2, <1>3, NewRoutesAre
<1>7. r1 \in Raw /\ Joined(s, "config", new, r1)
  BY <1>0, <1>4, <1>6, AddRoutesIs
<1>8. /\ RouteFrame(s, r1) /\ RouteInv(r1) /\ Switched(r1, "config")
      /\ r1["proto"] = s["proto"] /\ r1["config"] = r1.config
  BY <1>0, <1>7 DEF Joined
<1>9. t = DropRoutes(r1, "config", gone)
  BY <1>1, <1>3, <1>4, <1>5, <1>8 DEF InitRoutesBy
<1>10. t \in Raw /\ Shed(r1, "config", gone, t)
  <2>1. gone \in SUBSET r1["config"]
    BY <1>5 DEF NotIn
  <2> QED BY <1>0, <1>7, <1>8, <1>9, <2>1, DropRoutesIs
<1>11. /\ RouteFrame(r1, t) /\ RouteInv(t)
       /\ t["config"] = r1["config"] \ gone /\ t["proto"] = s["proto"]
  BY <1>0, <1>8, <1>10 DEF Shed
<1>12. /\ t.state = s.state /\ t.dev = s.dev /\ t.info = s.info /\ t.on = s.on
       /\ t.policy = s.policy /\ t.addrs = s.addrs
       /\ t.kaddrs = s.kaddrs /\ t.krules = s.krules /\ t.ksubnets = s.ksubnets
       /\ t.hosts = s.hosts /\ t.khosts = s.khosts /\ t.kpolicy = s.kpolicy
  BY <1>8, <1>11 DEF RouteFrame
<1>13. /\ t["config"] = t.config /\ t["proto"] = t.proto /\ s["proto"] = s.proto
       /\ t.proto = s.proto
  BY <1>0, <1>10, <1>11
<1>14. AddrInv(t) /\ (RuleInv(s) => RuleInv(t))
  BY <1>0, <1>12, AddrInvOf
<1>15. \A q \in t["config"] : \E r \in new : SameRoute(q, r)
  <2>1. PICK l : l = r1["config"]
    OBVIOUS
  <2>2. \A q \in l : q \in NotIn(l, new) \/ \E r \in new : SameRoute(q, r)
    BY DEF NotIn, SameRoute
  <2>3. gone = NotIn(l, new) /\ t["config"] = l \ gone
    BY <1>5, <1>11, <2>1
  <2> QED BY <2>2, <2>3
<1>16. MetricNow(t, "config")
  BY <1>6, <1>12, <1>15 DEF MetricNow, MetricOf, SameRoute
<1>17. Unique(t.config)
  <2>1. NoTwins(t["config"])
    BY <1>0, <1>11, RouteInvIs DEF Tidy
  <2>2. ASSUME NEW p \in t["config"], NEW q \in t["config"], p.to = q.to PROVE p = q
    <3>1. PICK n \in new : SameRoute(p, n)
      BY <1>15
    <3>2. PICK k \in new : SameRoute(q, k)
      BY <1>15
    <3>3. SameRoute(n, k)
      BY <1>6, <2>2, <3>1, <3>2 DEF SameRoute
    <3>4. SameRoute(p, q)
      BY <3>1, <3>2, <3>3 DEF SameRoute
    <3> QED BY <2>1, <3>4 DEF NoTwins
  <2> QED BY <1>13, <2>2 DEF Unique
<1>18. Sound(t)
  <2>1. PolicyInv(t) /\ HostInv(t)
    BY <1>0, <1>12 DEF Sound, PolicyInv, HostInv
  <2> QED BY <1>10, <1>11, <1>14, <1>17, <2>1 DEF Sound
<1>19. Switched(t, "config")
  <2>1. t["config"] \subseteq r1["config"] /\ r1.on = t.on /\ r1.info = t.info
    BY <1>11 DEF RouteFrame
  <2> QED BY <1>8, <2>1 DEF Switched, EnableRoute
<1>20. OneTable => Rules(t)
  BY <1>12, <1>14 DEF Inv, Rules, ExternalNow
<1>21. Idle(s) => Idle(t)
  BY <1>12, <1>13 DEF Idle
<1>22. Steady(s) => Steady(t)
  <2>1. ASSUME Steady(s) PROVE Steady(t)
    <3>1. Switched(t, "proto") /\ MetricNow(t, "proto")
      <4>1. Switched(s, "proto") /\ MetricNow(s, "proto")
        BY <2>1 DEF Steady, Lists
      <4> QED BY <1>11, <1>12, <4>1, SwitchedStays
    <3>2. \A w \in Lists : Switched(t, w) /\ MetricNow(t, w)
      BY <1>16, <1>19, <3>1 DEF Lists
    <3>3. OwnNow(t)
      BY <1>12, <2>1 DEF Steady, OwnNow, OwnOf
    <3> QED BY <1>12, <1>13, <1>18, <1>20, <2>1, <3>2, <3>3 DEF Steady
  <2> QED BY <2>1
<1> QED BY <1>12, <1>13, <1>18, <1>19, <1>20, <1>21, <1>22 DEF Inv

KHosts == SUBSET [metric : Nat, gw : Gateways \cup {"link"}, dev : DeviceOrNone]
WithHosts(s, h, k) == [s EXCEPT !.hosts = h, !.khosts = k]

(* interface_ip_add_target_route *)
LEMMA AddTargetRouteKeeps ==
  ASSUME NEW s, Inv(s), NEW h \in HostEntry, NEW t, t = AddHostRoute(s, h)
  PROVE  Inv(t)
<1>0. s \in Raw /\ Sound(s) /\ HostInv(s)
  BY DEF Inv, Sound
<1>1. PICK old : old = {x \in s.hosts : x.metric = h.metric /\ x.table = h.table}
  OBVIOUS
<1>2. PICK H : H = (s.hosts \ old) \cup {h}
  OBVIOUS
<1>3. PICK k : k = [metric |-> h.metric, gw |-> h.gw, dev |-> s.dev]
  OBVIOUS
<1>4. PICK K : K = {x \in s.khosts \ {[metric |-> y.metric, gw |-> y.gw, dev |-> s.dev] : y \in old} :
                      x.metric # h.metric} \cup {k}
  OBVIOUS
<1>5. t = WithHosts(s, H, K)
  BY <1>1, <1>2, <1>3, <1>4 DEF AddHostRoute, WithHosts
<1>6. H \in SUBSET HostEntry /\ K \in KHosts
  <2>1. s.hosts \in SUBSET HostEntry /\ s.khosts \in KHosts /\ s.dev \in DeviceOrNone
    BY <1>0 DEF Raw, KHosts
  <2>2. k \in [metric : Nat, gw : Gateways \cup {"link"}, dev : DeviceOrNone]
    BY <1>3, <2>1 DEF HostEntry
  <2> QED BY <1>2, <1>4, <2>1, <2>2 DEF KHosts
<1>7. t \in Raw
  BY <1>0, <1>5, <1>6, ZenonT(60) DEF Raw, WithHosts, KHosts
<1>8. /\ t.state = s.state /\ t.dev = s.dev /\ t.info = s.info /\ t.on = s.on
      /\ t.policy = s.policy /\ t.addrs = s.addrs /\ t.proto = s.proto /\ t.config = s.config
      /\ t.kaddrs = s.kaddrs /\ t.krules = s.krules /\ t.ksubnets = s.ksubnets
      /\ t.kroutes = s.kroutes /\ t.kpolicy = s.kpolicy
      /\ t.hosts = H /\ t.khosts = K
  BY <1>0, <1>5, SMT DEF Raw, WithHosts
<1>9. t["proto"] = s["proto"] /\ t["config"] = s["config"]
  BY <1>0, <1>7, <1>8
<1>10. HostInv(t)
  <2>1. ASSUME NEW x \in K PROVE x.dev = s.dev /\ \E y \in H : x.metric = y.metric /\ x.gw = y.gw
    <3>1. CASE x = k
      BY <1>2, <1>3, <3>1
    <3>2. CASE x # k
      <4>1. /\ x \in s.khosts /\ x.metric # h.metric
        BY <1>4, <3>2
      <4>2. PICK y \in s.hosts : x.metric = y.metric /\ x.gw = y.gw /\ x.dev = s.dev
        BY <1>0, <4>1 DEF HostInv
      <4>3. y \in H
        BY <1>1, <1>2, <4>1, <4>2
      <4> QED BY <4>2, <4>3
    <3> QED BY <3>1, <3>2
  <2> QED BY <1>8, <2>1 DEF HostInv
<1>11. AddrInv(t) /\ RouteInv(t) /\ (RuleInv(s) => RuleInv(t))
  <2>1. AddrInv(t) /\ (RuleInv(s) => RuleInv(t))
    BY <1>0, <1>8, AddrInvOf DEF Sound
  <2>2. RouteInv(t)
    BY <1>0, <1>8, <1>9, RouteInvOf DEF Sound
  <2> QED BY <2>1, <2>2
<1>12. Sound(t)
  BY <1>0, <1>7, <1>8, <1>10, <1>11 DEF Sound, PolicyInv
<1>13. \A w \in Lists : /\ Switched(s, w) => Switched(t, w)
                        /\ MetricNow(s, w) => MetricNow(t, w)
  <2>1. \A w \in Lists : t[w] = s[w] /\ t.on[w] = s.on[w]
    BY <1>8, <1>9 DEF Lists
  <2> QED BY <1>8, <2>1, SwitchedStays
<1>14. OneTable => Rules(t)
  BY <1>8, <1>11 DEF Inv, Rules, ExternalNow
<1>15. OwnNow(s) => OwnNow(t)
  BY <1>8 DEF OwnNow, OwnOf
<1>16. Idle(s) => Idle(t)
  BY <1>8 DEF Idle
<1>17. Steady(s) => Steady(t)
  BY <1>8, <1>12, <1>13, <1>14, <1>15 DEF Steady
<1> QED BY <1>8, <1>12, <1>13, <1>14, <1>16, <1>17 DEF Inv, Lists

(***************************************************************************)
(* The theorems                                                            *)
(***************************************************************************)

IInv == Inv(ip)

(* The invariant holds at first ... *)
LEMMA InitInv == Init => IInv
<1> SUFFICES ASSUME Init PROVE IInv
  OBVIOUS
<1>1. /\ ip.state = "DOWN" /\ ip.dev = NoDevice /\ ip.info \in Infos
      /\ ip.on = [proto |-> TRUE, config |-> FALSE] /\ ip.policy = FALSE
      /\ ip.addrs = << >> /\ ip.proto = {} /\ ip.config = {} /\ ip.hosts = {}
      /\ ip.kaddrs = {} /\ ip.krules = {} /\ ip.ksubnets = {} /\ ip.kroutes = {}
      /\ ip.khosts = {} /\ ip.kpolicy = {}
      /\ ip["proto"] = {} /\ ip["config"] = {}
  BY DEF Init
<1>2. << >> \in AddrMap /\ DOMAIN << >> = {}
  <2>1. DOMAIN << >> = {}
    OBVIOUS
  <2>2. << >> \in [{} -> AddrEntry]
    OBVIOUS
  <2> QED BY <2>1, <2>2 DEF AddrMap
<1>3. ip \in Raw
  <2>1. ip \in [state : {"DOWN"}, dev : {NoDevice}, info : Infos,
                on : {[proto |-> TRUE, config |-> FALSE]}, policy : {FALSE},
                addrs : {<< >>}, proto : {{}}, config : {{}}, hosts : {{}},
                kaddrs : {{}}, krules : {{}}, ksubnets : {{}}, kroutes : {{}},
                khosts : {{}}, kpolicy : {{}}]
    BY DEF Init
  <2>2. << >> \in AddrMap /\ NoDevice \in DeviceOrNone
        /\ [proto |-> TRUE, config |-> FALSE] \in [proto : BOOLEAN, config : BOOLEAN]
    BY <1>2 DEF DeviceOrNone
  <2> HIDE DEF NoDevice
  <2> QED BY <2>1, <2>2 DEF Raw
<1>4. Sound(ip) /\ Rules(ip)
  <2>1. DOMAIN ip.addrs = {} /\ OwnOf(ip) = {}
    BY <1>1, <1>2 DEF OwnOf
  <2>2. AddrInv(ip) /\ Rules(ip)
    BY <1>1, <2>1 DEF AddrInv, Rules, RuleInv, ExternalNow
  <2>3. RouteInv(ip)
    <3>1. IsFiniteSet({})
      BY FS_EmptySet
    <3>2. \A w \in Lists : ip[w] = {}
      BY <1>1 DEF Lists
    <3>3. \A w \in Lists : Tidy(ip[w])
      BY <3>1, <3>2 DEF Tidy, NoTwins
    <3>4. Known(ip) /\ There(ip)
      BY <1>1 DEF Known, There
    <3> QED BY <3>3, <3>4, RouteInvIs
  <2>4. PolicyInv(ip) /\ HostInv(ip) /\ Unique(ip.config)
    BY <1>1 DEF PolicyInv, HostInv, Unique
  <2> QED BY <1>3, <2>2, <2>3, <2>4 DEF Sound
<1>5. Steady(ip)
  <2>1. \A w \in Lists : ip[w] = {}
    BY <1>1 DEF Lists
  <2>2. \A w \in Lists : Switched(ip, w) /\ MetricNow(ip, w)
    BY <2>1 DEF Switched, MetricNow
  <2>3. OwnNow(ip) /\ Unique(ip.proto)
    BY <1>1, <1>2 DEF OwnNow, OwnOf, Unique
  <2> QED BY <1>4, <2>2, <2>3 DEF Steady
<1>6. Idle(ip)
  BY <1>1, <1>2 DEF Idle
<1> QED BY <1>5, <1>6, SteadyIs DEF IInv

(* ... and every step keeps it. *)
LEMMA NextInv == IInv /\ [Next]_ip => IInv'
<1> SUFFICES ASSUME IInv, [Next]_ip PROVE IInv'
  OBVIOUS
<1>1. Inv(ip) /\ (Inv(ip') => IInv')
  BY DEF IInv
<1> SUFFICES Inv(ip')
  BY <1>1
<1>2. CASE UpdateLink
  <2>1. PICK d \in Devices, rep \in Reports, u \in Times, g \in Gateways,
             keep \in BOOLEAN, w \in Willing :
          /\ keep => /\ ip.state = "UP" /\ d = ip.dev
                     /\ ip.info.nodefault => \A to \in rep.routes : Mask[to] # 0
          /\ ip' = Up(Apply(SetL3Dev(ip, d, TRUE, w), rep, u, g, keep, w), w)
    BY <1>2 DEF UpdateLink
  <2>2. ip.state \in {"SETUP", "UP"} /\ (keep => ip.state = "UP" /\ MayAdd(ip, rep.routes))
    BY <1>2, <2>1 DEF UpdateLink, MayAdd
  <2> QED BY <1>1, <2>1, <2>2, UpdateLinkKeeps
<1>3. CASE ChangeDevice
  <2>1. PICK d \in Devices \ {ip.dev}, w \in Willing : ip' = SetL3Dev(ip, d, FALSE, w)
    BY <1>3 DEF ChangeDevice
  <2> QED BY <1>1, <1>3, <2>1, ChangeDeviceKeeps DEF ChangeDevice
<1>4. CASE Expire
  <2>1. PICK now \in Times \ {0} : ip' = ExpireBy(ip, now)
    BY <1>4, ExpireIs
  <2>2. PICK A : A = {a \in DOMAIN ip.addrs : Due(ip.addrs[a], now)}
    OBVIOUS
  <2>3. PICK R : R = {r \in ip.proto : Due(r, now)}
    OBVIOUS
  <2>4. PICK a1 : a1 = DropAddresses(ip, A)
    OBVIOUS
  <2>5. ip' = DropRoutes(a1, "proto", R)
    BY <2>1, <2>2, <2>3, <2>4 DEF ExpireBy
  <2>6. A \in SUBSET DOMAIN ip.addrs /\ R \in SUBSET ip["proto"] /\ ip.state = "UP"
    BY <1>4, <2>2, <2>3 DEF Expire
  <2> QED BY <1>1, <2>4, <2>5, <2>6, ExpireKeeps
<1>5. CASE Setup
  <2>1. ip' = WithState(ip, "SETUP") /\ ip.state = "DOWN"
    BY <1>5 DEF Setup, WithState
  <2> QED BY <1>1, <2>1, WithStateKeeps
<1>6. CASE Teardown
  <2>1. ip' = WithState(ip, "TEARDOWN")
    BY <1>6 DEF Teardown, WithState
  <2> QED BY <1>1, <2>1, WithStateKeeps
<1>7. CASE MarkDown
  <2>1. PICK c : c = Flush(SetBoth(ip, "config", Off, {}))
    OBVIOUS
  <2>2. PICK m : m = WithState(c, "DOWN")
    OBVIOUS
  <2>3. ip' = m \/ ip' = Moved(m, NoDevice) \/ ip' = WithState(m, "SETUP")
    BY <1>7, <2>1, <2>2 DEF MarkDown, Moved, WithState
  <2> QED BY <1>1, <2>1, <2>2, <2>3, MarkDownKeeps
<1>8. CASE ChangeConfig
  <2>1. PICK info \in Infos \ {ip.info}, reload \in BOOLEAN, w \in Willing :
          /\ ip.info.table # 0 => info.table # 0
          /\ ip' = IF ~reload THEN ReloadIp(ip, info, w)
                   ELSE [ip EXCEPT !.info = info,
                                   !.state = IF ip.state = "DOWN" THEN ip.state ELSE "TEARDOWN"]
    BY <1>8 DEF ChangeConfig
  <2>2. CASE ~reload
    BY <1>1, <2>1, <2>2, ReloadIpKeeps
  <2>3. CASE reload
    <3>1. PICK state : state = (IF ip.state = "DOWN" THEN "DOWN" ELSE "TEARDOWN")
      OBVIOUS
    <3>2. PICK n : n = WithInfo(ip, info)
      OBVIOUS
    <3>3. ip' = WithState(n, state)
      BY <2>1, <2>3, <3>1, <3>2 DEF WithState, WithInfo
    <3> QED BY <1>1, <2>1, <3>1, <3>2, <3>3, NewSettings
  <2> QED BY <2>2, <2>3
<1>9. CASE InitRoutes
  <2>1. PICK T \in SUBSET ConfigRoutes, gw \in ConfigGateways, w \in Willing :
          ip' = InitRoutesBy(ip, T, gw, w)
    BY <1>9, InitRoutesIs
  <2> QED BY <1>1, <2>1, InitRoutesKeeps
<1>10. CASE AddTargetRoute
  <2>1. ip \in Raw
    BY <1>1 DEF Inv, Sound
  <2>2. CASE ip' = AddHostRoute(ip, [gw |-> "link", metric |-> 0, table |-> 0])
    <3>1. PICK h : h = [gw |-> "link", metric |-> 0, table |-> 0]
      OBVIOUS
    <3>2. h \in HostEntry
      BY <3>1 DEF HostEntry
    <3> QED BY <1>1, <2>2, <3>1, <3>2, AddTargetRouteKeeps
  <2>3. CASE \E r \in FindRouteTarget(ip) :
               ip' = AddHostRoute(ip, [gw |-> r.gw, metric |-> r.metric, table |-> r.table])
    <3>1. PICK r \in FindRouteTarget(ip) :
            ip' = AddHostRoute(ip, [gw |-> r.gw, metric |-> r.metric, table |-> r.table])
      BY <2>3
    <3>2. PICK h : h = [gw |-> r.gw, metric |-> r.metric, table |-> r.table]
      OBVIOUS
    <3>3. r \in ip.proto \/ r \in ip.config
      BY <3>1 DEF FindRouteTarget, RouteTargets
    <3>4. h \in HostEntry
      BY <2>1, <3>2, <3>3 DEF HostEntry, Raw, RoutesTo
    <3> QED BY <1>1, <3>1, <3>2, <3>4, AddTargetRouteKeeps
  <2> QED BY <1>10, <2>2, <2>3 DEF AddTargetRoute
<1>11. CASE UNCHANGED ip
  BY <1>1, <1>11
<1> QED BY <1>2, <1>3, <1>4, <1>5, <1>6, <1>7, <1>8, <1>9, <1>10, <1>11 DEF Next

(* The inductive invariant holds in every state the settings reach: what is *)
(* installed is known, unique and as the settings say.                      *)
THEOREM AlwaysInv == Spec => []IInv
BY InitInv, NextInv, PTL DEF Spec

(* It gives the types ... *)
LEMMA TypesFollow == IInv => TypeOK
<1> SUFFICES ASSUME IInv PROVE TypeOK
  OBVIOUS
<1>1. ip \in Raw
  BY DEF IInv, Inv, Sound
<1>2. ip.addrs \in [DOMAIN ip.addrs -> AddrEntry] /\ DOMAIN ip.addrs \subseteq Addrs
  BY <1>1, AddrMapIs DEF Raw
<1>3. ip.proto \cup ip.config \subseteq RouteEntry
  <2>1. ip.proto \in SUBSET RoutesTo(ProtoRoutes) /\ ip.config \in SUBSET RoutesTo(ConfigRoutes)
    BY <1>1 DEF Raw
  <2>2. RoutesTo(ProtoRoutes) \subseteq RouteEntry /\ RoutesTo(ConfigRoutes) \subseteq RouteEntry
    BY DEF RoutesTo, RouteEntry, Targets
  <2> QED BY <2>1, <2>2
<1>4. ip.hosts \subseteq HostEntry
  BY <1>1 DEF Raw
<1> QED BY <1>2, <1>3, <1>4 DEF TypeOK

(* ... that what counts as installed is ... *)
LEMMA NothingMissingFollows == IInv => NothingMissing
<1> SUFFICES ASSUME IInv PROVE NothingMissing
  OBVIOUS
<1>1. AddrInv(ip) /\ RouteInv(ip)
  BY DEF IInv, Inv, Sound
<1>2. Own = OwnOf(ip)
  BY DEF Own, OwnOf
<1>3. \A a \in Own :
        ip.addrs[a].enabled /\ ~ip.addrs[a].missed =>
          /\ ~ip.addrs[a].failed => <<a, ip.dev>> \in ip.kaddrs
          /\ AddrRule(a, ip.addrs[a].policy) \subseteq ip.krules
  BY <1>1, <1>2 DEF AddrInv
<1>4. \A r \in RouteTargets(ip) : ~r.failed => KernelRoute(ip, r) \in ip.kroutes
  BY <1>1 DEF RouteInv
<1> QED BY <1>3, <1>4 DEF NothingMissing

(* ... that routes are as the settings say ... *)
LEMMA SettingsFollow == IInv => RoutesFollowSettings
<1> SUFFICES ASSUME IInv, ip.state # "TEARDOWN", NEW w \in Lists
             PROVE  \A r \in ip[w] :
                      /\ r.enabled = EnableRoute(ip, w, r)
                      /\ r.enabled => r.metric = ip.info.metric /\ r.table = ip.info.table
  BY DEF RoutesFollowSettings, Lists
<1>1. Switched(ip, w) /\ MetricNow(ip, w)
  BY DEF IInv, Inv, Steady
<1> QED BY <1>1 DEF Switched, MetricNow

(* ... and that nothing else is installed. *)
LEMMA NothingLeftFollows == OneTable /\ IInv => NothingLeftBehind
<1> SUFFICES ASSUME OneTable, IInv PROVE NothingLeftBehind
  OBVIOUS
<1>1. /\ AddrInv(ip) /\ RouteInv(ip) /\ RuleInv(ip) /\ PolicyInv(ip) /\ HostInv(ip) /\ ip \in Raw
  BY DEF IInv, Inv, Sound, Rules
<1>2. Own = OwnOf(ip)
  BY DEF Own, OwnOf
<1>3. ip.kaddrs \subseteq {<<a, ip.dev>> : a \in {b \in Own : ip.addrs[b].enabled}}
  BY <1>1, <1>2 DEF AddrInv
<1>4. ip.krules \subseteq UNION {AddrRule(a, ip.addrs[a].policy) :
                                  a \in {b \in DOMAIN ip.addrs : ip.addrs[b].enabled}}
  BY <1>1 DEF RuleInv
<1>5. ip.ksubnets \subseteq {SubnetRoute(a, ip.addrs[a].subnet) : a \in Own}
  BY <1>1, <1>2 DEF AddrInv
<1>6. ip.kroutes \subseteq {KernelRoute(ip, r) : r \in RouteTargets(ip)}
  BY <1>1 DEF RouteInv
<1>7. ip.khosts \subseteq {[metric |-> h.metric, gw |-> h.gw, dev |-> ip.dev] : h \in ip.hosts}
  <2>1. ASSUME NEW k \in ip.khosts
        PROVE  \E h \in ip.hosts : k = [metric |-> h.metric, gw |-> h.gw, dev |-> ip.dev]
    <3>1. k \in [metric : Nat, gw : Gateways \cup {"link"}, dev : DeviceOrNone]
      BY <1>1 DEF Raw
    <3>2. PICK h \in ip.hosts : k.metric = h.metric /\ k.gw = h.gw /\ k.dev = ip.dev
      BY <1>1 DEF HostInv
    <3> QED BY <3>1, <3>2
  <2> QED BY <2>1
<1>8. ip.kpolicy \subseteq {ip.dev}
  BY <1>1 DEF PolicyInv
<1> QED BY <1>3, <1>4, <1>5, <1>6, <1>7, <1>8, TypesFollow DEF NothingLeftBehind

(* Every entry of an interface has its type, whatever is reported, refused  *)
(* or configured.                                                           *)
THEOREM AlwaysTyped == Spec => []TypeOK
BY AlwaysInv, TypesFollow, PTL

(* interface_update_proto_addr, interface_update_proto_route and            *)
(* interface_ip_set_enabled: an entry that counts as installed is in the    *)
(* kernel, for all devices, addresses, targets, reports and settings, in    *)
(* whatever order the kernel takes or refuses them.                         *)
THEOREM NothingIsMissing == Spec => []NothingMissing
BY AlwaysInv, NothingMissingFollows, PTL

(* enable_route and interface_set_route_info: but in a teardown the routes  *)
(* are enabled just while their settings are, and those that are enabled    *)
(* have the metric and the table the interface has now.                     *)
THEOREM RoutesAlwaysFollow == Spec => []RoutesFollowSettings
BY AlwaysInv, SettingsFollow, PTL

(* The same functions: the kernel has no address, rule or route but those   *)
(* of enabled entries, as they stand now and on the current device. This    *)
(* takes one table for all settings if there are external addresses:        *)
(* interface_ip_set_enabled passes over these, so that a rule for one keeps *)
(* the table it was added with, and is forgotten when the address is        *)
(* renewed.                                                                 *)
THEOREM NothingIsLeftBehind == ASSUME OneTable PROVE Spec => []NothingLeftBehind
<1>1. IInv => NothingLeftBehind
  BY NothingLeftFollows
<1> QED BY AlwaysInv, <1>1, PTL

===============================================================================
