-------------------------- MODULE PrefixDelegation --------------------------
(***************************************************************************)
(* Delegated IPv6 prefixes (interface-ip.c): each is cut into sub-prefixes *)
(* for the interfaces that ask for one.  The kernel's addresses follow the *)
(* interfaces up and down and from device to device, and the prefixes as   *)
(* they come, are renewed, are divided anew and go.                        *)
(***************************************************************************)
EXTENDS PrefixAssign, FiniteSetsExt, Functions

CONSTANTS
  NumIfaces,     \* how many interfaces there may be
  Devices,       \* layer 3 devices they may run on
  PrefixIds,      \* the prefixes there may be, of which
  Ula,           \*   this is the site's own, `ula_prefix`
  PrefixLengths, \* their lengths
  Exclusions,    \* parts of one that its delegator keeps, [at, length]
  Configs,       \* ip6assign, ip6hint, ip6weight and ip6class of interfaces
  Tables,        \* ip6table of the interface that prefixes are delegated to
  Refusals       \* interfaces whose addresses the kernel may refuse

Names == 1 .. NumIfaces

(* interface_alloc: a hint is cut down to the length that is asked for.     *)
IP6Hint(h, length) ==
  IF h = NoHint \/ length \notin Lengths THEN h ELSE h - (h % Size(length))

NoDevice == "none"
NoExclusion == [at |-> 0, length |-> 0]

(* What a delegator keeps is a proper prefix: its host part is zero.        *)
ASSUME DelegationAssumption ==
  /\ NumIfaces \in Nat \ {0} /\ Refusals \subseteq Names
  /\ Ula \in PrefixIds /\ IsFiniteSet(PrefixIds) /\ NoDevice \notin Devices
  /\ PrefixLengths \subseteq Lengths /\ NoExclusion \in Exclusions
  /\ \A x \in Exclusions \ {NoExclusion} :
       x.length \in Lengths /\ x.at \in Nat /\ Aligned(x)
  /\ Configs \subseteq [length : Nat, hint : Nat \cup {NoHint}, weight : Nat,
                        classes : SUBSET PrefixIds]
  /\ \A c \in Configs : c.hint = IP6Hint(c.hint, c.length)

VARIABLE net

(* `ifs`: the interfaces; `enabled` is that of their IP settings.  `pfx`: a *)
(* prefix, its assignments, and whose wishes they answer.  `addrs` are the  *)
(* kernel's addresses in use, each with the route to its sub-prefix, and    *)
(* `rules` the policy rules for them.  `delegate` is whether the interface  *)
(* prefixes are delegated to passes them on, `table` its ip6table, and      *)
(* `refresh` the flag in interface_refresh_assignments.  `refused` is a     *)
(* ghost: interfaces that were refused an address since last enabled.       *)
IfState == [state : {"ABSENT", "DOWN", "SETUP", "UP", "TEARDOWN"},
            l3 : Devices \cup {NoDevice}, enabled : BOOLEAN, cfg : Configs]
Address == [prefix : PrefixIds, at : Nat, length : Lengths, dev : Devices]

NoPrefix == [live |-> FALSE, length |-> 64, excl |-> NoExclusion,
             list |-> << >>, asked |-> {}]

Init ==
  net \in [ifs : [Names -> {[state |-> "DOWN", l3 |-> NoDevice,
                             enabled |-> FALSE, cfg |-> c] : c \in Configs}],
           pfx : [PrefixIds -> {NoPrefix}],
           addrs : {{}}, rules : {{}}, table : Tables,
           delegate : BOOLEAN, refresh : {FALSE}, refused : {{}}]

(***************************************************************************)
(* interface_set_prefix_address                                            *)
(***************************************************************************)

AddressOf(n, p, c) ==
  [prefix |-> p, at |-> c.at, length |-> c.length, dev |-> n.ifs[c.name].l3]

(* The assignments of the prefixes ps for the interfaces is that have a     *)
(* device to put them on.                                                   *)
Concerned(n, ps, is) ==
  {x \in UNION {{p} \X Range(n.pfx[p].list) : p \in ps} :
     x[2].name \in is /\ n.ifs[x[2].name].l3 # NoDevice}

(* The rule that makes what is not routed unreachable, and the look-up in   *)
(* the table of the interface the prefix comes from; none for the ULA.      *)
RulesFor(n, T) ==
  {[to |-> AddressOf(n, x[1], x[2]), table |-> t] :
     x \in {y \in T : y[1] # Ula}, t \in {0, n.table}}

Mark(n, T, value) ==
  [p \in PrefixIds |->
     [n.pfx[p] EXCEPT !.list =
        [k \in DOMAIN @ |-> IF <<p, @[k]>> \in T
                              THEN [@[k] EXCEPT !.enabled = value] ELSE @[k]]]]

(* add = false: the address is deprecated, its route and rules deleted.     *)
Withdraw(n, ps, is) ==
  LET T == {x \in Concerned(n, ps, is) : x[2].enabled}
  IN  [n EXCEPT !.addrs = @ \ {AddressOf(n, x[1], x[2]) : x \in T},
                !.rules = @ \ RulesFor(n, T),
                !.pfx   = Mark(n, T, FALSE)]

(* Fault: nothing is announced before the interface is UP.                  *)
AnnounceWhenUp(n, ps, is, willing) ==
  LET T == {x \in Concerned(n, ps, is \cap willing) : n.ifs[x[2].name].state = "UP"}
  IN  [n EXCEPT !.refused = @ \cup (is \ willing),
                !.addrs = @ \cup {AddressOf(n, x[1], x[2]) : x \in T},
                !.rules = @ \cup RulesFor(n, {x \in T : ~x[2].enabled}),
                !.pfx   = Mark(n, T, TRUE)]

(* add = true, for the interfaces whose addresses the kernel accepts.       *)
Announce(n, ps, is, willing) ==
  LET T == {x \in Concerned(n, ps, is \cap willing) :
              n.ifs[x[2].name].state \in {"SETUP", "UP"}}
  IN  [n EXCEPT !.refused = @ \cup (is \ willing),
                !.addrs = @ \cup {AddressOf(n, x[1], x[2]) : x \in T},
                !.rules = @ \cup RulesFor(n, {x \in T : ~x[2].enabled}),
                !.pfx   = Mark(n, T, TRUE)]

(* interface_ip_set_enabled, as far as prefixes go.  `willing` are the      *)
(* interfaces whose addresses the kernel accepts.                           *)
SetEnabled(n, i, enabled, willing) ==
  LET m == [n EXCEPT !.ifs[i].enabled = enabled]
  IN  IF enabled THEN Announce(m, PrefixIds, {i}, willing)
                 ELSE Withdraw([m EXCEPT !.refused = @ \ {i}], PrefixIds, {i})

(***************************************************************************)
(* interface_update_prefix_assignments                                     *)
(***************************************************************************)

Delegated(n, p) == p = Ula \/ n.delegate

Wanting(n, p) ==
  {i \in Names : /\ n.ifs[i].state # "ABSENT"
                 /\ n.ifs[i].cfg.length \in 48 .. 64
                 /\ n.ifs[i].cfg.classes = {} \/ p \in n.ifs[i].cfg.classes}

EmptyList(pf) ==
  LET end == Entry(SENTINEL, Size(pf.length), 64)
  IN  IF pf.excl.length > 0 THEN <<Entry(EXCLUDED, pf.excl.at, pf.excl.length), end>>
                            ELSE <<end>>

(* The length of assignments first, then their weight, then the name.       *)
PrefixAssignmentLess(n, i, j) ==
  LET a == n.ifs[i].cfg  b == n.ifs[j].cfg
  IN  \/ a.length < b.length
      \/ a.length = b.length /\ a.weight > b.weight
      \/ a.length = b.length /\ a.weight = b.weight /\ i < j

AssignAtHint(n, list, i) ==
  InterfacePrefixAssign(list, i, n.ifs[i].cfg.hint, n.ifs[i].cfg.length)

(* Fault: only the length that was asked for is tried.                      *)
AssignAsAsked(n, list, i) ==
  InterfacePrefixAssign(list, i, NoHint, n.ifs[i].cfg.length)

(* do ... while (!assigned && ++c->length <= 64)                            *)
AssignAnywhere(n, list, i) ==
  LET fitting == {l \in n.ifs[i].cfg.length .. 64 : Assignable(list, NoHint, l)}
  IN  IF fitting = {} THEN list
      ELSE InterfacePrefixAssign(list, i, NoHint, Min(fitting))

(* The last of `is` in that order.                                          *)
LastOf(n, is) == CHOOSE i \in is : \A j \in is \ {i} : PrefixAssignmentLess(n, j, i)

(* Hints come first, in the order of names, then all that have nothing yet. *)
DivideAtHints(n, p) ==
  MapThenFoldSet(LAMBDA i, l : AssignAtHint(n, l, i), EmptyList(n.pfx[p]),
                 LAMBDA i : i, LAMBDA is : Max(is),
                 {i \in Wanting(n, p) : n.ifs[i].cfg.hint # NoHint})

Divide(n, p) ==
  LET first == DivideAtHints(n, p)
  IN  MapThenFoldSet(LAMBDA i, l : AssignAnywhere(n, l, i), first,
                     LAMBDA i : i, LAMBDA is : LastOf(n, is),
                     {i \in Wanting(n, p) : \A c \in Range(first) : c.name # i})

UpdatePrefixAssignments(n, p, willing) ==
  LET m == Withdraw(n, {p}, Names)
      asked == {[name |-> i, cfg |-> n.ifs[i].cfg] : i \in Wanting(n, p)}
  IN  Announce([m EXCEPT !.pfx[p].list = Divide(n, p), !.pfx[p].asked = asked],
               {p}, Names, willing)

(***************************************************************************)
(* interface_update_prefix                                                 *)
(***************************************************************************)

NewPrefix(n, p, length, excl, willing) ==
  LET m == [n EXCEPT !.pfx[p] = [NoPrefix EXCEPT !.live = TRUE, !.length = length,
                                                 !.excl = excl]]
  IN  IF Delegated(n, p) THEN UpdatePrefixAssignments(m, p, willing) ELSE m

OldPrefix(n, p) == [Withdraw(n, {p}, Names) EXCEPT !.pfx[p] = NoPrefix]

Willing == {Names \ r : r \in SUBSET Refusals}

(* A protocol reports a prefix.                                             *)
AddPrefix(p) ==
  /\ p # Ula /\ ~net.pfx[p].live
  /\ \E l \in PrefixLengths, x \in Exclusions, w \in Willing :
       /\ x.length > 0 => x.length > l /\ x.at < Size(l)
       /\ net' = NewPrefix(net, p, l, x, w)

(* Fault: the assignments are made anew and the old ones forgotten.         *)
RenewPrefixAnew(p) ==
  /\ p # Ula /\ net.pfx[p].live
  /\ \E x \in Exclusions, w \in Willing :
       net' = UpdatePrefixAssignments([net EXCEPT !.pfx[p].list = << >>, !.pfx[p].excl = x], p, w)

(* The same address and length again: the assignments move to the new       *)
(* prefix, whatever it says of a part that is kept.                         *)
RenewPrefix(p) ==
  /\ p # Ula /\ net.pfx[p].live
  /\ \E x \in Exclusions, w \in Willing :
       /\ x.length > 0 => x.length > net.pfx[p].length /\ x.at < Size(net.pfx[p].length)
       /\ net' = Announce([net EXCEPT !.pfx[p].excl = x], {p}, Names, w)

(* It is not reported again, expires, or its interface goes down.           *)
RemovePrefix(p) == p # Ula /\ net.pfx[p].live /\ net' = OldPrefix(net, p)

(* interface_ip_set_ula_prefix                                              *)
SetUlaPrefix ==
  \/ net.pfx[Ula].live /\ net' = OldPrefix(net, Ula)
  \/ \E l \in PrefixLengths, w \in Willing :
       /\ ~net.pfx[Ula].live \/ net.pfx[Ula].length # l
       /\ net' = NewPrefix(OldPrefix(net, Ula), Ula, l, NoExclusion, w)

(***************************************************************************)
(* The interfaces                                                          *)
(***************************************************************************)

Setup(i) ==
  /\ net.ifs[i].state = "DOWN"
  /\ net' = [net EXCEPT !.ifs[i].state = "SETUP"]

(* interface_set_l3_dev, called by a protocol that is not being torn down;  *)
(* the new device may fail to be claimed.                                   *)
SetL3Dev(i) ==
  /\ net.ifs[i].state \in {"DOWN", "SETUP", "UP"}
  /\ \E d \in Devices \ {net.ifs[i].l3}, claimed \in BOOLEAN, w \in Willing :
       LET m == [SetEnabled(net, i, FALSE, w) EXCEPT !.ifs[i].l3 = d]
       IN  net' = IF claimed /\ net.ifs[i].enabled THEN SetEnabled(m, i, TRUE, w) ELSE m

(* IFPEV_UP                                                                 *)
Up(i) ==
  /\ net.ifs[i].state = "SETUP"
  /\ \E w \in Willing :
       net' = [SetEnabled(net, i, TRUE, w) EXCEPT !.ifs[i].state = "UP"]

Teardown(i) ==
  /\ net.ifs[i].state \in {"SETUP", "UP"}
  /\ net' = [net EXCEPT !.ifs[i].state = "TEARDOWN"]

(* mark_interface_down; IFPEV_DOWN also takes the layer 3 device away, and  *)
(* IFPEV_LINK_LOST goes back to SETUP.                                      *)
MarkDown(i) ==
  LET m == SetEnabled([net EXCEPT !.ifs[i].state = "DOWN"], i, FALSE, {})
  IN  /\ net.ifs[i].state \in {"SETUP", "UP", "TEARDOWN"}
      /\ \/ net' = m
         \/ net' = [m EXCEPT !.ifs[i].l3 = NoDevice]
         \/ net.ifs[i].state = "UP" /\ net' = [m EXCEPT !.ifs[i].state = "SETUP"]

(* interface_alloc and interface_add; nobody divides prefixes anew for it.  *)
Create(i) ==
  /\ net.ifs[i].state = "ABSENT"
  /\ \E c \in Configs : net' = [net EXCEPT !.ifs[i].state = "DOWN", !.ifs[i].cfg = c]

(* interface_do_free: what it was assigned stays assigned.                  *)
Free(i) ==
  /\ net.ifs[i].state = "DOWN"
  /\ net' = [SetEnabled(net, i, FALSE, {}) EXCEPT
                !.ifs[i].state = "ABSENT", !.ifs[i].l3 = NoDevice]

(* interface_merge_assignment_data                                          *)
ChangeConfig(i) ==
  /\ net.ifs[i].state # "ABSENT"
  /\ \E c \in Configs \ {net.ifs[i].cfg} :
       net' = [net EXCEPT !.ifs[i].cfg = c, !.refresh = TRUE]

(* interface_refresh_assignments(false), at the end of a reload: each       *)
(* prefix that is delegated is divided anew.                                *)
RefreshAssignments ==
  LET ps == {p \in PrefixIds : net.pfx[p].live /\ Delegated(net, p)}
  IN  /\ net.refresh
      /\ \E w \in Willing :
           net' = FoldSet(LAMBDA p, n : UpdatePrefixAssignments(n, p, w),
                          [net EXCEPT !.refresh = FALSE], ps)

(* The delegated interface's ip6table changes.                              *)
ChangeTable == \E t \in Tables : net' = [net EXCEPT !.table = t]

Next ==
  \/ \E p \in PrefixIds : AddPrefix(p) \/ RenewPrefix(p) \/ RemovePrefix(p)
  \/ SetUlaPrefix
  \/ \E i \in Names :
       \/ Setup(i) \/ SetL3Dev(i) \/ Up(i) \/ Teardown(i) \/ MarkDown(i)
       \/ Create(i) \/ Free(i) \/ ChangeConfig(i)
  \/ RefreshAssignments
  \/ ChangeTable

Spec == Init /\ [][Next]_net

(***************************************************************************)
(* Properties                                                              *)
(***************************************************************************)

(* The types of an interface, a prefix and the kernel's addresses.          *)
TypeOK ==
  /\ net.ifs \in [Names -> IfState]
  /\ \A p \in PrefixIds : net.pfx[p].list \in Seq(Entries)
  /\ net.addrs \subseteq Address
  /\ {r.to : r \in net.rules} \subseteq Address

Assigned(p) == {c \in Range(net.pfx[p].list) : c.name \in Names}

(* interface_prefix_assign: however prefixes are divided, what interfaces   *)
(* get are proper prefixes within the one delegated, one each, that overlap *)
(* neither each other nor the part the delegator keeps.                     *)
SubprefixesDisjoint ==
  \A p \in PrefixIds :
    /\ Disjoint(net.pfx[p].list)
    /\ \A c \in Assigned(p) :
         /\ Aligned(c) /\ End(c) <= Size(net.pfx[p].length)
         /\ \A d \in Assigned(p) : c.name = d.name => c = d

Overlap(c, at, length) == c.at < at + Size(length) /\ at < End(c)

(* Nothing but others of the list is in the way of a block.                 *)
Vacant(p, own, at, length) ==
  /\ at + Size(length) <= Size(net.pfx[p].length)
  /\ \A c \in Range(net.pfx[p].list) :
       c.name \notin {SENTINEL, own} => ~Overlap(c, at, length)

(* interface_update_prefix_assignments: an interface that asked for a block *)
(* got one as large, unless no such block was left, and then the largest    *)
(* there was; without one it is only if no /64 was left.                    *)
NothingWasted ==
  \A p \in PrefixIds : \A x \in net.pfx[p].asked :
    LET granted == {c.length : c \in {d \in Assigned(p) : d.name = x.name}}
    IN  \A l \in x.cfg.length .. (IF granted = {} THEN 64 ELSE Max(granted) - 1) :
          \A b \in 0 .. (Size(net.pfx[p].length) \div Size(l)) - 1 :
            ~Vacant(p, x.name, b * Size(l), l)

(* The same function: an ip6hint is followed, unless it lies outside the    *)
(* prefix, in what the delegator keeps or in what an interface of a lesser  *)
(* name was given at its own hint.                                          *)
HintsHonoured ==
  \A p \in PrefixIds : \A x \in net.pfx[p].asked :
    LET AtHint(y) == [name |-> y.name, at |-> y.cfg.hint, length |-> y.cfg.length]
        Given(y) == \E c \in Assigned(p) :
          c.name = y.name /\ c.at = y.cfg.hint /\ c.length = y.cfg.length
        before == {y \in net.pfx[p].asked : y.name < x.name /\ y.cfg.hint # NoHint /\ Given(y)}
    IN  x.cfg.hint # NoHint /\ ~Given(x) =>
          \/ x.cfg.hint + Size(x.cfg.length) > Size(net.pfx[p].length)
          \/ \E c \in Range(net.pfx[p].list) :
               c.name = EXCLUDED /\ Overlap(c, x.cfg.hint, x.cfg.length)
          \/ \E y \in before : Overlap(AtHint(y), x.cfg.hint, x.cfg.length)

(* interface_set_prefix_address: the kernel has the addresses and rules of  *)
(* the assignments marked enabled, on the devices their interfaces have     *)
(* now, and no others, whatever came, went or was divided anew meanwhile.   *)
(* (Rules with a table are not covered: they stay when the table changes.)  *)
AddressesAgree ==
  LET on == {x \in UNION {{p} \X Assigned(p) : p \in PrefixIds} : x[2].enabled}
  IN  /\ TypeOK
      /\ net.addrs = {AddressOf(net, x[1], x[2]) : x \in on}
      /\ {r \in net.rules : r.table = 0} =
           {[to |-> AddressOf(net, x[1], x[2]), table |-> 0] : x \in {y \in on : y[1] # Ula}}

(* interface_ip_set_enabled: while an interface's IP settings are enabled   *)
(* its assignments are, unless the kernel refused; one that is DOWN has     *)
(* none left.                                                               *)
AddressesFollowState ==
  \A i \in Names, p \in PrefixIds :
    LET if == net.ifs[i]
        own == {c \in Assigned(p) : c.name = i}
    IN  /\ (/\ if.enabled /\ if.state = "UP"
           /\ if.l3 # NoDevice /\ i \notin net.refused) => \A c \in own : c.enabled
        /\ if.state = "DOWN" => \A c \in own : ~c.enabled
=============================================================================
