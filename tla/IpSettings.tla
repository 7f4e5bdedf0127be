----------------------------- MODULE IpSettings -----------------------------
(***************************************************************************)
(* The addresses and routes of one interface (interface-ip.c) and what the *)
(* kernel has of them, while its protocol reports and renews them, its     *)
(* layer 3 device changes, it goes up and down, entries expire, the        *)
(* configuration is reloaded and the kernel refuses some.  One family of   *)
(* addresses; the other is handled alike.                                  *)
(***************************************************************************)
EXTENDS Integers, FiniteSetsExt, Functions

CONSTANTS
  Devices,     \* layer 3 devices the interface may run on
  Addrs,       \* addresses its protocol may report, of which
  External,    \*   somebody else puts these on the device,
  Near,        \*   and these have the host of a host route in their subnet
  ProtoRoutes, \* targets of routes its protocol may report
  ConfigRoutes,\* targets of routes in the configuration
  Mask,        \* the length of each target; all of them contain the host
  Gateways,    \* next hops, of which
  ConfigGateways, \* the configuration uses these
  Times,       \* values of valid_until
  Infos,       \* metric, ip4table and no_defaultroute of the interface
  Reports,     \* [addrs, routes]: what a protocol reports in one go
  Refusals,    \* addresses and routes the kernel may refuse, one at a time
  MaxHosts     \* bound: host routes added at the same time

NoDevice == "none"
Main     == 0     \* the main routing table
Targets  == ProtoRoutes \cup ConfigRoutes

ASSUME IpAssumption ==
  /\ IsFiniteSet(Addrs) /\ IsFiniteSet(Targets) /\ 0 \in Times /\ Times \subseteq Nat
  /\ NoDevice \notin Devices /\ External \cup Near \subseteq Addrs /\ ConfigGateways \subseteq Gateways
  /\ ProtoRoutes \cap ConfigRoutes = {} /\ Mask \in [Targets -> 0 .. 32]
  /\ Infos \subseteq [metric : Nat, table : Nat, nodefault : BOOLEAN]
  /\ Reports \subseteq [addrs : SUBSET Addrs, routes : SUBSET ProtoRoutes]

VARIABLE ip

(* An entry of ip->addr and of ip->route.  `subnet` is the route to an      *)
(* address's subnet as it was added.  `missed` is a ghost: the entry counts *)
(* as installed, but system_add_address failed and nobody took note, or it  *)
(* took the place of one that was disabled.                                 *)
NoSubnet == [dev |-> NoDevice, metric |-> 0, table |-> 0]
Subnet == [dev : Devices \cup {NoDevice}, metric : Nat, table : Nat]
AddrEntry == [until : Times, enabled : BOOLEAN, failed : BOOLEAN,
              policy : Nat, subnet : Subnet, missed : BOOLEAN]
RouteEntry == [to : Targets, metric : Nat, table : Nat, gw : Gateways,
               until : Times, enabled : BOOLEAN, failed : BOOLEAN]
HostEntry == [gw : Gateways \cup {"link"}, metric : Nat, table : Nat]

(* `on` is the flag `enabled` of proto_ip and of config_ip; `policy` is     *)
(* policy_rules_set.  The k* fields are the kernel's: addresses, rules for  *)
(* them, routes to their subnets as long as an entry remembers them, routes, *)
(* host routes, and the devices with the rule that refuses what no policy   *)
(* covers.                                                                  *)
Init ==
  ip \in [state : {"DOWN"}, dev : {NoDevice}, info : Infos,
          on : {[proto |-> TRUE, config |-> FALSE]}, policy : {FALSE},
          addrs : {<< >>}, proto : {{}}, config : {{}}, hosts : {{}},
          kaddrs : {{}}, krules : {{}}, ksubnets : {{}}, kroutes : {{}},
          khosts : {{}}, kpolicy : {{}}]

(***************************************************************************)
(* The kernel                                                              *)
(***************************************************************************)

KernelRoute(s, r) ==
  [to |-> r.to, metric |-> r.metric, table |-> r.table, gw |-> r.gw, dev |-> s.dev]

(* NLM_F_REPLACE: one route to a target of a metric in a table.             *)
SystemAddRoute(s, r) ==
  [s EXCEPT !.kroutes = {k \in @ : <<k.to, k.metric, k.table>> # <<r.to, r.metric, r.table>>}
                          \cup {KernelRoute(s, r)}]
SystemDelRoute(s, r) == [s EXCEPT !.kroutes = @ \ {KernelRoute(s, r)}]

SubnetRoute(a, sub) == [addr |-> a, dev |-> sub.dev, metric |-> sub.metric,
                        table |-> sub.table]

(* interface_handle_subnet_route: the entry remembers what was added.       *)
AddSubnetRoute(s, a) ==
  LET sub == [dev |-> s.dev, metric |-> s.info.metric, table |-> s.info.table]
  IN  [s EXCEPT !.addrs[a].subnet = sub,
                !.ksubnets = @ \cup {SubnetRoute(a, sub)}]
DelSubnetRoute(s, a) ==
  [s EXCEPT !.ksubnets = @ \ {SubnetRoute(a, s.addrs[a].subnet)},
            !.addrs[a].subnet = NoSubnet]

AddrRule(a, table) == IF table = 0 THEN {} ELSE {[addr |-> a, table |-> table]}

(***************************************************************************)
(* interface_update_proto_addr                                             *)
(***************************************************************************)

WithDefault(s) == s.info.metric # 0 \/ s.info.table # 0

Without(f, x) == Restrict(f, DOMAIN f \ {x})
With(f, x, v) == [y \in DOMAIN f \cup {x} |-> IF y = x THEN v ELSE f[y]]

(* An enabled entry goes.                                                   *)
DropAddress(s, a) ==
  LET old == s.addrs[a]
      m == IF a \in External THEN s
           ELSE [DelSubnetRoute(s, a) EXCEPT !.kaddrs = @ \ {<<a, s.dev>>}]
  IN  IF ~old.enabled THEN [s EXCEPT !.addrs = Without(@, a)]
      ELSE [m EXCEPT !.krules = @ \ AddrRule(a, old.policy),
                     !.addrs  = Without(@, a)]

(* Fault: an address that was refused once counts as installed.             *)
KeepRefused(s, a) == a \in DOMAIN s.addrs

Keep(s, a) == a \in DOMAIN s.addrs /\ ~s.addrs[a].failed

(* The kernel takes those of `willing`.  An entry that is kept unchanged    *)
(* takes over the place of the old one, but forgets its subnet route: from  *)
(* then on that stays in the kernel.                                        *)
AddAddress(s, a, until, willing) ==
  LET keep == Keep(s, a)
      replace == keep /\ s.addrs[a].until # until
      fresh == [until |-> until, enabled |-> TRUE, policy |-> s.info.table,
                subnet |-> NoSubnet,
                failed |-> a \notin External /\ (~keep \/ replace) /\ a \notin willing,
                missed |-> keep /\ (s.addrs[a].missed \/ ~s.addrs[a].enabled)]
      m == IF keep
             THEN [s EXCEPT !.addrs = With(@, a, fresh),
                            !.ksubnets = @ \ {SubnetRoute(a, s.addrs[a].subnet)}]
             ELSE LET d == IF a \in DOMAIN s.addrs THEN DropAddress(s, a) ELSE s
                  IN  [d EXCEPT !.addrs = With(@, a, fresh),
                                !.krules = @ \cup AddrRule(a, s.info.table)]
      installed == IF a \in willing THEN [m EXCEPT !.kaddrs = @ \cup {<<a, s.dev>>}] ELSE m
  IN  IF a \in External \/ (keep /\ ~replace) THEN m
      ELSE IF WithDefault(s) THEN AddSubnetRoute(installed, a) ELSE installed

(***************************************************************************)
(* interface_update_proto_route; `which` is "proto" or "config"            *)
(***************************************************************************)

EnableRoute(s, which, r) ==
  s.on[which] /\ ~(which = "proto" /\ s.info.nodefault /\ Mask[r.to] = 0)

DropRoute(s, which, r) ==
  LET m == [s EXCEPT ![which] = @ \ {r}]
  IN  IF r.enabled THEN SystemDelRoute(m, r) ELSE m

SameRoute(r, q) == r.to = q.to /\ r.metric = q.metric /\ r.table = q.table

(* Fault: a route whose gateway alone has changed is kept.                  *)
AddRouteKeeping(s, which, r, willing) ==
  LET old == {q \in s[which] : SameRoute(q, r)}
      on == EnableRoute(s, which, r)
      new == [r EXCEPT !.enabled = on, !.failed = old = {} /\ on /\ r.to \notin willing]
      add == [s EXCEPT ![which] = (@ \ old) \cup {new}]
  IN  IF on /\ old = {} /\ r.to \in willing THEN SystemAddRoute(add, r) ELSE add

AddRoute(s, which, r, willing) ==
  LET old == {q \in s[which] : SameRoute(q, r)}
      keep == \E q \in old : q.gw = r.gw /\ ~q.failed
      gone == IF keep THEN [s EXCEPT ![which] = @ \ old]
              ELSE FoldSet(LAMBDA q, t : DropRoute(t, which, q), s, old)
      on == EnableRoute(s, which, r)
      new == [r EXCEPT !.enabled = on, !.failed = ~keep /\ on /\ r.to \notin willing]
      add == [gone EXCEPT ![which] = @ \cup {new}]
  IN  IF on /\ ~keep /\ r.to \in willing THEN SystemAddRoute(add, r) ELSE add

(* interface_set_route_info, for routes without a metric or a table of      *)
(* their own.                                                               *)
SetRouteInfo(s, r) == [r EXCEPT !.metric = s.info.metric, !.table = s.info.table]
NewRoute(s, to, gw, until) ==
  [to |-> to, metric |-> s.info.metric, table |-> s.info.table, gw |-> gw,
   until |-> until, enabled |-> FALSE, failed |-> FALSE]

(***************************************************************************)
(* interface_ip_set_enabled, interface_ip_flush                            *)
(***************************************************************************)

EnableAddress(s, a, willing) ==
  LET table == s.info.table
      m == [s EXCEPT !.addrs[a].enabled = TRUE, !.addrs[a].policy = table,
                     !.addrs[a].missed = a \notin willing,
                     !.kaddrs = IF a \in willing THEN @ \cup {<<a, s.dev>>} ELSE @,
                     !.krules = @ \cup AddrRule(a, table)]
  IN  IF WithDefault(s) THEN AddSubnetRoute(m, a) ELSE m

DisableAddress(s, a) ==
  [DelSubnetRoute(s, a) EXCEPT !.addrs[a].enabled = FALSE, !.addrs[a].missed = FALSE,
                               !.kaddrs = @ \ {<<a, s.dev>>},
                               !.krules = @ \ AddrRule(a, s.addrs[a].policy)]

SetRoute(s, which, r, enabled, willing) ==
  LET on == enabled /\ EnableRoute(s, which, r)
      new == [SetRouteInfo(s, r) EXCEPT !.enabled = TRUE,
                                        !.failed = @ \/ r.to \notin willing]
      m == [s EXCEPT ![which] = (@ \ {r}) \cup {new}]
  IN  IF on = r.enabled THEN s
      ELSE IF ~on
             THEN SystemDelRoute([s EXCEPT ![which] = (@ \ {r}) \cup {[r EXCEPT !.enabled = FALSE]}], r)
             ELSE IF r.to \in willing THEN SystemAddRoute(m, new) ELSE m

SetPolicy(s, enabled) ==
  IF s.policy = enabled THEN s
  ELSE [s EXCEPT !.policy = enabled,
                 !.kpolicy = IF enabled THEN @ \cup {s.dev} ELSE @ \ {s.dev}]

SetEnabled(s, which, enabled, willing) ==
  LET m == [s EXCEPT !.on[which] = enabled]
      own == IF which = "config" THEN {}
             ELSE {a \in DOMAIN s.addrs \ External : s.addrs[a].enabled # enabled}
      a1 == FoldSet(LAMBDA a, t : IF enabled THEN EnableAddress(t, a, willing)
                                             ELSE DisableAddress(t, a), m, own)
      r1 == FoldSet(LAMBDA r, t : SetRoute(t, which, r, enabled, willing), a1, s[which])
  IN  IF s.dev = NoDevice THEN m ELSE SetPolicy(r1, enabled)

SetBoth(s, first, enabled, willing) ==
  SetEnabled(SetEnabled(s, first, enabled[first], willing),
             IF first = "proto" THEN "config" ELSE "proto",
             enabled[IF first = "proto" THEN "config" ELSE "proto"], willing)

Off == [proto |-> FALSE, config |-> FALSE]
On  == [proto |-> TRUE, config |-> TRUE]

(* vlist_flush_all of proto_ip and of the host routes.                      *)
Flush(s) ==
  LET r1 == FoldSet(LAMBDA r, t : DropRoute(t, "proto", r),
                    [s EXCEPT !.hosts = {}, !.khosts = {}], s.proto)
  IN  FoldSet(LAMBDA a, t : DropAddress(t, a), r1, DOMAIN s.addrs)

(***************************************************************************)
(* The protocol                                                            *)
(***************************************************************************)

Willing == {(Addrs \cup Targets) \ x : x \in {{}} \cup {{y} : y \in Refusals}}

(* interface_set_l3_dev                                                     *)
SetL3Dev(s, d, claimed, willing) ==
  LET both == [proto |-> s.on.config, config |-> s.on.config]
      m == [Flush(SetBoth(s, "config", Off, willing)) EXCEPT !.dev = d]
  IN  IF d = s.dev THEN s
      ELSE IF d = NoDevice \/ ~claimed THEN m
      ELSE SetBoth(m, "config", both, willing)

(* vlist_add of everything reported, then vlist_flush of what was not.      *)
Apply(s, rep, until, gw, keep, willing) ==
  LET a1 == FoldSet(LAMBDA a, t : AddAddress(t, a, until, willing), s, rep.addrs)
      new == {NewRoute(s, to, gw, until) : to \in rep.routes}
      r1 == FoldSet(LAMBDA r, t : AddRoute(t, "proto", r, willing), a1, new)
      gone == {r \in r1.proto : ~\E q \in new : SameRoute(q, r)}
      r2 == FoldSet(LAMBDA r, t : DropRoute(t, "proto", r), r1, gone)
  IN  IF keep THEN r1
      ELSE FoldSet(LAMBDA a, t : DropAddress(t, a), r2, DOMAIN r2.addrs \ rep.addrs)

(* IFPEV_UP                                                                 *)
Up(s, willing) ==
  IF s.state = "SETUP" THEN [SetBoth(s, "config", On, willing) EXCEPT !.state = "UP"] ELSE s

(* proto_shell_update_link; also what a static protocol does at its set-up. *)
(* A report that comes to an interface that is DOWN again, and one that is  *)
(* added to a default route the interface may not have, are left out (see   *)
(* README).                                                                 *)
UpdateLink ==
  /\ ip.state \in {"SETUP", "UP"}
  /\ \E d \in Devices, rep \in Reports, t \in Times, g \in Gateways,
        keep \in BOOLEAN, w \in Willing :
       /\ keep => /\ ip.state = "UP" /\ d = ip.dev
                  /\ ip.info.nodefault => \A to \in rep.routes : Mask[to] # 0
       /\ ip' = Up(Apply(SetL3Dev(ip, d, TRUE, w), rep, t, g, keep, w), w)

(* ... that stops where the new device cannot be claimed.                   *)
ChangeDevice ==
  /\ ip.state \in {"SETUP", "UP"}
  /\ \E d \in Devices \ {ip.dev}, w \in Willing : ip' = SetL3Dev(ip, d, FALSE, w)

(* interface_ip_valid_until_handler, once a second.                         *)
Expire ==
  /\ ip.state = "UP"
  /\ \E t \in Times \ {0} :
       LET Due(e) == e.until \in 1 .. t
           a1 == FoldSet(LAMBDA a, s : DropAddress(s, a), ip,
                         {a \in DOMAIN ip.addrs : Due(ip.addrs[a])})
       IN  ip' = FoldSet(LAMBDA r, s : DropRoute(s, "proto", r), a1,
                         {r \in ip.proto : Due(r)})

(***************************************************************************)
(* The interface and its configuration                                     *)
(***************************************************************************)

Setup == ip.state = "DOWN" /\ ip' = [ip EXCEPT !.state = "SETUP"]

Teardown == ip.state \in {"SETUP", "UP"} /\ ip' = [ip EXCEPT !.state = "TEARDOWN"]

(* mark_interface_down; IFPEV_DOWN also takes the layer 3 device away, and  *)
(* IFPEV_LINK_LOST goes back to SETUP.                                      *)
MarkDown ==
  LET m == [Flush(SetBoth(ip, "config", Off, {})) EXCEPT !.state = "DOWN"]
  IN  /\ ip.state # "DOWN"
      /\ \/ ip' = m
         \/ ip' = [m EXCEPT !.dev = NoDevice]
         \/ ip.state = "UP" /\ ip' = [m EXCEPT !.state = "SETUP"]

(* Fault: new settings are put in the place of the old without taking back  *)
(* what was installed by them.                                              *)
ReloadIpInPlace(s, info, willing) ==
  LET new == [s EXCEPT !.info = info] IN SetBoth(new, "proto", s.on, willing)

(* reload_ip of interface_change_config: everything off and on again.       *)
ReloadIp(s, info, willing) ==
  LET off == SetBoth([s EXCEPT !.info = info], "config", Off, willing)
  IN  SetBoth(off, "proto", s.on, willing)

(* interface_change_config; a change that takes a new set-up begins with    *)
(* the teardown.  A table is not taken away (see README).                   *)
ChangeConfig ==
  \E info \in Infos \ {ip.info}, reload \in BOOLEAN, w \in Willing :
    /\ ip.info.table # 0 => info.table # 0
    /\ ip' = IF ~reload THEN ReloadIp(ip, info, w)
             ELSE [ip EXCEPT !.info = info,
                             !.state = IF @ = "DOWN" THEN @ ELSE "TEARDOWN"]

(* config_init_routes: the routes in the configuration, as they are now.    *)
InitRoutes ==
  \E to \in SUBSET ConfigRoutes, g \in ConfigGateways, w \in Willing :
    LET new == {NewRoute(ip, x, g, 0) : x \in to}
        r1 == FoldSet(LAMBDA r, t : AddRoute(t, "config", r, w), ip, new)
    IN  ip' = FoldSet(LAMBDA r, t : DropRoute(t, "config", r), r1,
                      {r \in r1.config : ~\E q \in new : SameRoute(q, r)})

(***************************************************************************)
(* interface_ip_add_target_route                                           *)
(***************************************************************************)

AddrTarget(s) == \E a \in DOMAIN s.addrs \cap Near : s.addrs[a].enabled
RouteTargets(s) == {r \in s.proto \cup s.config : r.enabled}

(* __find_ip_route_target: a route with a shorter mask takes precedence.     *)
FindRouteTarget(s) ==
  {r \in RouteTargets(s) : \A q \in RouteTargets(s) : Mask[r.to] <= Mask[q.to]}

(* interface_update_host_route; the host routes are in the main table.  One *)
(* the kernel refuses is not modelled.                                      *)
AddHostRoute(s, h) ==
  LET old == {x \in s.hosts : x.metric = h.metric /\ x.table = h.table}
      KernelHost(x) == [metric |-> x.metric, gw |-> x.gw, dev |-> s.dev]
  IN  [s EXCEPT !.hosts = (@ \ old) \cup {h},
                !.khosts = {k \in @ \ {KernelHost(x) : x \in old} : k.metric # h.metric}
                             \cup {KernelHost(h)}]

AddTargetRoute ==
  /\ Cardinality(ip.hosts) < MaxHosts
  /\ \/ /\ AddrTarget(ip)
        /\ ip' = AddHostRoute(ip, [gw |-> "link", metric |-> 0, table |-> 0])
     \/ /\ ~AddrTarget(ip)
        /\ \E r \in FindRouteTarget(ip) :
             ip' = AddHostRoute(ip, [gw |-> r.gw, metric |-> r.metric, table |-> r.table])

Next ==
  \/ UpdateLink \/ ChangeDevice \/ Expire
  \/ Setup \/ Teardown \/ MarkDown
  \/ ChangeConfig \/ InitRoutes \/ AddTargetRoute

Spec == Init /\ [][Next]_ip

(***************************************************************************)
(* Properties                                                              *)
(***************************************************************************)

(* The types of the entries of an interface's IP settings.                  *)
TypeOK ==
  /\ ip.addrs \in [DOMAIN ip.addrs -> AddrEntry] /\ DOMAIN ip.addrs \subseteq Addrs
  /\ ip.proto \cup ip.config \subseteq RouteEntry /\ ip.hosts \subseteq HostEntry

Own == DOMAIN ip.addrs \ External

(* interface_update_proto_addr, interface_update_proto_route and            *)
(* interface_ip_set_enabled: whatever was reported, renewed, expired or     *)
(* moved to another device, the kernel has no address, rule or route but    *)
(* those of enabled entries, as they stand now and on the current device.   *)
(* (Not so the subnet route of an address that was renewed unchanged, nor   *)
(* the rule of somebody else's address after a change from one table to     *)
(* another; see README.)                                                    *)
NothingLeftBehind ==
  /\ TypeOK
  /\ ip.kaddrs \subseteq {<<a, ip.dev>> : a \in {b \in Own : ip.addrs[b].enabled}}
  /\ ip.krules \subseteq UNION {AddrRule(a, ip.addrs[a].policy) :
                                 a \in {b \in DOMAIN ip.addrs : ip.addrs[b].enabled}}
  /\ ip.ksubnets \subseteq {SubnetRoute(a, ip.addrs[a].subnet) : a \in Own}
  /\ ip.kroutes \subseteq {KernelRoute(ip, r) : r \in RouteTargets(ip)}
  /\ ip.khosts \subseteq {[metric |-> h.metric, gw |-> h.gw, dev |-> ip.dev] : h \in ip.hosts}
  /\ ip.kpolicy \subseteq {ip.dev}

(* The same functions: what counts as installed is.  An entry that is       *)
(* enabled and has not failed is in the kernel, but for addresses that were *)
(* refused as the interface came up, or renewed while they were disabled.   *)
NothingMissing ==
  /\ \A a \in Own : LET e == ip.addrs[a] IN
       e.enabled /\ ~e.missed => /\ ~e.failed => <<a, ip.dev>> \in ip.kaddrs
                                /\ AddrRule(a, e.policy) \subseteq ip.krules
  /\ \A r \in RouteTargets(ip) : ~r.failed => KernelRoute(ip, r) \in ip.kroutes

(* enable_route and interface_set_route_info: routes are in the kernel just *)
(* while their settings are enabled, a default route of the protocol only   *)
(* if it may have one, and with the metric and the table the interface has  *)
(* now, also after these were changed by a reload that kept it up.          *)
RoutesFollowSettings ==
  ip.state # "TEARDOWN" =>
  \A which \in {"proto", "config"} : \A r \in ip[which] :
    /\ r.enabled = EnableRoute(ip, which, r)
    /\ r.enabled => r.metric = ip.info.metric /\ r.table = ip.info.table

=============================================================================
