---------------------------- MODULE DeviceStack ----------------------------
(***************************************************************************)
(* Devices that stand on others: VLANs (vlan.c), 802.1q/ad and MAC-VLAN    *)
(* devices (vlandev.c, macvlan.c), virtual Ethernet (veth.c) and the       *)
(* aliases of interfaces (alias.c), over the device core (device.c).       *)
(* Presence is passed up the stack and claims are passed down it, inside   *)
(* the same calls, while hardware comes and goes, settings and parents are *)
(* changed, and interfaces take their time to let go.                      *)
(***************************************************************************)
EXTENDS Integers, FiniteSets, FiniteSetsExt

CONSTANTS
  Hardware,   \* simple devices
  Vlans,      \* name.id devices, made as they are asked for
  Stacked,    \* devices with a section of their own and a parent: 8021q, macvlan
  Veths,      \* virtual devices without a parent
  Aliases,    \* @interface devices
  Ifaces,     \* interfaces, of which
  Slow,       \*   these tear down in a script, and release their device later
  On,         \* the main device of each interface
  Serves,     \* the interface an alias stands for
  Lower,      \* the device below a VLAN, and that below a stacked one at first
  Parents,    \* devices a stacked one may be put on
  Configured, \* devices without a parent of their choice whose sections change
  Values      \* values of a device setting, an MTU say

None == "none"
Own     == 0   \* the value a device has of itself
NotSet  == -1
Devs == Hardware \cup Vlans \cup Stacked \cup Veths \cup Aliases
Links == Vlans \cup Stacked \cup Veths
Users == Vlans \cup Stacked \cup Aliases \cup Ifaces

ASSUME StackAssumption ==
  /\ Slow \subseteq Ifaces /\ On \in [Ifaces -> Devs]
  /\ Serves \in [Aliases -> Ifaces] /\ Lower \in [Vlans \cup Stacked -> Devs]
  /\ Configured \subseteq Hardware \cup Vlans \cup Veths
  /\ Parents \subseteq Hardware \cup Veths /\ Values \subseteq Nat \ {Own} /\ None \notin Devs

VARIABLE st

(* A device: `sys` is sys_present, `conf` its settings, `orig` the values   *)
(* system_if_up put aside.  A user: a device on another, or an interface.   *)
(* `next` and `update` are those of an alias.  `hw`, `links`, `up`, `val`:  *)
(* what the kernel has, and `phase` where an interface is.  `refuse`: links *)
(* the kernel does not make in the step.  `lost`, a ghost: devices that     *)
(* stopped working while they were active.                                  *)
DevState  == [sys : BOOLEAN, disabled : BOOLEAN, active : Nat,
              conf : Values \cup {Own}, orig : Values \cup {Own, NotSet}]
UserState == [dev : Devs \cup {None}, claimed : BOOLEAN]

Init ==
  st = [dev |-> [d \in Devs |-> [sys |-> d \notin Aliases, disabled |-> FALSE, active |-> 0,
                                 conf |-> Own, orig |-> NotSet]],
        user |-> [u \in Users |->
                    [dev |-> IF u \in Ifaces THEN On[u]
                             ELSE IF u \in Aliases THEN None ELSE Lower[u],
                     claimed |-> FALSE]],
        next |-> [a \in Aliases |-> None], update |-> [a \in Aliases |-> FALSE],
        phase |-> [i \in Ifaces |-> "idle"],
        hw |-> Hardware, links |-> {}, up |-> {}, val |-> [d \in Devs |-> Own],
        refuse |-> {}, lost |-> {}]

Present(s, d) == s.dev[d].sys /\ ~s.dev[d].disabled

(***************************************************************************)
(* Claims: device_claim, device_release and the set_state of each type     *)
(***************************************************************************)

(* The functions come back to one another by way of the types and the       *)
(* callbacks of the users: one recursive operator, defined below, calls     *)
(* them by their names.                                                     *)
RECURSIVE Call(_, _, _, _)
Claim(s, u)             == Call("device_claim", s, u, None)
Release(s, u)           == Call("device_release", s, u, None)
SetUp(s, d)             == Call("set_state", s, d, TRUE)
SetDown(s, d)           == Call("set_state", s, d, FALSE)
SetSys(s, d, here)      == Call("device_set_present", s, d, here)
Broadcast(s, d, here)   == Call("device_broadcast_event", s, d, here)
AddUser(s, u, d)        == Call("device_add_user", s, u, d)
AliasSetDevice(s, a, d) == Call("alias_set_device", s, a, d)

(* set_device_state: the values found are put aside where others are set.   *)
BaseUp(s, d) ==
  IF d \notin s.hw \cup s.links THEN [ok |-> FALSE, s |-> s]
  ELSE [ok |-> TRUE,
        s |-> [s EXCEPT !.up = @ \cup {d}, !.lost = @ \ {d},
                        !.dev[d].orig = IF s.dev[d].conf = Own THEN NotSet ELSE s.val[d],
                        !.val[d] = IF s.dev[d].conf = Own THEN @ ELSE s.dev[d].conf]]
BaseDown(s, d) ==
  [s EXCEPT !.up = @ \ {d},
            !.val[d] = IF s.dev[d].orig = NotSet \/ d \notin s.hw \cup s.links
                         THEN @ ELSE s.dev[d].orig]

(* The kernel takes devices away, and with them the links that stand on     *)
(* them.                                                                    *)
Over(s, ds) ==
  FoldSet(LAMBDA n, xs : xs \cup {x \in Links \cap Users : s.user[x].dev \in xs}, ds, Links)
Vanish(s, d) ==
  LET gone == Over(s, {d})
  IN  [s EXCEPT !.hw = @ \ gone, !.links = @ \ gone, !.up = @ \ gone,
                !.val = [x \in Devs |-> IF x \in gone THEN Own ELSE @[x]],
                !.lost = @ \cup {x \in gone : s.dev[x].active > 0}]

AddLink(s, d) == IF d \in s.refuse THEN s ELSE [s EXCEPT !.links = @ \cup {d}]
DelLink(s, d) == Vanish(s, d)

DeviceClaim(s, u) ==
  LET d == s.user[u].dev
      m == [s EXCEPT !.user[u].claimed = TRUE, !.dev[d].active = @ + 1]
      r == SetUp(m, d)
  IN  IF s.user[u].claimed \/ d = None THEN s
      ELSE IF s.dev[d].active > 0 THEN m
      ELSE IF r.ok THEN r.s
      ELSE [r.s EXCEPT !.dev[d].active = 0, !.user[u].claimed = FALSE]

DeviceRelease(s, u) ==
  LET d == s.user[u].dev
      m == [s EXCEPT !.user[u].claimed = FALSE, !.dev[d].active = @ - 1]
  IN  IF ~s.user[u].claimed THEN s
      ELSE IF m.dev[d].active = 0 THEN SetDown(m, d) ELSE m

(* device_remove_user; device_add_user, of a device on another.             *)
RemoveUser(s, u) == [Release(s, u) EXCEPT !.user[u].dev = None]
DeviceAddUser(s, u, d) ==
  LET m == [RemoveUser(s, u) EXCEPT !.user[u].dev = d]
  IN  IF s.user[u].dev = d THEN s ELSE IF Present(m, d) THEN SetSys(m, u, TRUE) ELSE m

(* Fault: an alias that is given its device back still means to leave it.   *)
AliasDeviceSetLeaving(s, a, d) ==
  LET m == [SetSys(s, a, FALSE) EXCEPT !.next[a] = None]
      moved == RemoveUser(m, a)
  IN  IF d = s.user[a].dev THEN s
      ELSE IF m.dev[a].active > 0 THEN [m EXCEPT !.next[a] = d, !.update[a] = TRUE]
      ELSE IF d = None THEN moved ELSE AddUser(moved, a, d)

(* alias_set_device: an alias in use is moved when it is no longer.         *)
AliasDeviceSet(s, a, d) ==
  LET m == [SetSys(s, a, FALSE) EXCEPT !.next[a] = None]
      moved == RemoveUser([m EXCEPT !.update[a] = FALSE], a)
      same == [s EXCEPT !.next[a] = None, !.update[a] = FALSE]
  IN  IF d = s.user[a].dev
        THEN IF s.update[a] THEN IF d = None THEN same ELSE SetSys(same, a, TRUE) ELSE s
      ELSE IF m.dev[a].active > 0 THEN [m EXCEPT !.next[a] = d, !.update[a] = TRUE]
      ELSE IF d = None THEN moved ELSE AddUser(moved, a, d)

(* vlan_set_device_state: whether the link could be made is not looked at.  *)
VlanUp(s, d) ==
  LET c == Claim(s, d)  b == BaseUp(AddLink(c, d), d)
  IN  IF ~c.user[d].claimed THEN [ok |-> FALSE, s |-> c]
      ELSE IF b.ok THEN b ELSE [ok |-> FALSE, s |-> Release(b.s, d)]

(* Fault: a claim on the parent is kept when the link cannot be made.       *)
StackedUpHeld(s, d) ==
  LET c == Claim(s, d)
  IN  IF ~c.user[d].claimed \/ d \in s.refuse THEN [ok |-> FALSE, s |-> c]
      ELSE BaseUp(AddLink(c, d), d)

(* vlandev_set_up, macvlan_set_up                                           *)
StackedUp(s, d) ==
  LET c == Claim(s, d)
  IN  IF ~c.user[d].claimed THEN [ok |-> FALSE, s |-> c]
      ELSE IF d \in s.refuse THEN [ok |-> FALSE, s |-> Release(c, d)]
      ELSE BaseUp(AddLink(c, d), d)

(* veth_set_up                                                              *)
VethUp(s, d) ==
  IF d \in s.refuse THEN [ok |-> FALSE, s |-> s] ELSE BaseUp(AddLink(s, d), d)

(* alias_device_set_state                                                   *)
AliasUp(s, a) == LET c == Claim(s, a) IN [ok |-> c.user[a].claimed, s |-> c]
AliasDown(s, a) ==
  LET r == Release(s, a)
  IN  IF s.user[a].dev # None /\ r.update[a] THEN AliasSetDevice(r, a, r.next[a]) ELSE r

Up(s, d) ==
  CASE d \in Hardware -> BaseUp(s, d)
    [] d \in Vlans    -> VlanUp(s, d)
    [] d \in Stacked  -> StackedUp(s, d)
    [] d \in Veths    -> VethUp(s, d)
    [] d \in Aliases  -> AliasUp(s, d)

Down(s, d) ==
  CASE d \in Hardware -> BaseDown(s, d)
    [] d \in Veths    -> DelLink(BaseDown(s, d), d)
    [] d \in Vlans \cup Stacked -> Release(DelLink(BaseDown(s, d), d), d)
    [] d \in Aliases  -> AliasDown(s, d)

(***************************************************************************)
(* Presence: __device_set_present and the callbacks of the users           *)
(***************************************************************************)

NotifyAlias(s, i, d) ==
  FoldSet(LAMBDA a, t : AliasSetDevice(t, a, d), s, {a \in Aliases : Serves[a] = i})

(* An interface that is UP goes down; its IFEV_DOWN comes first.            *)
Leave(s, i) ==
  LET m == NotifyAlias(s, i, None)
  IN  IF s.phase[i] # "up" THEN s
      ELSE IF i \in Slow THEN [m EXCEPT !.phase[i] = "leaving"]
      ELSE [Release(m, i) EXCEPT !.phase[i] = "idle"]

(* The callbacks for DEV_EVENT_ADD and DEV_EVENT_REMOVE.                    *)
React(s, u, here) ==
  IF u \notin Ifaces THEN SetSys(s, u, here) ELSE IF here THEN s ELSE Leave(s, u)

(* Fault: only who holds the device is told.                                *)
BroadcastToHolders(s, d, here) ==
  FoldSet(LAMBDA u, v : IF v.user[u].dev = d /\ v.user[u].claimed THEN React(v, u, here) ELSE v, s, Users)

(* Aliases first; a user may have gone by an earlier callback.              *)
BroadcastEvent(s, d, here) ==
  LET Tell(t, us) == FoldSet(LAMBDA u, v : IF v.user[u].dev = d THEN React(v, u, here) ELSE v, t, us)
  IN  Tell(Tell(s, Aliases), Users \ Aliases)

Refresh(s, m, d) ==
  IF Present(s, d) = Present(m, d) THEN m ELSE Broadcast(m, d, Present(m, d))
SetDisabled(s, d, disabled) == Refresh(s, [s EXCEPT !.dev[d].disabled = disabled], d)

Call(f, s, x, y) ==
  CASE f = "device_claim"           -> DeviceClaim(s, x)
    [] f = "device_release"         -> DeviceRelease(s, x)
    [] f = "set_state"              -> IF y THEN Up(s, x) ELSE Down(s, x)
    [] f = "device_set_present"     -> Refresh(s, [s EXCEPT !.dev[x].sys = y], x)
    [] f = "device_broadcast_event" -> BroadcastEvent(s, x, y)
    [] f = "device_add_user"        -> DeviceAddUser(s, x, y)
    [] f = "alias_set_device"       -> AliasDeviceSet(s, x, y)

(***************************************************************************)
(* Changes of configuration                                                *)
(***************************************************************************)

(* Fault: what has changed is set on the running device.                    *)
RestartInPlace(s, d) ==
  IF d \in s.up THEN [s EXCEPT !.val[d] = IF s.dev[d].conf = Own THEN @ ELSE s.dev[d].conf] ELSE s

(* device_apply_config: DEV_CONFIG_RESTART.                                 *)
Restart(s, d) ==
  LET gone == SetSys(s, d, FALSE)
      r == SetUp(SetDown(gone, d), d)
  IN  IF ~Present(s, d) THEN s
      ELSE IF gone.dev[d].active = 0 THEN SetSys(gone, d, TRUE)
      ELSE IF r.ok THEN SetSys(r.s, d, TRUE) ELSE r.s

InitSettings(s, d, conf, disabled) ==
  SetDisabled([s EXCEPT !.dev[d].conf = conf], d, disabled)

Do(s) == st' = [s EXCEPT !.refuse = {}]
Refusing == {[st EXCEPT !.refuse = x] : x \in {{}} \cup {{l} : l \in Links}}

(* device_set_config of a type without a reload of its own; veth_reload.    *)
Reconfigure(d) ==
  \E s \in Refusing, conf \in Values \cup {Own}, disabled \in BOOLEAN :
    /\ conf # st.dev[d].conf \/ disabled # st.dev[d].disabled
    /\ LET m == InitSettings(s, d, conf, disabled)
       IN  Do(Restart(IF d \in Veths THEN SetSys(m, d, TRUE) ELSE m, d))

(* vlandev_reload, macvlan_reload: the parent is changed before the device  *)
(* is restarted.  The new one is present (see README).                      *)
ReloadStacked(d) ==
  \E s \in Refusing, p \in Parents, conf \in Values \cup {Own} :
    /\ p # st.user[d].dev \/ conf # st.dev[d].conf
    /\ p # st.user[d].dev => Present(st, p)
    /\ Do(Restart(AddUser(InitSettings(s, d, conf, FALSE), d, p), d))

(***************************************************************************)
(* Interfaces, and hardware                                                *)
(***************************************************************************)

(* An interface that is available is set up, and on its device UP.          *)
IfaceUp(i) ==
  /\ st.phase[i] = "idle" /\ Present(st, On[i])
  /\ \E s \in Refusing :
       LET c == Claim(s, i)
           d == c.user[i].dev
           l3 == IF d \in Aliases THEN c.user[d].dev ELSE d
       IN  IF c.user[i].claimed THEN Do(NotifyAlias([c EXCEPT !.phase[i] = "up"], i, l3))
                                ELSE Do(c)

IfaceDown(i) == st.phase[i] = "up" /\ Do(Leave(st, i))

(* The script of a slow one has ended: IFPEV_DOWN.                          *)
IfaceReleases(i) ==
  st.phase[i] = "leaving" /\ Do([Release(st, i) EXCEPT !.phase[i] = "idle"])

(* The device goes, and the kernel takes the links on it away.  netifd      *)
(* hears of it afterwards.                                                  *)
Unplug(d) == d \in st.hw /\ st.dev[d].sys /\ st' = Vanish(st, d)
Plug(d) == d \notin st.hw /\ ~st.dev[d].sys /\ st' = [st EXCEPT !.hw = @ \cup {d}]
Hear(d) == st.dev[d].sys # (d \in st.hw) /\ Do(SetSys(st, d, d \in st.hw))

Next ==
  \/ \E d \in Hardware : Unplug(d) \/ Plug(d) \/ Hear(d)
  \/ \E d \in Configured : Reconfigure(d)
  \/ \E d \in Stacked : ReloadStacked(d)
  \/ \E i \in Ifaces : IfaceUp(i) \/ IfaceDown(i) \/ IfaceReleases(i)

Spec == Init /\ [][Next]_st

(***************************************************************************)
(* Properties                                                              *)
(***************************************************************************)

(* The types of the devices and their users.                                *)
TypeOK == st.dev \in [Devs -> DevState] /\ st.user \in [Users -> UserState]

ActiveLow(d) == d \in Vlans \cup Stacked \cup Aliases => st.user[d].claimed

(* device_claim and device_release through a stack: a device is active as   *)
(* often as it is claimed; one that is not has no link in the kernel, holds *)
(* no device below it and has the values it came with, whatever failed or   *)
(* was moved, lost or reconfigured on the way.                              *)
NothingHeld ==
  TypeOK /\ \A d \in Devs :
    /\ st.dev[d].active = Cardinality({u \in Users : st.user[u].dev = d /\ st.user[u].claimed})
    /\ st.dev[d].active = 0 =>
         /\ d \notin st.links \cup st.up
         /\ d \in Users => ~st.user[d].claimed
         /\ st.val[d] = Own

RECURSIVE Stands(_)
Stands(d) ==
  /\ d \in Aliases \/ d \in st.up
  /\ d \in Users => st.user[d].claimed /\ Stands(st.user[d].dev)

RECURSIVE Sound(_)
Sound(d) ==
  /\ d \notin st.lost /\ (d \in Hardware => d \in st.hw)
  /\ d \in Users /\ st.user[d].dev # None => Sound(st.user[d].dev)

(* The same, seen from an interface: while it is UP, its device is there    *)
(* and up in the kernel, with the settings it is configured with, and so is *)
(* every device below it.  (Not so a device that stopped working while      *)
(* another user held it: the next claim of it succeeds at once.)            *)
UpStands ==
  \A i \in Ifaces : st.phase[i] = "up" /\ Sound(On[i]) =>
    /\ Stands(On[i])
    /\ On[i] \notin Aliases /\ Present(st, On[i]) =>
         st.val[On[i]] = st.dev[On[i]].conf

(* vlan_dev_cb, vlandev_base_cb, macvlan_base_cb: what stands on a device   *)
(* is present no longer than that, and a VLAN exactly as long.              *)
PresenceFollows ==
  \A d \in Vlans \cup Stacked :
    /\ st.dev[d].sys => Present(st, st.user[d].dev)
    /\ d \in Vlans /\ d \notin st.lost /\ Present(st, st.user[d].dev) => st.dev[d].sys

Wanted(a) ==
  LET i == Serves[a] IN IF st.phase[i] = "up" THEN On[i] ELSE None

(* alias_set_device: an alias stands for the device its interface is UP on  *)
(* and for none when it is not, except while somebody is using it; then it  *)
(* remembers what it is to be, and its release will see to it.              *)
AliasFollows ==
  \A a \in Aliases :
    /\ ~st.update[a] => st.user[a].dev = Wanted(a)
    /\ st.update[a]  => st.next[a] = Wanted(a) /\ st.dev[a].active > 0
=============================================================================
