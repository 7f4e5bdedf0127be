# A TLA+ model of netifd

netifd is OpenWrt's network configuration daemon: a single-threaded C program
around the uloop event loop. It turns configuration (UCI) and requests (ubus)
into devices, interfaces and the scripts that run protocols such as DHCP or
PPP. This directory holds specifications of the parts whose behaviour is hard
to test, configurations that let TLC check them on small instances, and proofs
that TLAPS checks for every instance.

    tlc -config InterfaceShell.cfg MCInterfaceShell.tla
    tlapm HotplugQueueProofs.tla

## 1. Inventory

Everything runs in callbacks of uloop: a ubus method, a netlink message, the
exit of a child, a timer. Each runs to completion, so what interleaves are
whole callbacks; but within one of them components call each other back
(claiming a device brings it up, which tells the interface, which may start
its protocol), and children and timers outlive the callback that made them.

| Component | State | Operations | Interacts with |
|---|---|---|---|
| Interface (`interface.c`) | `state`, `config_state`, `available`, `enabled`, `link_state`, `autostart`, `main_dev`, `l3_dev` | up, down, configuration change, set-up and removal; the protocol's and the device's events | device users, its protocol handler, hotplug queue, aliases, host dependencies |
| Shell protocol (`proto-shell.c`) | `sm`, the script and task processes, teardown and check-up timers, `renew_pending` | SETUP, TEARDOWN and RENEW commands; exits, timeouts, `notify_proto` | interface, children |
| Devices (`device.c`) | `present`, `active`, `link_active`, the list of users | claim, release, presence, link; broadcast of events | every device user |
| Bridges (`bridge.c`) | members, `n_present`, `n_failed`, primary member, retry timer | enable and disable members, hotplug add and remove | its members' events, its own users |
| VLAN, MAC-VLAN, veth, alias | the parent device or interface | claim the parent when claimed | devices, interface events |
| Hotplug queue (`interface-event.c`) | `pending` list, `current`, one task | queue, dequeue, run, complete | interfaces, the hotplug script |
| Wireless (`wireless.c`) | `state`, `config_state`, `cancel`, `retry`, script process and timers | set-up, tear-down, notify, process supervision | scripts, devices of its interfaces |
| Protocol core, static (`proto.c`, `proto-static.c`) | protocol handlers | attach, set-up, parse addresses | interface |
| IP settings (`interface-ip.c`) | addresses, routes, prefixes and their assignments | update, enable, assign sub-prefixes | interface, kernel |
| Configuration (`config.c`, `utils.c`) | versioned lists of interfaces, devices, wireless | reload: update, flush | all of the above |
| ubus, main, system | processes, netlink sockets | requests, child processes, kernel | all of the above |

What makes each of them correct, and what is hard about it:

* **Interface and protocol handler.** The four interface states and the four
  handler states move separately and have to agree when they meet: whoever
  waits for the other's end must get it. Users are told UP and DOWN in turn. A
  change of configuration waits for the teardown and is then carried out.
  Children may hang, report late, or report about an attempt already given up.
* **Devices and bridges.** A device is up exactly while somebody claims it; a
  claim that fails must leave nothing; the events re-enter the users while the
  list is being walked.
* **Hotplug queue.** One script at a time, events overwrite each other while
  it runs, interfaces are freed while queued. The scripts must end up knowing
  which interfaces are UP; a dropped `ifdown` must mislead them no longer than
  it has to.
* **Wireless.** Like the shell handler, with retries, a cancelled set-up that
  may succeed after all, and processes to be killed.
* **IP.** Sub-prefixes are aligned, inside the delegated prefix and disjoint.
* **Configuration.** What is not in the new configuration is removed, what is
  unchanged is left alone, also while something is still being torn down.

`PROJECT.json` lists the components, and every hazard at its line with the
properties that cover it.

## 2. Plan

In the order of importance, with what each module abstracts and promises:

| Module | What | Section | Checked | Proved |
|---|---|---|---|---|
| `InterfaceShell`, abstractly `InterfaceLifecycle` | an interface, its shell handler and device; the life it leads for its users | 3 | yes | type, all its invariants, the safety part of the refinement |
| `HotplugQueue` | the queue of events for the hotplug scripts | 4 | yes | all its invariants |
| `WirelessDevice` | `wireless.c` with its script, timers, retries and processes | 5 | yes | type and all its invariants |
| `BridgeDevice` | a bridge between its members and its users | 6 | yes | all its invariants |
| `DeviceStack` | VLAN, MAC-VLAN, veth and alias devices on each other | 7 | yes | no (RECURSIVE) |
| `ConfigReload` | reloads of devices and interfaces | 8 | yes | no (RECURSIVE) |
| `PrefixAssign`, `PrefixDelegation` | sub-prefixes: one assignment, then prefixes that come and go | 9 | yes | one assignment; type and all its invariants |
| `IpSettings` | addresses, routes and host routes of an interface | 10 | yes | type and all its invariants |

Each component `X` has an `MCX` module with the values of its constants and one
or two `.cfg` files; theorems are in modules of their own, `XProofs`.

Left of the model, in this order: host dependencies between
interfaces (`interface_add_host_route_dependency` and its users), aliases and
parents of interfaces, DNS servers, external devices.

## 3. The interface: `InterfaceShell`

**State.** The one variable `st` is a record: `struct interface` (`state`,
`config`, `available`, `autostart`, `enabled`, `link`, `force`, `main`, `l3`,
the protocol in the configuration `handler` and the one attached `proto`,
`cfgauto` for the `auto` option of the configuration last applied), its
`struct proto_shell_state` (`sm`, `script`, `task`, `renew`, the timers), its
device (`present`, `carrier`, and `claimed`, the device users that hold a
claim, of which `device->active` is the count), and one ghost, `told`, the
last of IFEV_UP and IFEV_DOWN. A record in one variable lets a callback be
written as the C code is: as calls, each an operator from a state to a state
(`CheckState`, `SetAvailable`, `MarkDown`, `ShellTeardown` ...), nested where
the code re-enters itself through device events. What a call finds around it
(does fork succeed, can the device be brought up, is the configuration being
loaded) is the record `e`, chosen once per callback.

**Actions.** `Configuration`: `Create` and `ReloadConfig` (with
`interface_start_pending` at their end, or as ubus `add_dynamic` does it),
`RemoveInterface`, `IfUp`, `IfDown`. `DeviceEvents`: presence and carrier,
another user's claim and release, a bridge's change of topology, the layer 3
device's loss of link. `HandlerEvents`: the exit of script and task, the two
timers, and each `notify_proto` action. A protocol is the set of its
`PROTO_FLAG_*` bits; a script may report anything at any time, as its process
is not asked who it is.

**Abstractions.** Data (addresses, errors, environment) is left out. A killed
process is gone when `kill` returns: netifd removes it from uloop, so its exit
is not heard. A netdev that is claimed keeps its `present` flag apart from its
claims, as in `device.c`.

**Runs.**

* `interface`: three protocols (DHCP: renewal; PPP: teardown on loss of the
  layer 3 link; a tunnel: no device, available by itself, no task) which a
  reload changes into each other, `force_link` on and off, no failures;
  396,000 states. All invariants, and `LossEndsUp`: an interface whose device
  goes away is not UP after that step, whatever the callbacks in between did.
* `faults`: fork and claims fail at will, interfaces from the configuration
  and dynamic ones, a check-up timer; one protocol (PPP). Liveness, and the
  refinement of `InterfaceLifecycle` with its fairness.
* `checkup` (violated): the comment promises that a set-up not UP after
  `checkup_interval` is repeated; a timer that expires while `autostart` is off
  is not set again, and `ifup` finds the interface in SETUP and returns.

DESIGN says that a forced teardown does not wait for the script.
`proto_shell_handler` does not look at `force`, and neither does a property.

**Bounds.** There is one interface with one device, one other user and one
child of each kind, as in the code; the state is finite without counters. The
flags appear in the combinations real handlers register; the proofs are for
all 32. `interface` leaves failures out and `faults` the other protocols
because the product is too large for one run; the proofs have both.

**Fairness.** Only `TeardownTimeout` is fair: uloop runs every timer that has
expired. No script is assumed to end or to report. It is written out as
`[]<>~tdtimer \/ []<><<...>>` because the timer is enabled exactly while
`tdtimer` holds and TLC is slow to evaluate ENABLED of a whole callback. Under
it `TeardownEnds`, so that `PendingChangeHappens`; `InterfaceLifecycle` has the
corresponding `WF(Finish)`.

## 4. The hotplug queue: `HotplugQueue`

The variables are those of `interface-event.c`: `current`, `current_ev`,
`task.pending`, the list `pending` and each interface's `hotplug_ev`.
`QueueEvent`, `DequeueEvent`, `CallHotplug` and `TaskComplete` are its
functions. `run_cmd` can fail; `call_hotplug` then completes the task and calls
itself, which the model writes as the choice of how many of the waiting events
fail in a row. The interfaces are reduced to what their events allow: UP and
DOWN in turn (`UsersKnow` above proves that of `interface.c`), updates only while UP, freed
only when DOWN. The ghosts say what the scripts know. They know interfaces by name,
so nothing but a script changes `reported`, what they were last told of a name:
not the removal of the interface, and not its creation under the same name.
`news` is what of the existing interfaces they have not been told, `lost` whose
script could not be started, `dropped` whose interface was freed with its
`ifdown` waiting. The events are taken apart only as far as the queue does: IFEV_UP,
IFEV_DOWN, IFEV_UPDATE; IFEV_UP_FAILED is not queued, IFEV_LINK_UP ignored.

* `hotplug`: three interfaces (a script running for one, two waiting, the
  least at which waiting interfaces have an order); fork may fail; 363,300
  states. That events overwrite each other is hard to see through; the
  properties say that it is harmless while the interface exists: nothing is
  forgotten, what waits is the present state, and when nothing waits the scripts
  know it. Freeing an interface is not harmless, see below.
  `ScriptsLearnState` says how far the damage goes: an interface that is UP, and
  has nothing waiting, is always known to be; one that is not, or is gone, may be
  taken for UP only if its `ifdown` was dropped, and not after the next script of
  its name; those whose fork failed are excepted. `Reported`: each that waits is
  served or freed, though the others change all the time.

**Fairness.** `WF_vars(TaskComplete)`: hotplug scripts end (netifd has no
timeout for them) and uloop reports it.

**What IFEV_FREE loses.** `interface_dequeue_event` takes an interface that is
freed out of the queue (lines 184-185), with an `ifdown` that waits because a
script runs, its own `ifup` or one of another interface. No script is then told
that it went down: the scripts take it for UP after it is gone, and still do
when an interface is created under its name, until that has come UP. The
model follows the code, and `ScriptsLearnState` excepts these names (`dropped`);
without the exception TLC finds the case in five states. Whether a script ought
to be run for an interface that no longer exists is not said anywhere.

The comment above `interface_queue_event` (line 114) has an event equal to the
one being handled empty the queue. The code does that in neither of the two
cases it distinguishes; the model follows the code.

## 5. A wireless device: `WirelessDevice`

**State.** The record `wdev` is `struct wireless_device`: `state`, `config`
(`config_state`), `autostart`, `disabled`, `retry`, `failed`
(`retry_setup_failed`), `cancel`, `timer` (`timeout`), `script` (the task and
what it runs), `vifs` (the configured interfaces), `named` (those with an
`ifname`), the registered processes `procs`, `required` and `dead` among them,
`check` (`script_check`), `pipe` (the descriptor the set-up script and its
processes hold open) and `killrequest` (`kill_request`). `linked` holds the
interfaces whose networks were told of them by `wireless_interface_handle_link`.

**Actions.** One for each entry: the configuration (`Create`, `Reload`,
`Remove`, each with `wireless_start_pending` at its end; `WirelessUp`,
`WirelessDown`), the five notifications of `wireless_device_notify`, and the
callbacks of uloop (`ScriptExits`, `SetupTimeout`, `PipeCloses`,
`CheckScriptTasks`; `ProcessDies` is the system's). The operators between
them bear the names of the C functions without their prefix.

**Abstractions.** Of the configuration, which is only ever compared and handed
to scripts, the model keeps whether it is still the one that was set up
(`same`) and whether `prev_config` is that one (`prev`). Two ghosts: `undoes`
records whether the last teardown was given what had been set up, `tries`
counts set-ups since somebody asked for one. `retry` goes down without limit in
C; below -1 nothing distinguishes its values. `SetupTimeout` marks a device
down a second time after the task's callback has done so and perhaps freed it;
a freed device stays gone. Processes are killed by `kill` at once as far as
netifd is concerned: it forgets them. Data that a script reports about an
interface is its name only. The `credentials` sections this fork's README
describes are not used by `wireless.c` and are not modelled.

**Runs.**

* `wireless`: one interface, two processes (one may be required, one not; one
  may be dead while the other lives), one retry, so that the last retry differs
  from the first; fork may fail. 322,722 states. A set-up or a teardown in
  progress is attended by a script or a timer, a device that is to be up is not
  left DOWN, networks are told of the end of every link, a teardown undoes
  what was set up however the configuration has changed since, and retries
  end.
* `wireless_live`: two processes; no interfaces and no retry (neither takes
  part in who waits for whom); fork may fail. 10,736 states. Requests put off
  happen, and the script that waits for its processes is answered.

**Fairness.** A script ends by itself, except a teardown script that waits for
the answer to its request to kill; processes asked to die do; uloop runs timers
that have expired and reports the end of the pipe. The first is an assumption
about scripts, which netifd makes too: there is no timer for a set-up that is
not cancelled, or for a teardown.

`wireless_device_run_handler` does not look at the result of
`netifd_start_process`. When fork fails nothing ends the state but, in SETUP, a
request to tear down; the ghost `lost` marks this, and `Attended` and
`RequestHappens` except it: of everything else that can go wrong they say that
it is attended.

## 6. A bridge: `BridgeDevice`

**State.** The record `br` is `struct bridge_state` with its members and its
`struct device`: `cfg` (the list of members), `hot` (their `hotplug`), `kept`
(version -1, so that a reload does not flush them), `present` and `n`
(`n_present`), `claimed` and `ports` (what the bridge claims, and what is its
port in the kernel), `failed` (`n_failed` is not 0: nothing else is asked of
it), `retry` (the timer), `kernel` (`active` of the bridge), `force`, `empty`
(`bridge_empty`), `sys` (`present` and `sys_present` of the device), `active`,
`users` (who holds a claim) and `told` (who was last sent ADD, not REMOVE).
`netdevs` is the members' own presence. The counts are kept beside the sets
they count, because the code keeps them by hand.

**Actions.** Devices of members appear and vanish (`bridge_member_cb`),
`HotplugPrepare`, `HotplugAdd` and `HotplugDel` (the hotplug operations),
`Reload` (`bridge_reload`, and the restart of `device_apply_config` if other
options than the list have changed), `RetryMembers`, `UserClaims` and
`UserReleases`. A user reacts to ADD by claiming the bridge (`e.eager`) and to
REMOVE by letting go at once (`e.prompt`), or later, or not: interfaces do any
of these, depending on `autostart` and on their scripts. It does so inside the
broadcast, in the order of the list of users, which is why `SetPresent` is a
fold over the users and not an assignment. The operators named `...WhileUp` are
the same functions where somebody holds a claim already, so that a further
claim only counts; this is what ends the recursion of the C code, and no
RECURSIVE operator is needed.

**Abstractions.** Settings, the MAC address and with it the primary member,
and events that keep no state (UP, DOWN, TOPO_CHANGE). Members are listed in
the order of their names. A member that is hot-added is present already, as
`interface_handle_link` sees to; if it was not, that is `MemberAppears` first.

**Runs.**

* `bridge`: two users and two members, so that both broadcasts and lists have
  a first and a second, and one of each can fail or leave while the other
  stays. Members fail to be claimed or enslaved at will. 22,000 states (and a
  thousand steps from each).

Two statements of DESIGN do not hold of a bridge, and no property repeats them.
A device is brought down when its reference count goes to zero (DESIGN:26), but
the retry timer outlives that and brings bridge and members up again.
DEV_EVENT_ADD tells of a device that is present (DESIGN:38), but a user may be
told so after a failed claim of another user has made the bridge absent.

`BridgeOutcomes = {TRUE}`: the bridge itself can be created and brought up. With
failures there `Announced` and `ActiveMembersArePorts` do not hold: a restart
that fails (`device.c:850`) leaves a bridge that is claimed, has members and is
down, and nothing tries again. No documentation promises otherwise.

## 7. Devices on devices: `DeviceStack`

**State.** `st.dev`: of each `struct device`, `sys_present`, `disabled`,
`active`, its settings `conf` and the values `orig` put aside when they were
applied. `st.user`: each `struct device_user`, be it a VLAN's, a MAC-VLAN's, an
alias's or an interface's, with its device and its claim. `next` and `update`
are an alias's. The kernel's part: hardware `hw`, links made `links`, links up
`up`, the values in force `val`. `phase` is where an interface is.

**Actions.** `Unplug`, `Plug` and `Hear` (netifd learns of it later, from
Netlink or a hotplug event), `Reconfigure` and `ReloadStacked` (a changed
section, a new parent), `IfaceUp`, `IfaceDown`, `IfaceReleases` (the end of a
slow interface's teardown script). A claim claims the device below it, whose
events travel up again through every user on the way, each of which may claim
or release: the C functions re-enter each other through the table of device
types. `Call` is that re-entry, a RECURSIVE operator whose first argument names
the function, so this module is for TLC only.

**Run** `stack`: an interface on a VLAN on a MAC-VLAN, one on the MAC-VLAN
itself, one on the alias of the first; the MAC-VLAN stands on hardware or on a
veth device; two of the interfaces are slow; the kernel may refuse any link.
40,944 states. That is the smallest stack in which a device is claimed from
above by two users and an alias moves while it is in use. One value suffices for
a setting, beside the device's own. `CHECK_DEADLOCK FALSE`: a stack at rest may
have nothing to do.

**Known behaviour the properties except.**

* A VLAN or MAC-VLAN device whose section moves it to a parent that is absent
  stays present (`vlandev.c`, about line 203). `ReloadStacked` does not move
  it there.
* A device that stops working while somebody holds it is claimed successfully
  by the next user, as its count is not 0. The ghost `lost` names such
  devices; `UpStands` and the second half of `PresenceFollows` except them.
* `vlan_set_device_state` releases the device below without deleting its own
  link when bringing it up fails (`vlan.c:59`).
* A user added to a device that is active but not present gets no UP event
  (`device.c:707`), then or later: the one hazard without a property, as
  DESIGN promises no such event. Interfaces of this module act on presence, not on UP.

## 8. Reloads: `ConfigReload`

**State.** `st.cfg` is the configuration loaded last: the sections of the
devices and of the interfaces. Of each device: type, settings, the version
(`current`), whether it is there without a section (`own`, for
`default_config`), the interface that gave it settings (`owner`), presence. Of
each interface: state, `config_state`, the section it runs (`sect`) and the
options it is running with (`runs`), device, claim, `auto`, version. `loading`
and `lock` are `config_init` and the device lock: they hold only within a
reload.

**Actions.** `Reload` is the whole of `config_init_all`: devices are reset and
the sections applied, interfaces updated, flushed and started, unused devices
freed. Every claim, release and event within it is nested where the code has it
(RECURSIVE `Call` again). Between reloads: `ScriptEnds` for a slow interface,
`IfUp`, `IfDown`, `RemoveInterface` and `AddDynamic` over ubus.

**Run** `config`: hardware eth0, a virtual veth0; interfaces wan (slow) and
lan, which may share a device, and the dynamic dyn on eth0. 40 configurations:
four combinations of device sections (none; veth0 with one or another kind of
settings; both) times five sections of wan (none, eth0, not automatic, veth0, eth0
with settings for the device) times two of lan. A reload goes from any to any
other. 51,497 states. `CHECK_DEADLOCK FALSE` as above.

**Ghosts.** `asked`: interfaces whose state users have asked over ubus to be
other than configured. `down`: those that went down in the last step.
`readded`, for this: an interface whose removal waits for its teardown and
whose section comes back unchanged is lost. `interface_change_config` finds
nothing changed and leaves `config_state` at IFC_REMOVE; the interface is freed
when the script ends, and comes back only with the next reload.
`ConfigFollowed` excepts it.

**Also met, and modelled as it is.**

* The settings in an interface's section stay on the device after the
  interface has been moved away or removed, if another one uses it
  (`interface.c:571`); `config_iface` is then left behind, and dangles if the
  interface was freed. `DevicesFollow` speaks of interfaces that are on the
  device.
* `device_reset_old` gives a device that lost its section fresh settings,
  without those of the interface on it until that is reloaded itself.
* A dynamic interface is freed when it goes down, also when a reload restarts
  or replaces its device, in spite of "Don't delete on reload"
  (`interface.c:872`), which keeps it from the flush only.

## 9. Prefixes: `PrefixAssign` and `PrefixDelegation`

`PrefixAssign` is `interface_prefix_assign`: first fit into the list of what
has been assigned, as operators on sequences and without state. Positions count
/64s, as the `int32_t` of the code does; they are defined for lengths from 34
(a shorter prefix, or an excluded part longer than /64, shifts out of 32 bits,
which the code does not prevent). `PrefixDelegation` adds `struct device_prefix` and
its assignments, the interfaces with what they wish for (`ip6assign`,
`ip6hint`, `ip6weight`, `ip6class`), and the kernel's addresses and rules.

**Actions.** `AddPrefix`, `RenewPrefix` (the assignments move to the new
prefix as they are), `RemovePrefix`, `SetUlaPrefix`; an interface's set-up, UP,
loss of its device, move to another, change of wishes, going and coming;
`RefreshAssignments` (at the end of a reload); `ChangeTable`. The kernel may
refuse an address. `Divide` is the two loops of
`interface_update_prefix_assignments`: those with a hint, in the order of their
names, then all that have nothing yet in the order of `prefix_assignment_cmp`,
each with a smaller block if need be. Both are folds that choose the next, so
that they can be reasoned about.

**Assumption.** What a delegator keeps (`Exclusions`) is a proper prefix, as
RFC 6603 has it. The code masks its address to the delegated prefix and does
not look at its host part.

**Runs.**

* `prefix_division`: one division of a prefix of 60 to 63 bits between three
  interfaces with any of 27 wishes each, with nothing, the first /64 or a /63
  in the middle excluded. Blocks do not overlap, are proper prefixes, follow
  hints, and nobody goes without one while there is room: the definition that
  the algorithm is checked against, over all of these inputs. Two interfaces
  compete; the third shows what is left when two have been served.
* `prefix`: one interface that moves between two devices and changes what it
  wants, two prefixes (one of them the site's own, which has no rules), tables,
  refusals; 251,160 states. The kernel has exactly the addresses of the
  assignments that count as enabled, on the present device, and none for an
  interface that is DOWN.

**Known behaviour.** A change of `delegate` does nothing until the next
refresh; a new interface gets no sub-prefix before one. Rules with a table stay
when the table changes; `AddressesAgree` excepts them.

## 10. Addresses and routes: `IpSettings`

**State.** The record `ip`: the interface's state and layer 3 device, metric,
table and `no_defaultroute` (`info`), `enabled` of its two `struct
interface_ip_settings` (`on`), its addresses, the routes of the protocol and of
the configuration, host routes, and with `k` in front of their names what the
kernel has. An entry's flags are its C fields.

**Actions.** `UpdateLink` is the whole of a protocol's report
(`interface_update_start`, the addresses and routes, `interface_update_complete`;
with `keep`, without `interface_ip_update_start`), together with becoming UP.
`ChangeDevice`, `Expire` (valid_until), `Setup`, `Teardown`, `MarkDown`,
`ChangeConfig` (reload of metric, table, default route), `InitRoutes` (the routes
of the configuration), `AddTargetRoute` (`interface_ip_add_target_route`).
IPv4 and IPv6 are handled alike and there is one family; addresses are two: one
in whose subnet the host of host routes is, and an external one, which someone
else puts on the device.

**Run** `ip`: two devices, a default route and a route of the configuration,
two gateways, three values of `info`, one refusal at a time; 195,476 states.
`NothingLeftBehind`: the kernel has nothing but what the settings say.
`NothingMissing`: what they say is installed is. `RoutesFollowSettings`: routes
are installed while enabled, with the metric and table of now.
`CHECK_DEADLOCK FALSE`: with the bound `MaxHosts` an interface may have nothing
left to do.

**Known behaviour the properties except, or the model follows.**

* `interface_ip_set_enabled` ignores failures of `system_add_address`; and an
  address renewed while disabled takes the flag `enabled` of the one it
  replaces. Such addresses count as installed and are not (ghost `missed`).
* An address renewed unchanged forgets the route to its subnet, which then
  stays until the kernel removes it with the address.
* `interface_ip_set_enabled` passes over external addresses. When `ip4table`
  changes from one table to another and such an address is then renewed, its
  entry gets the new table, while the kernel keeps the rule with the old one:
  the proof of `NothingLeftBehind` needed an assumption (`OneTable`, section
  11), and TLC, given two tables, showed why. The run has one table.
* A failed claim in `interface_set_l3_dev` leaves an interface UP with its
  settings disabled.
* A change from a table to none leaves `DEVROUTE_SRCTABLE` on routes; a rule on
  the loopback device is left when the table changes. `ChangeConfig` does not
  remove a table.
* `no_defaultroute`, taken back while a protocol reports with `keep`, leads to
  two default routes of one key; keys of routes are changed in place in the
  AVL tree.
* A protocol's late report to an interface that is DOWN leaves its addresses
  enabled. `UpdateLink` is for interfaces in SETUP or UP.
* Host routes keep the next hop they were made with.
* The comment at `interface-ip.c:248` promises the best match; line 207
  prefers the least specific route, and so does `FindRouteTarget`. A route
  with a table of its own, which is never a target, is not modelled.

## 11. What is proved

Eight modules hold theorems, for all values of the constants that the `ASSUME`
of the component allows.

**`InterfaceShellProofs`** (`ConstantsAssumption`: any set of protocols, any
flags, failures or not): `TypeCorrect`, `UsersAlwaysKnow`, `TimerGuards`,
`TeardownIsHeld`, `ChangesWait`, `UpIsIdle` and `GoneIsStopped`, each
`Spec => []...`. None of them is inductive alone. The invariant is
`Inv == Weak /\ Held /\ Idle /\ Waits` (`InvHolds`), in layers because the
operators a callback is made of do not all preserve the whole of it:

* `Weak` (type, `told`, timers, an interface that is not alive is DOWN) is
  what every operator preserves, also in the middle of a callback;
* `Held`: TEARDOWN has a handler tearing down. It fails within `TaskFinish`
  between `ShellIdle` and `ProtoDown`, and is restored at its end;
* `Idle`: UP means idle, and unavailable means neither UP nor in set-up;
* `Waits`: a pending change waits in TEARDOWN. It fails between the assignment
  in `SetConfigState` and the teardown or change that follows.

There is one lemma per operator, saying which layers it preserves and, where a
caller needs it, in which states it may leave the interface; the step lemma
has a case per action and cites these.

**`InterfaceLifeProofs`** goes on from `Inv` to what an interface owes to
others. `NextStep` says of a step of any action, from a state in `Inv` and
`Gone`, that it is a `Step`: one of the seven ways a life may go on (`Lived`),
with what a step preserves beside them; from that the theorems follow:

* `NothingOutlivesIt` (`FreedLeavesNothing`). `Gone` is stronger, and inductive
  with `Inv` (`FreedInv`): a freed interface also has no timer, no renewal, no
  device and no pending change;
* `LossIsAnswered` (`LossEndsUp`), whatever fork and the kernel answer;
* `UpIsHeld` (`UpHoldsL3`), if `ClaimOutcomes = {TRUE}`. A claim that fails
  leaves an interface UP that has bound a new layer 3 device without a claim;
* `SetupIsTended` (`SetupAttended`), if `ForkOutcomes = {TRUE}`: a script that
  could not be started reports nothing;
* `LeadsItsLife`: `Spec => Lifecycle!Spec`, every callback is a step of
  `InterfaceLifecycle` or none (`LivedLifecycle`). TLC checks its `WF(Finish)`.

**`BridgeDeviceProofs`** (`BridgeAssumption`: any users, members and
lists of them, any failures): `CountsAlwaysAgree` (`CountsAgree`) whatever fails,
and, if `BridgeOutcomes = {TRUE}` (section 6 says why), `BridgeIsAnnounced`
(`Announced`) and `MembersArePorts` (`ActiveMembersArePorts`). The invariant is
`IInv` (`AlwaysSound`), of two parts:

* `Sound`, whatever fails: `Counted`, `n` and `active` are the cardinalities of
  what they count; `Listed`, who is present is on the list and has a device;
  and `Told`: a bridge that ought to be announced and is not, because a restart
  failed, has been told to nobody, so that no user can come in while another's
  claim brings it up and fails. Without `Told`, the count of users that
  `device_claim` sets back to 0 could not be shown to be theirs;
* `Right`, if the bridge itself does not fail: it is announced, and nobody is
  `Behind`, present and not a port while it is claimed.

In the middle of a callback `Right` does not hold. What an operator gives is
`Keeps`: it leaves nobody behind whom it did not find behind. The loops over users
and members are folds; `LoopRuns` and `LoopReaches` show once, by the
well-founded order of the naturals, that a fold has a value and that what each
turn hands on holds at the end.

**`IpSettingsProofs`** (`IpAssumption`: any devices, gateways, settings, reports
and refusals; the addresses and targets that may ever be named are finitely
many): `AlwaysTyped`, `NothingIsMissing` (`NothingMissing`),
`RoutesAlwaysFollow` (`RoutesFollowSettings`), and, assuming `OneTable`,
`NothingIsLeftBehind` (`NothingLeftBehind`). `OneTable` is "no external
addresses, or all tables but the main one are the same"; section 10 says what
happens otherwise. None of the four is inductive. The invariant is `Inv`
(`AlwaysInv`), of three parts:

* `Sound`, which every operator keeps, in the middle of an action too: what the
  kernel has of addresses (`AddrInv`), routes (`RouteInv`), host routes and the
  rule for the rest is that of the entries; no list has two routes of one
  target, metric and table, so that none takes away the route of another; and
  the configuration has one route to a target, so that no two become the same
  when the metric changes (`Unique`). `Rules`, which needs `OneTable`, is the
  same for the rules of addresses;
* `Steady`, but in a teardown: routes are enabled as the settings say, entries
  that are enabled have the metric and the table of now, and the protocol has
  one route to a target while its list is enabled;
* in DOWN, in SETUP and without a device there is nothing of the protocol and
  nothing of the configuration is enabled (`Idle`). Hence a device may be taken
  away or replaced: the kernel has nothing that names it (`NothingThere`).

A report, a flush, a reload are loops over addresses and routes. Each is given a
name (`DropAddresses`, `AddRoutes`, ...), shown to be the fold of the model, and
keeps what its turns keep: `FoldRuns` and `FoldReaches` show once, for finite
sets, that a fold has a value and that what each turn hands on holds at the end.
As the turns are taken in an order nobody knows, what is proved holds for all.

**`HotplugQueueProofs`** (any set of interfaces): `TypeCorrect`, `Served`,
`NoneStale`, `NoneForgotten`, `EventsCurrent` and `ScriptsKnow`. The inductive
invariant `IInv` (`IInvHolds`) is `Good`, what a queue is between and within
callbacks (each interface queued once, alive, with the right event; what is
news is queued; the scripts know the others, and of names without an interface
that they are not UP, unless the fork failed or the `ifdown` was dropped),
`Serving` and `QueueIsServed`.
`Serving` says that `current` has been told `current_ev`, and since then nothing
was dropped under its name: an event equal to that one is not queued, and that nothing is then forgotten, or wrongly taken
for known, rests on what the running script was told. `CallKeeps` is about
`call_hotplug` with any number of failing forks, `QueueEventKeeps` about the
overwriting rules; there is a lemma per action above them.

**`WirelessDeviceProofs`** (`WirelessAssumption`: any sets of interfaces and
processes, any `SetupRetry`, fork failing or not): `TypeCorrect`,
`AlwaysAttended`, `NoneForgotten`, `EveryLinkEnds`, `WhatWasSetUpIsUndone` and
`RetriesEnd`. The inductive invariant is `IInv == Core /\ Woken` (`IInvHolds`):

* `Watched`, `Timed`: who will end a set-up or a teardown. A cancellation has
  its timer, and a timer that is set is one of a cancellation, or of a
  cancellation that became a TEARDOWN;
* `Linked`: networks are linked only by names, and only in UP and TEARDOWN;
* `Undoable`: what a teardown will be given. In SETUP and UP that is the
  configuration in use until a reload is pending, and `prev_config` from then
  on; a device that is DOWN has nothing pending;
* `Counted`: a set-up after the first is paid for by a retry, and a device that
  is down, torn down or cancelled has paid for its next;
* `Woken`: a device left DOWN is one that may not be started.

`Core` (the type and all but the last) is kept by every C function the
callbacks are made of, `Woken` only by those that end in a set-up; there is a
lemma for each function, then one per action. `MarkDownAgain` is about the timer that
expires in TEARDOWN, where the task's callback has marked the device down, and
perhaps started the next set-up, before it is marked down again.

**`PrefixAssignProofs`** (from `SizeAssumption`, that sizes are positive, and
that of two the larger is a multiple of the smaller, which TLC evaluates): of
one assignment into any list. `AssignKeepsDisjoint`: entries of a list that do
not overlap still do not. `AssignKeepsOthers`: no other entry is moved or lost,
nor the sentinel at the end, so that the new one ends within the prefix.
`AssignmentIsProper`: if some entry leaves room, the interface gets an aligned
block of its length, at its hint if it has one. The first entry that leaves
room exists because the positions of a list are well-founded.

**`PrefixDelegationProofs`** (`DelegationAssumption`: any interfaces, devices,
wishes, lengths, exclusions, tables and refusals, finitely many prefixes):
`TypeCorrect`, `NeverOverlap` (`SubprefixesDisjoint`), `NothingIsWasted`
(`NothingWasted`), `HintsAreHonoured` (`HintsHonoured`), `AddressesAlwaysAgree`
(`AddressesAgree`) and `AddressesAlwaysFollow` (`AddressesFollowState`). The
first half is about one division. `HintTurn` and `SpreadTurn` say what one turn
of either loop adds to the list, `LoopRuns` and `LoopReaches` carry it through
the loop, and `DivideIs` puts both together: the list is `WellMade`, every wish
is `Served` and every hint `Hinted`. That nothing is wasted needs all three of
sorted, aligned and disjoint: a free aligned block can only be missed between
two entries, where the turn would have found it (`RoomIsFound`), and blocks
that later turns take never free one. The second half is the invariant, `IInv`,
of the two things a state keeps:

* `Core`: each prefix is undivided or as `Answers` says (`PrefixInv`); only
  entries of interfaces with a device are marked enabled (`Held`); the kernel's
  addresses and rules are those of the entries that are (`AddrInv`, `RuleInv`).
  `WithdrawIs` and `AnnounceIs` keep it, also between the withdrawal of a
  prefix, its division and the announcement. That a withdrawal takes away no
  address of another entry rests on `Disjoint`: two entries of one prefix are
  in different places, so `AddressesAgree` is not to be had without the first
  half;
* `Stilled` and `Follows`, interface by interface: one that is DOWN or gone has
  its settings disabled and no entry enabled, one whose settings are enabled has
  all of its own, unless refused. `Follows` holds in SETUP too, or UP could not be
  shown to keep it.

An action of one interface leaves the marks of the others as they were
(`Alone`); one of a prefix may leave only that prefix unfinished in between
(`Partial`).

**Model-checked only.** `DeviceStack` and
`ConfigReload`, whose devices call each other to any depth (RECURSIVE operators,
which the prover does not admit); and everywhere liveness, the fairness part of
the refinement, and ENABLED.

## 12. What is not modelled

`PROJECT.json` gives the status of each component. By choice: the kernel
interface itself (its operations fail or succeed, its events come at any time),
parsing of UCI and ubus messages, tunnels and IP rules (tables handed to the
kernel), logging and status output, the values of settings, addresses and
routes, and the scripts, whose behaviour is left open. Open: DNS servers and
`resolv.conf`, host dependencies, aliases and parents of interfaces, external
devices, the primary member of a bridge, the creation and freeing of stacked
devices, the sections of wireless devices in a reload (`WirelessDevice` has
its own), routes and rules in the configuration's own sections.
