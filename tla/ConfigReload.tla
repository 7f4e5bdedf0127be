---------------------------- MODULE ConfigReload ----------------------------
(***************************************************************************)
(* The configuration and its reload: config_init_all (config.c) loads the  *)
(* sections of the devices and of the interfaces again, and device.c and   *)
(* interface.c bring what runs in line with them.  A reload is one call;   *)
(* an interface whose protocol takes its time to tear down lives through   *)
(* several of them, and is changed, removed or added back meanwhile.       *)
(***************************************************************************)
EXTENDS Integers, FiniteSets, FiniteSetsExt

CONSTANTS
  Hardware,   \* names of simple devices that are there
  Virtual,    \* names of veth devices, made by their sections
  Static,     \* interfaces of the configuration
  Dynamic,    \* interfaces added over ubus
  Slow,       \* interfaces torn down by a script
  DynamicOn,  \* the device of each dynamic interface
  Configs,    \* configurations: the sections of the devices and interfaces
  First       \* the one loaded at the start

None  == "none"
NoOption == 0
Names == Hardware \cup Virtual
Ifaces == Static \cup Dynamic

(* The section of a device is its settings; that of an interface names its *)
(* device, `auto`, the options of its protocol and, in the same section,    *)
(* settings for the device.                                                 *)
NoSection == [dev |-> None, auto |-> FALSE, opt |-> NoOption, settings |-> NoOption]

ASSUME ConfigAssumption ==
  /\ Slow \subseteq Ifaces /\ DynamicOn \in [Dynamic -> Names]
  /\ First \in Configs
  /\ \A c \in Configs : c.dev \in [Names -> Int] /\ DOMAIN c.ifs = Static

VARIABLE st

(* `type`: None when there is no such device; `own`: default_config;        *)
(* `owner`: config_iface where iface_config is set.                         *)
NoDevice == [type |-> None, conf |-> NoOption, current |-> FALSE, own |-> FALSE,
             owner |-> None, present |-> FALSE, pending |-> FALSE]
NoInterface ==
  [here |-> FALSE, state |-> "down", cs |-> "normal", sect |-> NoSection, runs |-> NoOption,
   dev |-> None, claimed |-> FALSE, avail |-> FALSE, auto |-> FALSE, current |-> FALSE]

Nothing ==
  [dev |-> [d \in Names |-> NoDevice], ifs |-> [i \in Ifaces |-> NoInterface],
   cfg |-> [dev |-> [d \in Names |-> NoOption], ifs |-> [i \in Static |-> NoSection]],
   loading |-> FALSE, lock |-> FALSE,
   down |-> {}, asked |-> {}, readded |-> {}]

UsersOf(s, d) == {i \in Ifaces : s.ifs[i].dev = d}
IsDynamic(i)  == i \in Dynamic

(* Calls that come back by way of the events of the devices.                *)
RECURSIVE Call(_, _, _, _)
SetPresent(s, d, here)   == Call("device_set_present", s, d, here)
HandleConfigChange(s, i) == Call("interface_handle_config_change", s, i, None)
ApplyConfig(s, d, conf)  == Call("device_apply_config", s, d, conf)

(***************************************************************************)
(* Devices                                                                 *)
(***************************************************************************)

FreeUnused(s) ==
  [s EXCEPT !.dev = [d \in Names |-> IF s.lock \/ UsersOf(s, d) # {} \/ @[d].current
                                       THEN @[d] ELSE NoDevice]]

Default(d) == [NoDevice EXCEPT !.type = "simple", !.own = TRUE, !.present = d \in Hardware]
DeviceGet(s, d) == IF s.dev[d].type # None THEN s ELSE [s EXCEPT !.dev[d] = Default(d)]

(* Fault: settings are applied without a look at those the device has.      *)
DeviceApplyConfigAnyway(s, d, conf) ==
  LET m == [s EXCEPT !.dev[d].conf = conf]
  IN  IF s.dev[d].present THEN SetPresent(SetPresent(m, d, FALSE), d, TRUE) ELSE m

(* device_set_config and device_apply_config of a device of its own type;   *)
(* veth_reload sees to the presence.                                        *)
DeviceApplyConfig(s, d, conf) ==
  LET m == [s EXCEPT !.dev[d].conf = conf]
      v == IF s.dev[d].type = "veth" THEN SetPresent(m, d, TRUE) ELSE m
  IN  IF conf = s.dev[d].conf \/ ~v.dev[d].present THEN v
      ELSE SetPresent(SetPresent(v, d, FALSE), d, TRUE)

(***************************************************************************)
(* Interfaces                                                              *)
(***************************************************************************)

(* While the configuration is loaded the device is claimed, no more.        *)
SetUp(s, i) ==
  LET f == s.ifs[i]
  IN  IF f.state # "down" \/ ~f.avail THEN [s EXCEPT !.ifs[i].auto = TRUE]
      ELSE [s EXCEPT !.ifs[i] = [f EXCEPT !.auto = TRUE, !.claimed = TRUE,
                                          !.state = IF s.loading THEN @ ELSE "up"]]

ProtoDown(s, i) ==
  HandleConfigChange([s EXCEPT !.ifs[i].state = "down", !.ifs[i].claimed = FALSE], i)

SetDown(s, i) ==
  CASE s.ifs[i].state = "up" ->
         LET m == [s EXCEPT !.ifs[i].state = "teardown", !.down = @ \cup {i}]
         IN  IF i \in Slow THEN m ELSE ProtoDown(m, i)
    [] s.ifs[i].state = "down" -> [s EXCEPT !.ifs[i].claimed = FALSE]
    [] s.ifs[i].state = "teardown" -> s

SetAvailable(s, i, avail) ==
  LET m == [s EXCEPT !.ifs[i].avail = avail]
  IN  IF s.ifs[i].avail = avail THEN s
      ELSE IF ~avail THEN SetDown(m, i)
      ELSE IF m.ifs[i].auto /\ ~s.loading THEN SetUp(m, i) ELSE m

AddUser(s, i, d) ==
  LET m == [s EXCEPT !.ifs[i].dev = d]
  IN  IF s.dev[d].present THEN SetAvailable(m, i, TRUE) ELSE m

(* interface_cleanup_state                                                  *)
CleanupState(s, i) ==
  FreeUnused([SetAvailable(s, i, FALSE) EXCEPT !.ifs[i].state = "down", !.ifs[i].claimed = FALSE,
                                               !.ifs[i].dev = None])
DoFree(s, i) == [CleanupState(s, i) EXCEPT !.ifs[i] = NoInterface]

(* Fault: an interface that has no settings any more leaves the device with *)
(* those it had.                                                            *)
SetDeviceConfigLeaving(s, i, d) ==
  LET settings == s.ifs[i].sect.settings
      m == [s EXCEPT !.dev[d].owner = i]
  IN  IF ~s.dev[d].own \/ settings = NoOption THEN s ELSE ApplyConfig(m, d, settings)

(* interface_set_device_config: only a device without a section of its own  *)
(* takes settings from an interface.                                        *)
SetDeviceConfig(s, i, d) ==
  LET settings == s.ifs[i].sect.settings
      m == [s EXCEPT !.dev[d].owner = IF settings # NoOption THEN i ELSE None]
  IN  IF ~s.dev[d].own \/ (settings = NoOption /\ s.dev[d].owner # i) THEN s
      ELSE ApplyConfig(m, d, settings)

ClaimDevice(s, i) ==
  LET d == s.ifs[i].sect.dev
      m == AddUser(SetDeviceConfig(DeviceGet([s EXCEPT !.lock = TRUE], d), i, d), i, d)
  IN  FreeUnused([m EXCEPT !.lock = s.lock])

DoReload(s, i) == ClaimDevice([CleanupState(s, i) EXCEPT !.ifs[i].runs = s.ifs[i].sect.opt], i)

AfterChange(s, i) ==
  IF s.ifs[i].auto /\ s.ifs[i].avail THEN SetUp(s, i)
  ELSE IF IsDynamic(i) THEN DoFree(s, i) ELSE s
InterfaceHandleConfigChange(s, i) ==
  LET m == [s EXCEPT !.ifs[i].cs = "normal"]
  IN  CASE s.ifs[i].cs = "normal" -> AfterChange(m, i)
        [] s.ifs[i].cs = "reload" -> AfterChange(DoReload(m, i), i)
        [] s.ifs[i].cs = "remove" -> DoFree(m, i)

(* Fault: the change that was put off first is the one carried out.         *)
SetConfigStateFirst(s, i, cs) ==
  LET m == [s EXCEPT !.ifs[i].cs = IF @ = "normal" THEN cs ELSE @]
  IN  IF s.ifs[i].state = "down" THEN HandleConfigChange(m, i) ELSE SetDown(m, i)


SetConfigState(s, i, cs) ==
  LET m == [s EXCEPT !.ifs[i].cs = cs]
  IN  IF s.ifs[i].state = "down" THEN HandleConfigChange(m, i) ELSE SetDown(m, i)

(* interface_change_config: `auto` changes what is asked of the interface   *)
(* only when it changes in the section; turned on it needs no reload.       *)
ChangeConfig(s, i, sect) ==
  LET f == s.ifs[i]
      old == f.sect
      settings == f.dev # None /\ old.settings # sect.settings
      reload == settings \/ old.dev # sect.dev \/ old.opt # sect.opt \/ (old.auto /\ ~sect.auto)
      m == [s EXCEPT !.ifs[i].sect = sect,
                     !.ifs[i].auto = IF old.auto # sect.auto THEN sect.auto ELSE @,
                     !.asked = IF old.auto # sect.auto THEN @ \ {i} ELSE @,
                     !.readded = IF f.cs = "remove" /\ ~reload THEN @ \cup {i} ELSE @]
  IN  IF reload THEN SetConfigState(m, i, "reload") ELSE m

Create(s, i, sect) ==
  ClaimDevice([s EXCEPT !.ifs[i] = [NoInterface EXCEPT !.here = TRUE, !.sect = sect,
                                                       !.runs = sect.opt, !.auto = sect.auto],
                        !.asked = @ \ {i}, !.readded = @ \ {i}], i)

(* vlist_add                                                                *)
AddInterface(s, i, sect) ==
  LET m == IF s.ifs[i].here THEN ChangeConfig([s EXCEPT !.ifs[i].current = TRUE], i, sect)
                            ELSE Create(s, i, sect)
  IN  [m EXCEPT !.ifs[i].current = m.ifs[i].here]

(***************************************************************************)
(* Events of the devices                                                   *)
(***************************************************************************)

Broadcast(s, d, here) ==
  FoldSet(LAMBDA i, t : IF t.ifs[i].dev = d THEN SetAvailable(t, i, here) ELSE t, s, Ifaces)

Call(f, s, x, y) ==
  CASE f = "device_set_present" ->
         IF s.dev[x].present = y THEN s ELSE Broadcast([s EXCEPT !.dev[x].present = y], x, y)
    [] f = "interface_handle_config_change" -> InterfaceHandleConfigChange(s, x)
    [] f = "device_apply_config" -> DeviceApplyConfig(s, x, y)

(* device_replace: the users release the old device and are given the new   *)
(* one, which takes its place in the table.                                 *)
Replace(s, d, new) ==
  LET gone == SetPresent(s, d, FALSE)
      users == UsersOf(gone, d)
      moved == [gone EXCEPT !.dev[d] = new,
                            !.ifs = [i \in Ifaces |-> IF i \in users THEN [@[i] EXCEPT !.claimed = FALSE]
                                                                     ELSE @[i]]]
  IN  FoldSet(LAMBDA i, t : AddUser(t, i, d), moved, users)

(***************************************************************************)
(* Loading the configuration                                               *)
(***************************************************************************)

(* config_init_devices: a section without a type is put on the device that  *)
(* is there, one with a type on a device of that type.                      *)
InitDevice(s, d, conf) ==
  LET veth == [NoDevice EXCEPT !.type = "veth", !.conf = conf, !.current = TRUE, !.pending = TRUE]
      Known(t) == [ApplyConfig([t EXCEPT !.dev[d].current = TRUE], d, conf) EXCEPT !.dev[d].own = FALSE]
  IN  IF conf = NoOption THEN s
      ELSE IF d \in Hardware THEN Known(DeviceGet(s, d))
      ELSE CASE s.dev[d].type = "veth"   -> Known(s)
             [] s.dev[d].type = "simple" -> Replace(s, d, veth)
             [] s.dev[d].type = None     -> [s EXCEPT !.dev[d] = veth]

ResetConfig(s) == [s EXCEPT !.dev = [d \in Names |-> [@[d] EXCEPT !.current = FALSE]],
                            !.ifs = [i \in Ifaces |-> [@[i] EXCEPT !.current = i \in Dynamic]]]
InitDevices(s, c)    == FoldSet(LAMBDA d, t : InitDevice(t, d, c.dev[d]), s, Names)
InitInterfaces(s, c) ==
  FoldSet(LAMBDA i, t : AddInterface(t, i, c.ifs[i]), s, {i \in Static : c.ifs[i] # NoSection})
ResetOld(s) ==
  FoldSet(LAMBDA d, t : Replace(t, d, Default(d)), s,
          {d \in Names : ~s.dev[d].current /\ ~s.dev[d].own /\ s.dev[d].type = "simple"})
InitPending(s) ==
  FoldSet(LAMBDA d, t : SetPresent([t EXCEPT !.dev[d].pending = FALSE], d, TRUE), s,
          {d \in Names : s.dev[d].pending})
Flush(s) ==
  FoldSet(LAMBDA i, t : SetConfigState(t, i, "remove"), s,
          {i \in Ifaces : s.ifs[i].here /\ ~s.ifs[i].current})
StartPending(s) ==
  FoldSet(LAMBDA i, t : IF t.ifs[i].avail /\ t.ifs[i].auto THEN SetUp(t, i) ELSE t, s, Ifaces)

ConfigInitAll(s, c) ==
  LET start == ResetConfig([s EXCEPT !.cfg = c, !.loading = TRUE, !.lock = TRUE, !.down = {},
                                       !.readded = {i \in @ : c.ifs[i] # NoSection}])
      loaded == InitInterfaces(InitDevices(start, c), c)
      unlocked == FreeUnused([loaded EXCEPT !.loading = FALSE, !.lock = FALSE])
  IN  StartPending(FreeUnused(Flush(InitPending(ResetOld(unlocked)))))

Init == st = ConfigInitAll(Nothing, First)

Reload(c) == c # st.cfg /\ st' = ConfigInitAll(st, c)

(***************************************************************************)
(* Between the reloads                                                     *)
(***************************************************************************)

Step(s) == st' = [s EXCEPT !.down = {}]

ScriptEnds(i) == st.ifs[i].state = "teardown" /\ Step(ProtoDown(st, i))

Asked(i, up) ==
  [st EXCEPT !.asked = IF st.ifs[i].sect.auto # up THEN @ \cup {i}
                       ELSE IF st.ifs[i].cs = "remove" THEN @ ELSE @ \ {i}]
IfUp(i)   == st.ifs[i].here /\ Step(SetUp(Asked(i, TRUE), i))
IfDown(i) ==
  st.ifs[i].here /\ Step(SetDown([Asked(i, FALSE) EXCEPT !.ifs[i].auto = FALSE], i))

(* netifd_add_dynamic: the version of the node keeps it from the flush.     *)
AddDynamic(i) ==
  /\ ~st.ifs[i].here
  /\ Step([Create(st, i, [dev |-> DynamicOn[i], auto |-> TRUE, opt |-> NoOption, settings |-> NoOption])
             EXCEPT !.ifs[i].current = TRUE])
RemoveInterface(i) ==
  st.ifs[i].here /\ Step(SetConfigState([st EXCEPT !.asked = @ \cup {i}], i, "remove"))

Next ==
  \/ \E c \in Configs : Reload(c)
  \/ \E i \in Ifaces : ScriptEnds(i) \/ IfUp(i) \/ IfDown(i) \/ RemoveInterface(i)
  \/ \E i \in Dynamic : AddDynamic(i)

Spec == Init /\ [][Next]_st

(***************************************************************************)
(* Properties                                                              *)
(***************************************************************************)

DevState == [type : {None, "simple", "veth"}, conf : Int, current : BOOLEAN, own : BOOLEAN,
             owner : Ifaces \cup {None}, present : BOOLEAN, pending : BOOLEAN]
(* The types of the devices; between the calls nothing is half loaded, and  *)
(* whatever stands on a device or holds it stands on one that exists.       *)
TypeOK ==
  /\ st.dev \in [Names -> DevState]
  /\ ~st.loading /\ ~st.lock
  /\ \A d \in Names : ~st.dev[d].pending /\ (st.dev[d].type = None => UsersOf(st, d) = {})
  /\ \A i \in Ifaces :
       LET f == st.ifs[i]
       IN  /\ f.claimed => f.dev # None
           /\ f.avail <=> f.dev # None /\ st.dev[f.dev].present

Settled(i) == st.ifs[i].state # "teardown"

(* config_init_all: however many reloads went over an interface while it    *)
(* was torn down, and in whatever order, in the end there is an interface   *)
(* for each section and no other, on its device and with its options, and   *)
(* up if it is to be.  (Not one whose section was taken out and put back    *)
(* unchanged before it was gone: see README.)                               *)
ConfigFollowed ==
  TypeOK /\ \A i \in Static \ st.readded :
    LET f == st.ifs[i]  sect == st.cfg.ifs[i]
    IN  Settled(i) =>
          /\ i \notin st.asked => (f.here <=> sect # NoSection)
          /\ f.here /\ sect # NoSection => f.dev = sect.dev /\ f.runs = sect.opt
          /\ f.here /\ i \notin st.asked =>
               (f.state = "up" <=> sect.auto /\ st.dev[sect.dev].present)

(* device_reset_old, device_replace, device_free_unused: a device has the   *)
(* settings of its section, or those of the interface that gave it settings *)
(* for as long as that one is on it; it does not outlive its section and    *)
(* its users.                                                               *)
DevicesFollow ==
  \A d \in Names :
    LET v == st.dev[d]  conf == st.cfg.dev[d]
    IN  /\ conf # NoOption => v.present /\ v.conf = conf /\ ~v.own
        /\ conf = NoOption /\ v.type # None => UsersOf(st, d) # {}
        /\ conf = NoOption /\ v.type = "simple" =>
             /\ v.own /\ (v.conf = NoOption <=> v.owner = None)
             /\ v.owner \in UsersOf(st, d) /\ Settled(v.owner) => v.conf = st.ifs[v.owner].sect.settings

Loads == st'.cfg # st.cfg
(* interface_change_config, device_set_config: an interface whose section   *)
(* is as before, on a device that is as before, does not go down in a       *)
(* reload, whatever else the reload changes.                                *)
UntouchedStaysUp ==
  [][\A i \in Ifaces :
       LET d == st.ifs[i].dev
           same == i \in Dynamic \/ (st.cfg.ifs[i] = st'.cfg.ifs[i] /\ st.ifs[i].sect = st.cfg.ifs[i])
       IN  Loads /\ st.ifs[i].state = "up" /\ same /\ st.dev[d] = st'.dev[d]
             => i \notin st'.down]_st

=============================================================================
