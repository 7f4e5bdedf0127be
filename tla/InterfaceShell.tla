--------------------------- MODULE InterfaceShell ---------------------------
(***************************************************************************)
(* One netifd interface (interface.c) driven by a shell protocol handler   *)
(* (proto-shell.c) on top of one device (device.c).                        *)
(*                                                                         *)
(* netifd is single threaded: every uloop callback (a ubus call, a netlink *)
(* or hotplug event, a child's exit, a timer) runs to completion.  Each of *)
(* them is one action; the calls it makes, which re-enter the interface    *)
(* through device events, are operators from a state to a state.  What     *)
(* interleaves are the callbacks: a script's exit, its notifications, the  *)
(* teardown timer, the user and the device come in any order.              *)
(***************************************************************************)
CONSTANTS
  Protocols,      \* the PROTO_FLAG_* bits of each protocol it can be given
  Checkup,        \* the interface has a positive checkup_interval
  Origins,        \* TRUE: ubus add_dynamic adds it; FALSE: the config does
  Links,          \* the values the config gives force_link
  ForkOutcomes,   \* whether netifd_start_process can fail
  ClaimOutcomes   \* whether bringing up a device can fail

AllFlags == {"NODEV", "INIT_AVAILABLE", "RENEW_AVAILABLE", "NO_TASK",
             "TEARDOWN_ON_L3_LINK_DOWN"}

ASSUME ConstantsAssumption ==
  /\ Protocols \in SUBSET (SUBSET AllFlags) /\ Protocols # {}
  /\ Checkup \in BOOLEAN
  /\ Origins \in SUBSET BOOLEAN /\ Origins # {}
  /\ Links \in SUBSET BOOLEAN /\ Links # {}
  /\ ForkOutcomes \in SUBSET BOOLEAN /\ TRUE \in ForkOutcomes
  /\ ClaimOutcomes \in SUBSET BOOLEAN /\ TRUE \in ClaimOutcomes

VARIABLE st

(* struct interface, its proto_shell_state and its device.  `claimed` holds *)
(* the device users with a claim: the interface's own main_dev and l3_dev,  *)
(* and "other", any other user of the device.  `told` is the last of the    *)
(* events IFEV_UP and IFEV_DOWN sent to the users of the interface.         *)
State ==
  [alive     : BOOLEAN,
   dynamic   : BOOLEAN,
   handler   : SUBSET AllFlags,
   proto     : SUBSET AllFlags,
   state     : {"SETUP", "UP", "TEARDOWN", "DOWN"},
   config    : {"NORMAL", "RELOAD", "REMOVE"},
   available : BOOLEAN,
   autostart : BOOLEAN,
   cfgauto   : BOOLEAN,
   enabled   : BOOLEAN,
   link      : BOOLEAN,
   force     : BOOLEAN,
   linkup    : BOOLEAN,
   told      : {"UP", "DOWN"},
   main      : BOOLEAN,
   l3        : {"none", "main", "tun"},
   claimed   : SUBSET {"main_dev", "l3_dev", "other"},
   sm        : {"S_IDLE", "S_SETUP", "S_SETUP_ABORT", "S_TEARDOWN"},
   script    : BOOLEAN,
   task      : BOOLEAN,
   renew     : BOOLEAN,
   tdtimer   : BOOLEAN,
   chktimer  : BOOLEAN,
   present   : BOOLEAN,
   carrier   : BOOLEAN]

(* What a callback finds around it: whether fork and the kernel cooperate,  *)
(* and whether the configuration is being loaded (config_init).             *)
Env == [fork : ForkOutcomes, claim : ClaimOutcomes, init : {FALSE}]
Loading(e) == [e EXCEPT !.init = TRUE]

-----------------------------------------------------------------------------
(* proto-shell.c: the three commands of proto_shell_handler.                *)

(* netifd_start_process kills the old script first, then forks. *)
StartScript(s, e) == [s EXCEPT !.script = e.fork]

ShellSetup(s, e) ==
  IF s.sm = "S_IDLE" THEN StartScript([s EXCEPT !.sm = "S_SETUP"], e) ELSE s

SetupAccepted(s, e) == s.sm = "S_IDLE" => e.fork

ShellRenew(s, e) ==
  CASE "RENEW_AVAILABLE" \notin s.proto -> s
    [] "RENEW_AVAILABLE" \in s.proto /\ s.script -> [s EXCEPT !.renew = TRUE]
    [] OTHER -> StartScript([s EXCEPT !.renew = FALSE], e)

(* Fault: the timer not armed while the teardown script runs. *)
ShellTeardownUntimed(s, e) ==
  CASE s.sm = "S_SETUP" /\ s.script ->
         [s EXCEPT !.tdtimer = TRUE, !.renew = FALSE, !.sm = "S_SETUP_ABORT"]
    [] s.sm = "S_IDLE" \/ (s.sm = "S_SETUP" /\ ~s.script) ->
         StartScript([s EXCEPT !.renew = FALSE, !.sm = "S_TEARDOWN"], e)
    [] OTHER -> s

(* A running setup script is sent SIGTERM and waited for; otherwise the     *)
(* teardown script starts.  `force` is not looked at.                       *)
ShellTeardown(s, e) ==
  CASE s.sm = "S_SETUP" /\ s.script ->
         [s EXCEPT !.tdtimer = TRUE, !.renew = FALSE, !.sm = "S_SETUP_ABORT"]
    [] s.sm = "S_IDLE" \/ (s.sm = "S_SETUP" /\ ~s.script) ->
         StartScript([s EXCEPT !.tdtimer = TRUE, !.renew = FALSE,
                               !.sm = "S_TEARDOWN"], e)
    [] OTHER -> s

-----------------------------------------------------------------------------
(* interface.c: leaving SETUP and UP.                                       *)

(* The users whose claims keep the main device up (device->active > 0).     *)
Holders(s) == IF s.l3 = "main" THEN s.claimed ELSE s.claimed \ {"l3_dev"}
Active(s) == Holders(s) # {}

(* device_release by an interface that is DOWN or TEARDOWN: the last one    *)
(* brings the device down, and DEV_EVENT_DOWN disables the interface, which *)
(* in these states is all interface_check_state has to do.                  *)
Release(s, u) ==
  LET t == [s EXCEPT !.claimed = @ \ {u}]
  IN IF Active(s) /\ ~Active(t) THEN [t EXCEPT !.enabled = FALSE] ELSE t

(* Fault: every change of state is announced as it is. *)
LeaveLoud(s, state) == [s EXCEPT !.state = state, !.told = state]

(* The users hear of it (IFEV_DOWN) only if they were told it was UP.       *)
Leave(s, state) ==
  [s EXCEPT !.state = state, !.told = IF s.state = "UP" THEN "DOWN" ELSE @]

(* Fault: the event forgotten. *)
MarkDownSilent(s) ==
  IF s.state = "DOWN" THEN s
  ELSE Release([s EXCEPT !.state = "DOWN", !.linkup = FALSE], "l3_dev")

MarkDown(s) ==
  IF s.state = "DOWN" THEN s
  ELSE Release([Leave(s, "DOWN") EXCEPT !.linkup = FALSE], "l3_dev")

SetDown(s, force, e) ==
  CASE s.state \in {"UP", "SETUP"} ->
         LET t == ShellTeardown(Leave(s, "TEARDOWN"), e)
         IN IF force THEN Release(t, "l3_dev") ELSE t
    [] s.state = "DOWN" -> Release(s, "main_dev")
    [] OTHER -> s

-----------------------------------------------------------------------------
(* interface.c: entering SETUP.                                             *)

LinkOk(s) == s.link \/ s.force

StartSetup(s, e) ==
  LET t == ShellSetup([s EXCEPT !.state = "SETUP"], e)
  IN IF SetupAccepted(s, e) THEN t ELSE MarkDown(t)

CheckState(s, e) ==
  CASE s.state \in {"UP", "SETUP"} /\ ~(s.enabled /\ LinkOk(s)) ->
         MarkDown(ShellTeardown(s, e))
    [] /\ s.state = "DOWN" /\ s.available /\ s.autostart
       /\ s.enabled /\ LinkOk(s) /\ ~e.init -> StartSetup(s, e)
    [] OTHER -> s

SetEnabled(s, v, e) ==
  IF s.enabled = v THEN s ELSE CheckState([s EXCEPT !.enabled = v], e)

(* Fault: the new link state noted but not acted upon. *)
SetLinkStateLazy(s, v, e) == [s EXCEPT !.link = v]

SetLinkState(s, v, e) ==
  IF s.link = v THEN s
  ELSE LET t == CheckState([s EXCEPT !.link = v], e)
       IN IF v /\ t.force /\ t.state = "UP" THEN [t EXCEPT !.linkup = TRUE]
          ELSE t

(* device_claim: the first claim brings the device up, and DEV_EVENT_UP     *)
(* enables the interface before the caller goes on.                         *)
UsesMain(s, u) == u # "l3_dev" \/ s.l3 = "main"
ClaimOk(s, u, e) ==
  u \in s.claimed \/ (UsesMain(s, u) /\ Active(s)) \/ e.claim

Claim(s, u, e) ==
  LET t == [s EXCEPT !.claimed = @ \union {u}]
  IN CASE ~ClaimOk(s, u, e) -> s
       [] ClaimOk(s, u, e) /\ UsesMain(s, u) /\ ~Active(s) ->
            IF s.main THEN SetEnabled(t, TRUE, e) ELSE t
       [] OTHER -> t

InterfaceSetUp(s, e) ==
  LET t == [s EXCEPT !.autostart = TRUE]
  IN CASE t.state # "DOWN" \/ ~t.available -> t
       [] t.state = "DOWN" /\ t.available /\ ~t.main -> StartSetup(t, e)
       [] OTHER -> IF ClaimOk(t, "main_dev", e)
                   THEN CheckState(Claim(t, "main_dev", e), e) ELSE t

SetAvailable(s, v, e) ==
  LET t == [s EXCEPT !.available = v]
  IN CASE s.available = v -> s
       [] s.available # v /\ v ->
            IF t.autostart /\ ~e.init THEN InterfaceSetUp(t, e) ELSE t
       [] OTHER -> SetDown(t, TRUE, e)

-----------------------------------------------------------------------------
(* interface.c: configuration changes, carried out only while DOWN.         *)

(* Faults: the children left running; the link state kept. *)
DetachedRunning(s) ==
  [Release(Release(s, "l3_dev"), "main_dev") EXCEPT
     !.state = "DOWN", !.available = FALSE, !.link = FALSE, !.main = FALSE,
     !.l3 = "none", !.sm = "S_IDLE", !.tdtimer = FALSE, !.chktimer = FALSE]

(* What is left after interface_cleanup_state: no device, a new handler.    *)
Detached(s) ==
  [Release(Release(s, "l3_dev"), "main_dev") EXCEPT
     !.state = "DOWN", !.available = FALSE, !.link = FALSE, !.main = FALSE,
     !.l3 = "none", !.sm = "S_IDLE", !.script = FALSE, !.task = FALSE, !.renew = FALSE,
     !.tdtimer = FALSE, !.chktimer = FALSE]

(* device_add_user: a device already there is announced at once, by ADD,    *)
(* UP and LINK_UP, each of which may start the interface.                   *)
Bound(s) == [s EXCEPT !.proto = s.handler, !.main = "NODEV" \notin s.handler]

AnnounceAdd(s, e) ==
  IF s.main /\ s.present THEN SetAvailable(s, TRUE, e) ELSE s

AnnounceUp(s, e) ==
  IF s.main /\ s.present /\ Active(s) THEN SetEnabled(s, TRUE, e) ELSE s

AnnounceLink(s, e) ==
  IF s.main /\ s.present /\ s.carrier THEN SetLinkState(s, TRUE, e) ELSE s

BindL3(s) == IF s.main THEN [s EXCEPT !.l3 = "main"] ELSE s

(* interface_claim_device. *)
Attach(s, e) ==
  LET t == BindL3(AnnounceLink(AnnounceUp(AnnounceAdd(Bound(s), e), e), e))
  IN IF "INIT_AVAILABLE" \in s.handler THEN SetAvailable(t, TRUE, e) ELSE t

DoFree(s) ==
  [Detached(s) EXCEPT
     !.alive = FALSE, !.dynamic = FALSE, !.handler = {}, !.proto = {},
     !.config = "NORMAL", !.autostart = FALSE, !.cfgauto = FALSE, !.enabled = FALSE, !.force = FALSE]

(* Faults: the request not cleared, so that it is never answered; the       *)
(* removal treated as a reload.                                             *)
HandleConfigChangeKeeps(s, e) ==
  IF s.config = "REMOVE" THEN DoFree(s) ELSE Attach(Detached(s), e)

HandleConfigChangeRevives(s, e) ==
  Attach(Detached([s EXCEPT !.config = "NORMAL"]), e)

(* A dynamic interface that will not be set up again is removed. *)
Resume(s, e) ==
  CASE s.autostart /\ s.available -> InterfaceSetUp(s, e)
    [] ~(s.autostart /\ s.available) /\ s.dynamic -> DoFree(s)
    [] OTHER -> s

HandleConfigChange(s, e) ==
  LET n == [s EXCEPT !.config = "NORMAL"]
  IN CASE s.config = "REMOVE" -> DoFree(n)
       [] s.config = "RELOAD" -> Resume(Attach(Detached(n), e), e)
       [] OTHER -> Resume(n, e)

SetConfigState(s, c, e) ==
  LET t == [s EXCEPT !.config = c]
  IN IF t.state = "DOWN" THEN HandleConfigChange(t, e) ELSE SetDown(t, FALSE, e)

-----------------------------------------------------------------------------
(* interface_proto_event_cb: the handler's events.                          *)

(* IFPEV_UP finds l3_dev set: proto_shell_update_link has just bound it. *)
ProtoUp(s) ==
  IF s.state = "SETUP" THEN [s EXCEPT !.state = "UP", !.told = "UP"] ELSE s

ProtoDown(s, e) ==
  IF s.state = "DOWN" THEN s
  ELSE LET t == [Release(MarkDown(s), "main_dev") EXCEPT !.l3 = "none"]
       IN HandleConfigChange(t, e)

ProtoLinkLost(s) ==
  IF s.state = "UP" THEN [MarkDown(s) EXCEPT !.state = "SETUP"] ELSE s

-----------------------------------------------------------------------------
(* proto-shell.c: a child has ended, or the teardown timer gave up on it.   *)

ShellIdle(s) == [s EXCEPT !.sm = "S_IDLE", !.tdtimer = FALSE, !.chktimer = FALSE]

(* Fault: nothing done about a setup script that ended without an answer. *)
ScriptDoneUnheeded(s, e) == IF s.renew THEN ShellRenew(s, e) ELSE s

ScriptDone(s, e) ==
  LET t == CASE s.renew -> ShellRenew(s, e)
             [] /\ ~s.renew /\ "NO_TASK" \notin s.proto
                /\ ~s.task /\ s.sm = "S_SETUP" -> ShellTeardown(s, e)
             [] OTHER -> s
  IN IF t.sm = "S_SETUP" /\ Checkup THEN [t EXCEPT !.chktimer = TRUE] ELSE t

(* Fault: a handler that waits for its children does not start over.       *)
TaskFinishStuck(s, who, e) == IF s.sm = "S_TEARDOWN" THEN s ELSE ShellTeardown(s, e)

TaskFinish(s, who, e) ==
  CASE s.sm = "S_SETUP_ABORT" ->
         IF s.script \/ s.task THEN s ELSE ShellTeardown(ShellIdle(s), e)
    [] s.sm = "S_TEARDOWN" ->
         IF s.script \/ s.task THEN s ELSE ProtoDown(ShellIdle(s), e)
    [] s.sm = "S_IDLE" /\ who = "task" -> ShellTeardown(ProtoLinkLost(s), e)
    [] s.sm = "S_SETUP" /\ who = "task" -> ShellTeardown(s, e)
    [] s.sm \in {"S_IDLE", "S_SETUP"} /\ who = "script" -> ScriptDone(s, e)
    [] OTHER -> s

Busy(s) == s.sm \in {"S_SETUP_ABORT", "S_TEARDOWN"}

-----------------------------------------------------------------------------
(* Initially the interface is being created by the first configuration; the *)
(* device may or may not be there.                                          *)
Blank(p, c) ==
  [alive |-> FALSE, dynamic |-> FALSE, handler |-> {}, proto |-> {},
   state |-> "DOWN", config |-> "NORMAL",
   available |-> FALSE, autostart |-> FALSE, cfgauto |-> FALSE,
   enabled |-> FALSE, link |-> FALSE, force |-> FALSE, linkup |-> FALSE,
   told |-> "DOWN", main |-> FALSE, l3 |-> "none", claimed |-> {}, sm |-> "S_IDLE",
   script |-> FALSE, task |-> FALSE, renew |-> FALSE, tdtimer |-> FALSE,
   chktimer |-> FALSE, present |-> p, carrier |-> c]

Init == \E p, c \in BOOLEAN : st = Blank(p, c)

(* interface_alloc, interface_update (node_new) with config_init set, then  *)
(* interface_start_pending at the end of config_init_all.                   *)
StartPending(s, e) ==
  IF s.alive /\ s.available /\ s.autostart THEN InterfaceSetUp(s, e) ELSE s

(* netifd_add_dynamic adds it outside a reload, and then marks it.          *)
SetDynamic(s) ==
  IF s.alive THEN [s EXCEPT !.dynamic = TRUE, !.autostart = TRUE] ELSE s

(* interface_alloc: zeroed memory; claims on the device outlive it.         *)
New(s, h, a, f) ==
  [Blank(s.present, s.carrier) EXCEPT
     !.alive = TRUE, !.claimed = s.claimed, !.autostart = a, !.cfgauto = a,
     !.force = f, !.handler = h]

Create(e) ==
  /\ ~st.alive
  /\ \E d \in Origins, h \in Protocols, a \in BOOLEAN, f \in Links :
       LET n == New(st, h, a, f)
       IN st' = IF d THEN SetDynamic(Attach(n, e))
                ELSE StartPending(Attach(n, Loading(e)), e)

(* interface_update with both nodes: interface_change_config.               *)
ChangeConfig(s, h, a, f, changed, e) ==
  LET t == [s EXCEPT !.autostart = IF s.cfgauto # a THEN a ELSE @,
                     !.cfgauto = a, !.force = f, !.handler = h]
      reload == changed \/ h # s.handler \/ (s.cfgauto /\ ~a)
  IN CASE reload -> SetConfigState(t, "RELOAD", e)
       [] ~reload /\ s.main -> CheckState(t, e)
       [] OTHER -> t

ReloadConfig(e) ==
  /\ st.alive
  /\ \E d \in Origins, h \in Protocols, a, changed \in BOOLEAN, f \in Links :
       st' = IF d THEN SetDynamic(ChangeConfig(st, h, a, f, changed, e))
             ELSE StartPending(ChangeConfig(st, h, a, f, changed, Loading(e)), e)

(* The remove timer of the ubus method, or vlist_flush; what follows the    *)
(* latter, interface_start_pending, finds it freed or in TEARDOWN.          *)
RemoveInterface(e) ==
  st.alive /\ st' = SetConfigState(st, "REMOVE", e)

IfUp(e) == st.alive /\ st' = InterfaceSetUp(st, e)

(* all: interface_set_down(NULL), which leaves autostart alone. *)
IfDown(e) ==
  /\ st.alive
  /\ \E all \in BOOLEAN :
       st' = SetDown([st EXCEPT !.autostart = @ /\ all], FALSE, e)

-----------------------------------------------------------------------------
(* The device's events.                                                     *)

DevicePresent(s, v, e) ==
  LET t == [s EXCEPT !.present = v]
  IN IF s.main /\ s.present # v THEN SetAvailable(t, v, e) ELSE t

SetPresent(e) ==
  st' = DevicePresent(st, ~st.present, e)

SetCarrier(e) ==
  LET t == [st EXCEPT !.carrier = ~@]
  IN st' = IF t.main THEN SetLinkState(t, t.carrier, e) ELSE t

OtherClaims(e) ==
  /\ "other" \notin st.claimed
  /\ st' = Claim(st, "other", e)

OtherReleases(e) ==
  /\ "other" \in st.claimed
  /\ LET t == [st EXCEPT !.claimed = @ \ {"other"}]
     IN st' = IF t.main /\ ~Active(t) THEN SetEnabled(t, FALSE, e) ELSE t

(* DEV_EVENT_TOPO_CHANGE, from a bridge. *)
TopoChange(e) == st.main /\ st' = ShellRenew(st, e)

(* interface_l3_dev_cb: LINK_DOWN of a layer 3 device of its own. *)
L3LinkDown(e) ==
  /\ st.l3 = "tun" /\ "TEARDOWN_ON_L3_LINK_DOWN" \in st.handler
  /\ st' = ShellTeardown(st, e)

-----------------------------------------------------------------------------
(* The handler's children, timers and notifications (proto_shell_notify).   *)

ScriptExits(e) ==
  st.script /\ st' = TaskFinish([st EXCEPT !.script = FALSE], "script", e)

TaskExits(e) ==
  st.task /\ st' = TaskFinish([st EXCEPT !.task = FALSE], "task", e)

TeardownTimeout(e) ==
  /\ st.tdtimer
  /\ st' = TaskFinish([st EXCEPT !.tdtimer = FALSE, !.script = FALSE,
                                 !.task = FALSE], "timer", e)

CheckupTimeout(e) ==
  /\ st.chktimer
  /\ LET t == [st EXCEPT !.chktimer = FALSE]
     IN st' = IF t.autostart /\ t.state # "UP" THEN ShellTeardown(t, e) ELSE t

(* interface_set_l3_dev: a claim held on the old device moves to the new    *)
(* one; giving up the old one may take the interface down on the way.       *)
SetL3Dev(s, d, e) ==
  LET r == [s EXCEPT !.claimed = @ \ {"l3_dev"}]
      q == IF Active(s) /\ ~Active(r) THEN SetEnabled(r, FALSE, e) ELSE r
      t == [q EXCEPT !.l3 = d]
  IN CASE s.l3 = d -> s
       [] s.l3 # d /\ "l3_dev" \in s.claimed -> Claim(t, "l3_dev", e)
       [] OTHER -> t

(* Faults: the device not claimed; the handler's state left as it was.      *)
LinkUpUnclaimed(s, d, keep, e) == [ProtoUp([s EXCEPT !.l3 = d]) EXCEPT !.sm = "S_IDLE"]

LinkUpUnsettled(s, d, keep, e) == ProtoUp(Claim(SetL3Dev(s, d, e), "l3_dev", e))

(* proto_shell_update_link, link up: `keep` refreshes the addresses only.   *)
LinkUp(s, d, keep, e) ==
  LET b == SetL3Dev(s, d, e)
      c == Claim(b, "l3_dev", e)
      p == IF d = "main" THEN DevicePresent(c, TRUE, e) ELSE c
      k == IF keep THEN s ELSE p
  IN CASE ~keep /\ ~ClaimOk(b, "l3_dev", e) -> b
       [] (keep \/ ClaimOk(b, "l3_dev", e)) /\ Busy(k) -> k
       [] OTHER -> [ProtoUp(k) EXCEPT !.sm = "S_IDLE"]

NotifyLinkUp(e) ==
  /\ st.alive /\ ~Busy(st)
  /\ \E d \in IF st.main THEN {"main", "tun"} ELSE {"tun"}, keep \in BOOLEAN :
       st' = LinkUp(st, d, keep /\ st.state = "UP" /\ st.l3 # "none", e)

NotifyLinkDown ==
  st.alive /\ ~Busy(st) /\ st' = ProtoLinkLost(st)

NotifyRunCommand(e) ==
  st.alive /\ ~Busy(st) /\ st' = [st EXCEPT !.task = e.fork]

NotifyBlockRestart == st.alive /\ st' = [st EXCEPT !.autostart = FALSE]

NotifyAvailable(e) ==
  st.alive /\ \E v \in BOOLEAN : st' = SetAvailable(st, v, e)

NotifySetupFailed(e) ==
  /\ st.alive /\ ~Busy(st)
  /\ st' = ShellTeardown(IF st.sm = "S_IDLE" THEN ProtoLinkLost(st) ELSE st, e)

-----------------------------------------------------------------------------
Configuration(e) ==
  Create(e) \/ ReloadConfig(e) \/ RemoveInterface(e) \/ IfUp(e) \/ IfDown(e)

DeviceEvents(e) ==
  \/ SetPresent(e) \/ SetCarrier(e) \/ OtherClaims(e) \/ OtherReleases(e)
  \/ TopoChange(e) \/ L3LinkDown(e)

HandlerEvents(e) ==
  \/ ScriptExits(e) \/ TaskExits(e) \/ TeardownTimeout(e) \/ CheckupTimeout(e)
  \/ NotifyLinkUp(e) \/ NotifyLinkDown \/ NotifyRunCommand(e)
  \/ NotifyBlockRestart \/ NotifyAvailable(e) \/ NotifySetupFailed(e)

Next == \E e \in Env : Configuration(e) \/ DeviceEvents(e) \/ HandlerEvents(e)

Spec == Init /\ [][Next]_st

(* uloop runs every expired timer: weak fairness of TeardownTimeout, which  *)
(* is enabled exactly while the timer is armed (written out, because TLC    *)
(* evaluates ENABLED of a whole handler slowly).                            *)
Fairness ==
  []<>~st.tdtimer \/ []<><<\E e \in Env : TeardownTimeout(e)>>_st

FairSpec == Spec /\ Fairness

-----------------------------------------------------------------------------
(* Invariants.                                                              *)

(* Every field keeps to the C type it stands for. *)
TypeOK == st \in State

(* The users of an interface (hotplug, aliases, host dependencies) have been *)
(* told IFEV_UP exactly while it is UP: whichever of the six ways out of UP  *)
(* is taken, IFEV_DOWN is sent once, and the silent state changes of         *)
(* interface_set_proto_state and IFPEV_LINK_LOST hide none.                  *)
UsersKnow == st.told = "UP" <=> st.state = "UP"

(* The timer that kills stuck children is armed exactly while the handler    *)
(* waits for them: a teardown can neither hang nor be cut short by a timer   *)
(* left over from an earlier one.                                            *)
TeardownTimerGuards == st.tdtimer <=> Busy(st)

(* IFS_TEARDOWN is left only by IFPEV_DOWN, so a handler that has nothing    *)
(* left to finish while the interface waits for it would hold it for ever.   *)
TeardownHasHandler == st.state = "TEARDOWN" => Busy(st)

(* A reload or removal that was put off is never forgotten: whoever owes one *)
(* is still in the teardown whose end carries it out.                        *)
PendingChangeWaits == st.config # "NORMAL" => st.state = "TEARDOWN"

(* While users rely on an interface its handler is idle, never setting up or *)
(* tearing down behind their back; the one exception is the layer 3 device's *)
(* own loss of link, which starts a teardown before the state changes.       *)
UpMeansIdle ==
  st.state = "UP" =>
    st.sm = "S_IDLE" \/ (st.sm = "S_TEARDOWN" /\ st.l3 = "tun")

(* An interface whose device is gone (or whose handler reported it not       *)
(* available) is neither UP nor being set up, whatever callbacks come late.  *)
UnavailableIsStopped == ~st.available => st.state \notin {"SETUP", "UP"}

(* UP means a layer 3 device is bound and held up by a claim of its own, so  *)
(* that another user's release cannot take it away (DESIGN, Interfaces).     *)
UpHoldsL3 == st.state = "UP" => st.l3 # "none" /\ "l3_dev" \in st.claimed

(* A setup in progress has a child that will report: when the last one ends  *)
(* without an answer the setup is over.  NO_TASK handlers are excused, and   *)
(* it takes fork to succeed.                                                 *)
SetupAttended ==
  st.sm = "S_SETUP" => st.script \/ st.task \/ "NO_TASK" \in st.proto

(* interface_do_free leaves no claim and no child process behind. *)
FreedLeavesNothing ==
  ~st.alive => st.claimed \subseteq {"other"} /\ ~st.script /\ ~st.task

-----------------------------------------------------------------------------
(* Action properties.                                                       *)

Ready(s) == s.enabled /\ LinkOk(s)

(* The step in which the main device or its link is lost ends with the       *)
(* interface not UP, through whichever callback the loss arrives.            *)
LossEndsUp ==
  [][st.main /\ Ready(st) /\ ~Ready(st') => st'.state # "UP"]_st

(* proto-shell.c:72-77: "Teardown and setup interface again if it is still   *)
(* not up (IFS_UP) after checkup_interval seconds since previous attempt".   *)
(* So a setup whose script has ended, on an interface that is to start by    *)
(* itself, is being timed.                                                   *)
CheckupKeepsWatching ==
  Checkup /\ st.sm = "S_SETUP" /\ ~st.script /\ st.autostart => st.chktimer

-----------------------------------------------------------------------------
(* Liveness.                                                                *)

(* No child can hold the handler: every teardown ends. *)
TeardownEnds == Busy(st) ~> ~Busy(st)

(* A reload or removal that was put off is carried out. *)
PendingChangeHappens == st.config # "NORMAL" ~> st.config = "NORMAL"

-----------------------------------------------------------------------------
(* The interface as its users see it. *)
Lifecycle == INSTANCE InterfaceLifecycle WITH
  phase   <- IF st.alive THEN st.state ELSE "ABSENT",
  pending <- st.config,
  told    <- st.told,
  dynamic <- st.dynamic

(* It leads the life InterfaceLifecycle promises, its end of teardowns       *)
(* included.                                                                 *)
ImplementsLifecycle == Lifecycle!FairSpec
=============================================================================
