--------------------------- MODULE WirelessDevice ---------------------------
(***************************************************************************)
(* One wireless device (wireless.c): the scripts that set it up and tear   *)
(* it down, retries, the cancellation of a set-up that a new configuration *)
(* has overtaken, the processes the scripts leave behind, and the networks *)
(* that are told of its interfaces.  As in InterfaceShell each callback of *)
(* uloop is an action, and the calls it makes are operators from a state   *)
(* to a state.                                                             *)
(***************************************************************************)
EXTENDS Integers

CONSTANTS
  Vifs,           \* the wireless interfaces it may be configured with
  Procs,          \* the processes its scripts may register
  SetupRetry,     \* WIRELESS_SETUP_RETRY
  ForkOutcomes    \* whether netifd_start_process can fail

ASSUME WirelessAssumption ==
  /\ SetupRetry \in Nat
  /\ ForkOutcomes \in SUBSET BOOLEAN /\ TRUE \in ForkOutcomes

VARIABLE wdev

(* struct wireless_device.  The configuration (its own and that of its      *)
(* interfaces) is compared with the one the last set-up was given: `same`   *)
(* says whether it still is that one, `prev` whether prev_config is.        *)
(* `linked` holds the interfaces whose network has been told that they are  *)
(* up.  For the properties, `undoes` says whether the last teardown script  *)
(* was given the configuration to undo, `tries` counts the set-ups since    *)
(* somebody last asked for one, and `lost` says that the fork for the       *)
(* set-up or teardown in progress failed, which the code does not look at.  *)
State ==
  [alive       : BOOLEAN,
   state       : {"SETUP", "UP", "TEARDOWN", "DOWN"},
   config      : {"NORMAL", "RELOAD", "REMOVE"},
   autostart   : BOOLEAN,
   disabled    : BOOLEAN,
   retry       : -1 .. SetupRetry,
   failed      : BOOLEAN,
   cancel      : BOOLEAN,
   timer       : BOOLEAN,
   script      : {"none", "setup", "teardown"},
   vifs        : SUBSET Vifs,
   named       : SUBSET Vifs,
   linked      : SUBSET Vifs,
   procs       : SUBSET Procs,
   required    : SUBSET Procs,
   dead        : SUBSET Procs,
   pipe        : BOOLEAN,
   check       : BOOLEAN,
   killrequest : BOOLEAN,
   same        : BOOLEAN,
   prev        : {"none", "same", "other"},
   undoes      : BOOLEAN,
   lost        : BOOLEAN,
   tries       : 0 .. SetupRetry + 2]

(* Whether fork succeeds, and whether the configuration is being loaded.    *)
Env == [fork : ForkOutcomes, init : {FALSE}]
Loading(e) == [e EXCEPT !.init = TRUE]

Gone ==
  [alive |-> FALSE, state |-> "DOWN", config |-> "NORMAL",
   autostart |-> FALSE, disabled |-> FALSE, retry |-> 0, failed |-> FALSE,
   cancel |-> FALSE, timer |-> FALSE, script |-> "none",
   vifs |-> {}, named |-> {}, linked |-> {},
   procs |-> {}, required |-> {}, dead |-> {}, pipe |-> FALSE,
   check |-> FALSE, killrequest |-> FALSE,
   same |-> FALSE, prev |-> "none", undoes |-> TRUE, lost |-> FALSE,
   tries |-> 0]

-----------------------------------------------------------------------------
(* The processes.                                                           *)

(* Fault: the request is left to the end of the teardown. *)
ProcessFreeQuietly(w, ps) ==
  [w EXCEPT !.procs = @ \ ps, !.required = @ \ ps, !.dead = @ \ ps]

(* wireless_process_free of each of ps; the last one answers the request.   *)
ProcessFree(w, ps) ==
  LET left == w.procs \ ps
  IN [w EXCEPT !.procs = left, !.required = @ \ ps, !.dead = @ \ ps,
               !.killrequest = @ /\ ~(ps # {} /\ left = {})]

(* wireless_process_kill_all: those that have ended are freed, or all. *)
ProcessKillAll(w, free) ==
  IF free THEN [ProcessFree(w, w.procs) EXCEPT !.pipe = FALSE]
  ELSE ProcessFree(w, w.dead)

-----------------------------------------------------------------------------
(* Set-up and teardown.                                                     *)

Count(n) == IF n < SetupRetry + 2 THEN n + 1 ELSE n

RunSetup(w, e) ==
  [w EXCEPT !.state = "SETUP", !.script = IF e.fork THEN "setup" ELSE "none",
            !.pipe = TRUE, !.same = TRUE, !.prev = "none",
            !.lost = ~e.fork, !.tries = Count(@)]

(* The teardown is given prev_config if there is one, and uses it up. *)
RunTeardown(w, e) ==
  [w EXCEPT !.state = "TEARDOWN",
            !.script = IF e.fork THEN "teardown" ELSE "none", !.lost = ~e.fork,
            !.undoes = IF w.prev = "none" THEN w.same ELSE w.prev = "same",
            !.prev = "none"]

SetUp(w, e) ==
  IF \/ w.disabled \/ w.failed \/ ~w.autostart
     \/ w.state # "DOWN" \/ e.init
  THEN w ELSE RunSetup(w, e)

SetupCancel(w) ==
  IF w.cancel THEN w ELSE [w EXCEPT !.cancel = TRUE, !.timer = TRUE]

SetDown(w, e) ==
  CASE w.state \in {"TEARDOWN", "DOWN"} -> w
    [] w.state \in {"SETUP", "UP"} /\ w.script # "none" -> SetupCancel(w)
    [] OTHER -> RunTeardown(w, e)

(* Fault: only a reload starts the device again. *)
HandleConfigChangeOnce(w, e) ==
  CASE w.config = "REMOVE" -> Gone
    [] w.config = "RELOAD" -> [SetUp(w, e) EXCEPT !.config = "NORMAL"]
    [] OTHER -> w

HandleConfigChange(w, e) ==
  IF w.config = "REMOVE" THEN Gone
  ELSE [SetUp(w, e) EXCEPT !.config = "NORMAL"]

FreeState(w) ==
  [w EXCEPT !.check = FALSE, !.timer = FALSE, !.killrequest = FALSE,
            !.named = {}, !.lost = FALSE]

(* Fault: the names are dropped first. *)
MarkDownNameless(w, e) ==
  LET t == FreeState([w EXCEPT !.cancel = FALSE, !.state = "DOWN"])
  IN HandleConfigChange(
       ProcessKillAll([t EXCEPT !.linked = @ \ t.named], TRUE), e)

(* The networks are told while the interfaces still have their names. *)
MarkDown(w, e) ==
  LET t == ProcessKillAll([w EXCEPT !.linked = @ \ w.named], TRUE)
  IN HandleConfigChange(
       FreeState([t EXCEPT !.cancel = FALSE, !.state = "DOWN"]), e)

(* A set-up that was cancelled is torn down, or cancelled again while its   *)
(* script still runs.                                                       *)
MarkUp(w, e) ==
  IF w.cancel THEN SetDown([w EXCEPT !.cancel = FALSE], e)
  ELSE [w EXCEPT !.state = "UP", !.linked = @ \union w.named, !.lost = FALSE]

(* Fault: compared before it is decremented. *)
RetrySetupLate(w, e) ==
  IF w.state \in {"TEARDOWN", "DOWN"} \/ w.cancel THEN w
  ELSE SetDown([w EXCEPT !.retry = IF @ < 0 THEN @ ELSE @ - 1,
                         !.failed = @ \/ w.retry < 0], e)

(* `retry` below -1 is as good as -1. *)
RetrySetup(w, e) ==
  IF w.state \in {"TEARDOWN", "DOWN"} \/ w.cancel THEN w
  ELSE SetDown([w EXCEPT !.retry = IF @ < 0 THEN @ ELSE @ - 1,
                         !.failed = @ \/ w.retry <= 0], e)

(* Fault: a set-up that ends without an answer goes unheeded. *)
TaskFinishUnheeded(w, e) ==
  IF w.state = "TEARDOWN" THEN MarkDown(w, e) ELSE w

TaskFinish(w, e) ==
  CASE w.state = "SETUP" -> RetrySetup(w, e)
    [] w.state = "TEARDOWN" -> MarkDown(w, e)
    [] OTHER -> w

SetConfigState(w, c, e) ==
  LET t == [w EXCEPT !.config = c]
  IN CASE w.config # "NORMAL" -> w
       [] w.config = "NORMAL" /\ w.state = "DOWN" -> HandleConfigChange(t, e)
       [] OTHER -> SetDown(t, e)

-----------------------------------------------------------------------------
(* Configuration: config_init_wireless, with wireless_start_pending.        *)

Init == wdev = Gone

Create(e) ==
  /\ ~wdev.alive
  /\ \E vs \in SUBSET Vifs, d \in BOOLEAN :
       wdev' = SetUp([Gone EXCEPT !.alive = TRUE, !.autostart = TRUE,
                        !.disabled = d, !.retry = SetupRetry, !.vifs = vs], e)

(* Fault: the latest configuration is kept instead of the first. *)
PreparePrevConfigAgain(w) == [w EXCEPT !.prev = IF w.same THEN "same" ELSE "other"]

PreparePrevConfig(w) ==
  IF w.prev # "none" THEN w
  ELSE [w EXCEPT !.prev = IF w.same THEN "same" ELSE "other"]

(* wdev_change_config: d is the new `disabled`; changed, whether the other  *)
(* options differ; back, whether they are those of the last set-up again.   *)
ChangeConfig(w, d, changed, back, e) ==
  LET p == PreparePrevConfig(w)
      t == [p EXCEPT !.disabled = d, !.failed = FALSE, !.tries = 0,
                     !.same = IF changed THEN back ELSE @]
  IN IF ~changed /\ d = w.disabled THEN p ELSE SetConfigState(t, "RELOAD", e)

(* vif_update for the interfaces in `off`, deleted or changed, and those in *)
(* vs that are new: the networks of the former lose their link first.       *)
UpdateVifs(w, vs, off, back, e) ==
  LET t == [w EXCEPT !.vifs = vs, !.linked = @ \ (w.named \intersect off),
                     !.named = @ \intersect vs, !.tries = 0,
                     !.same = back]
  IN IF off = {} /\ vs = w.vifs THEN w ELSE SetConfigState(t, "RELOAD", e)

Reload(e) ==
  /\ wdev.alive
  /\ \E vs, edited \in SUBSET Vifs, d, changed, back \in BOOLEAN :
       LET off == (wdev.vifs \ vs) \union (wdev.vifs \intersect edited)
           t   == ChangeConfig(wdev, d, changed, back, Loading(e))
       IN wdev' = SetUp(UpdateVifs(t, vs, off, back, Loading(e)), e)

(* The device is not in the configuration; its interfaces (vs excepted, if  *)
(* sections that name it are left) are flushed after it.                    *)
Remove(e) ==
  /\ wdev.alive
  /\ \E vs \in SUBSET wdev.vifs :
       LET t == SetConfigState(wdev, "REMOVE", Loading(e))
       IN wdev' = IF t.alive
                  THEN SetUp(UpdateVifs(t, vs, t.vifs \ vs, FALSE, Loading(e)), e)
                  ELSE t

-----------------------------------------------------------------------------
(* ubus network.wireless: up, down, and the notifications of the scripts.   *)

WirelessUp(e) ==
  /\ wdev.alive
  /\ wdev' = SetUp([wdev EXCEPT !.retry = SetupRetry, !.autostart = TRUE,
                                !.tries = 0], e)

WirelessDown(e) ==
  /\ wdev.alive
  /\ wdev' = SetDown([wdev EXCEPT !.failed = FALSE, !.autostart = FALSE], e)

NotifyUp(e) ==
  wdev.alive /\ wdev.state = "SETUP" /\ wdev' = MarkUp(wdev, e)

NotifySetData ==
  /\ wdev.alive
  /\ \E v \in wdev.vifs \ wdev.named : wdev' = [wdev EXCEPT !.named = @ \union {v}]

(* wireless_device_add_process, by the set-up script. *)
NotifyProcessAdd ==
  /\ wdev.alive /\ wdev.script = "setup"
  /\ \E p \in Procs \ wdev.procs, r \in BOOLEAN :
       wdev' = [wdev EXCEPT !.procs = @ \union {p}, !.check = TRUE,
                            !.required = IF r THEN @ \union {p} ELSE @]

NotifyProcessKillAll ==
  /\ wdev.alive /\ wdev.state = "TEARDOWN" /\ ~wdev.killrequest
  /\ \E immediate \in BOOLEAN :
       LET t == ProcessKillAll(wdev, immediate)
       IN wdev' = [t EXCEPT !.killrequest = t.procs # {}]

NotifySetRetry ==
  /\ wdev.alive
  /\ \E n \in 0 .. SetupRetry : wdev' = [wdev EXCEPT !.retry = n, !.tries = 0]

-----------------------------------------------------------------------------
(* Children and timers.                                                     *)

ScriptExits(e) ==
  /\ wdev.script # "none"
  /\ wdev' = TaskFinish([wdev EXCEPT !.script = "none"], e)

(* Fault: left to the task's callback, as the end of a script is. *)
SetupTimeoutOnce(e) ==
  /\ wdev.timer
  /\ wdev' = TaskFinish([wdev EXCEPT !.timer = FALSE, !.script = "none"], e)

(* wireless_device_setup_timeout marks the device down after the task's     *)
(* callback.  In TEARDOWN that callback has done so already: a set-up it    *)
(* has started is killed before its script runs and started again, and a    *)
(* device it has freed is gone, whatever is then done to its memory.        *)
SetupTimeout(e) ==
  /\ wdev.timer
  /\ LET t == TaskFinish([wdev EXCEPT !.timer = FALSE, !.script = "none"], e)
     IN wdev' = CASE ~t.alive -> t
                  [] t.alive /\ wdev.state = "TEARDOWN" ->
                       [MarkDown(t, e) EXCEPT !.tries = t.tries]
                  [] OTHER -> MarkDown(t, e)

ProcessDies ==
  \E p \in wdev.procs \ wdev.dead : wdev' = [wdev EXCEPT !.dead = @ \union {p}]

(* wireless_proc_poll_fd: the set-up script and all the processes it has    *)
(* started are gone, so that the last writer of the pipe is.                *)
PipeCloses ==
  /\ wdev.pipe /\ wdev.script # "setup" /\ wdev.procs \subseteq wdev.dead
  /\ wdev' = [wdev EXCEPT !.pipe = FALSE, !.check = TRUE]

(* wireless_device_check_script_tasks: the timer is not set again when a    *)
(* required process has ended.                                              *)
CheckScriptTasks(e) ==
  /\ wdev.check
  /\ LET t == ProcessFree(wdev, wdev.dead)
     IN wdev' = IF wdev.required \intersect wdev.dead # {}
                THEN RetrySetup([t EXCEPT !.check = FALSE], e)
                ELSE t

-----------------------------------------------------------------------------
Configuration(e) ==
  Create(e) \/ Reload(e) \/ Remove(e) \/ WirelessUp(e) \/ WirelessDown(e)

Notifications(e) ==
  \/ NotifyUp(e) \/ NotifySetData \/ NotifyProcessAdd
  \/ NotifyProcessKillAll \/ NotifySetRetry

Events(e) ==
  \/ ScriptExits(e) \/ SetupTimeout(e) \/ ProcessDies \/ PipeCloses
  \/ CheckScriptTasks(e)

Next == \E e \in Env : Configuration(e) \/ Notifications(e) \/ Events(e)

Spec == Init /\ [][Next]_wdev

(* A script ends, but the teardown script waits for the answer to its       *)
(* request to kill the processes; those die of the signal; uloop runs every *)
(* timer that has expired and reports the end of the pipe.                  *)
Fairness ==
  /\ WF_wdev(~wdev.killrequest /\ \E e \in Env : ScriptExits(e))
  /\ WF_wdev(\E e \in Env : SetupTimeout(e))
  /\ WF_wdev(wdev.killrequest /\ ProcessDies)
  /\ WF_wdev(PipeCloses)
  /\ WF_wdev(\E e \in Env : CheckScriptTasks(e))

FairSpec == Spec /\ Fairness

-----------------------------------------------------------------------------
(* Every field keeps to the C type it stands for. *)
TypeOK == wdev \in State

(* A set-up or teardown in progress has a script whose end will be noticed, *)
(* or the timer of a cancellation; only when fork failed it has neither.    *)
Attended ==
  /\ wdev.state = "SETUP" => wdev.script = "setup" \/ wdev.cancel \/ wdev.lost
  /\ wdev.state = "TEARDOWN" => wdev.script = "teardown" \/ wdev.lost
  /\ wdev.cancel => wdev.timer

(* A device that is to be up is never left DOWN: whoever takes the last     *)
(* obstacle away also starts it, configuration loading included.            *)
NeverForgotten ==
  wdev.alive /\ wdev.state = "DOWN" =>
    wdev.disabled \/ wdev.failed \/ ~wdev.autostart

(* A network that has been told of a wireless interface is told of its end  *)
(* before the device is DOWN or set up again, before the interface loses    *)
(* its name and before it is deleted.                                       *)
LinksEnd ==
  /\ wdev.linked # {} => wdev.state \in {"UP", "TEARDOWN"}
  /\ wdev.linked \subseteq wdev.named \intersect wdev.vifs

(* The teardown script is given the configuration that was set up, however  *)
(* often it has changed meanwhile (a device that is being removed has lost  *)
(* its interfaces, and is excused).                                         *)
TeardownUndoes ==
  wdev.state = "TEARDOWN" /\ wdev.config # "REMOVE" => wdev.undoes

(* A device that cannot be set up is tried SetupRetry times again, not for  *)
(* ever, whether its scripts fail or its processes die (and every field     *)
(* keeps its type, `retry` among them).                                     *)
RetriesBounded == TypeOK /\ wdev.tries <= SetupRetry + 1

(* A reload or removal that is put off is carried out, unless the fork of   *)
(* the teardown that it waits for failed.                                   *)
RequestHappens ==
  wdev.config # "NORMAL" ~> wdev.config = "NORMAL" \/ (wdev.state = "TEARDOWN" /\ wdev.lost)

(* The teardown script is not left waiting for its processes.               *)
KillIsAnswered == wdev.killrequest ~> ~wdev.killrequest
=============================================================================
