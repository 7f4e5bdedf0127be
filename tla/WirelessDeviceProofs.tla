------------------------ MODULE WirelessDeviceProofs ------------------------
(***************************************************************************)
(* Proofs about WirelessDevice: its type, and its safety properties, for   *)
(* every set of interfaces and processes, every number of retries, and     *)
(* with fork failing or not.                                               *)
(***************************************************************************)
EXTENDS WirelessDevice, TLAPS

(***************************************************************************)
(* The inductive invariant, as predicates of a state so that they can be   *)
(* stated of what a call in the middle of a callback finds.                *)
(***************************************************************************)

(* Of a script that ends or a timer that expires this is what is left.      *)
Watched(w) ==
  /\ w.state = "SETUP" => w.script = "setup" \/ w.cancel \/ w.lost
  /\ w.state = "TEARDOWN" => w.script = "teardown" \/ w.lost

Timed(w) ==
  /\ ~w.alive => w.state = "DOWN" /\ ~w.autostart
  /\ w.cancel => w.timer /\ w.state # "DOWN"
  /\ w.timer => w.cancel \/ w.state = "TEARDOWN"

Named(w) == w.linked \subseteq w.named /\ w.named \subseteq w.vifs
Linked(w) == Named(w) /\ (w.linked # {} => w.state \in {"UP", "TEARDOWN"})

(* What a teardown will be given: the configuration that was set up, in     *)
(* prev_config as soon as a reload is pending.                              *)
Undoable(w) ==
  /\ w.state \in {"SETUP", "UP"} /\ w.config # "REMOVE" =>
       w.prev # "other" /\ (w.prev = "none" => w.same)
  /\ w.state \in {"SETUP", "UP"} /\ w.config = "RELOAD" => w.prev = "same"
  /\ w.state = "TEARDOWN" /\ w.config # "REMOVE" => w.undoes
  /\ w.state = "DOWN" => w.config = "NORMAL"

(* Every set-up made since one was asked for is paid for by a retry, but    *)
(* for the first; the one in progress is as long as it has not failed.      *)
Left(w) == IF w.retry < 0 THEN 0 ELSE w.retry
Again(w) == w.autostart /\ ~w.failed /\ w.config # "REMOVE"
Paid(w) == Again(w) => w.tries + Left(w) <= SetupRetry
Counted(w) ==
  /\ w.tries <= SetupRetry + 1
  /\ Again(w) => w.tries + Left(w) <= SetupRetry + 1
  /\ w.state \in {"TEARDOWN", "DOWN"} \/ w.cancel => Paid(w)

Woken(w) ==
  w.alive /\ w.state = "DOWN" => w.disabled \/ w.failed \/ ~w.autostart

Core(w) ==
  w \in State /\ Watched(w) /\ Timed(w) /\ Linked(w) /\ Undoable(w) /\ Counted(w)

IInv == Core(wdev) /\ Woken(wdev)

Envs == [fork : BOOLEAN, init : BOOLEAN]

LEMMA EnvIs == \A e \in Env : e \in Envs /\ ~e.init /\ Loading(e) \in Envs /\ Loading(e).init
  BY WirelessAssumption DEF Env, Envs, Loading

LEMMA RetryNat == SetupRetry \in Nat
  BY WirelessAssumption

(***************************************************************************)
(* The processes are no part of the invariant but for its type.            *)
(***************************************************************************)

Unprocessed(w, t) ==
  /\ t \in State
  /\ t.alive = w.alive /\ t.state = w.state /\ t.config = w.config
  /\ t.autostart = w.autostart /\ t.disabled = w.disabled
  /\ t.retry = w.retry /\ t.failed = w.failed /\ t.tries = w.tries
  /\ t.cancel = w.cancel /\ t.timer = w.timer
  /\ t.script = w.script /\ t.lost = w.lost
  /\ t.vifs = w.vifs /\ t.named = w.named /\ t.linked = w.linked
  /\ t.same = w.same /\ t.prev = w.prev /\ t.undoes = w.undoes

LEMMA ProcessFreeKeeps ==
  ASSUME NEW w \in State, NEW ps
  PROVE  Unprocessed(w, ProcessFree(w, ps))
  BY ZenonT(60) DEF State, ProcessFree, Unprocessed

LEMMA KillAllKeeps ==
  ASSUME NEW w \in State, NEW free \in BOOLEAN
  PROVE  Unprocessed(w, ProcessKillAll(w, free))
  <1> DEFINE t == ProcessFree(w, w.procs)
  <1>1. Unprocessed(w, t) /\ Unprocessed(w, ProcessFree(w, w.dead))
    BY ProcessFreeKeeps
  <1> HIDE DEF t
  <1>2. Unprocessed(w, [t EXCEPT !.pipe = FALSE])
    BY <1>1, ZenonT(60) DEF State, Unprocessed
  <1> QED BY <1>1, <1>2 DEF ProcessKillAll, t

LEMMA UnprocessedCore ==
  ASSUME NEW w \in State, NEW t, Unprocessed(w, t), Core(w)
  PROVE  Core(t) /\ (Woken(w) => Woken(t))
  <1>1. Watched(t) /\ Timed(t) /\ Undoable(t) /\ (Woken(w) => Woken(t))
    BY DEF Unprocessed, Core, Watched, Timed, Undoable, Woken
  <1>2. Linked(t)
    BY DEF Unprocessed, Core, Linked, Named
  <1>3. Counted(t)
    BY DEF Unprocessed, Core, Counted, Paid, Again, Left
  <1> QED BY <1>1, <1>2, <1>3 DEF Core, Unprocessed

(***************************************************************************)
(* The calls.                                                              *)
(***************************************************************************)

(* wireless_device_setup: from DOWN it may start a set-up, which must have  *)
(* been paid for.                                                           *)
LEMMA SetUpKeeps ==
  ASSUME NEW w, Core(w), NEW e \in Envs
  PROVE  Core(SetUp(w, e)) /\ (~e.init => Woken(SetUp(w, e)))
  <1> DEFINE t == RunSetup(w, e)
  <1>1. w \in State
    BY DEF Core
  <1>2. CASE SetUp(w, e) = w
    <2>1. Woken(w) \/ e.init
      BY <1>2, <1>1, RetryNat, ZenonT(60) DEF SetUp, RunSetup, Woken, State
    <2> QED BY <1>2, <2>1
  <1>3. CASE SetUp(w, e) # w
    <2>1. /\ SetUp(w, e) = t
          /\ w.state = "DOWN" /\ ~w.failed /\ w.autostart
      BY <1>3 DEF SetUp
    <2>2. w.config = "NORMAL" /\ ~w.cancel /\ ~w.timer /\ w.linked = {}
      BY <2>1, <1>1 DEF Core, Undoable, Timed, Linked, State
    <2>3. w.tries + Left(w) <= SetupRetry
      BY <2>1, <2>2 DEF Core, Counted, Paid, Again
    <2>4. Left(w) \in Nat /\ w.tries \in Nat /\ w.tries <= SetupRetry
      BY <2>3, <1>1, RetryNat DEF Left, State
    <2>5. Count(w.tries) = w.tries + 1
      BY <2>4, RetryNat DEF Count
    <2>6. t \in State
      <3> DEFINE s == IF e.fork THEN "setup" ELSE "none"
                 b == ~e.fork
                 n == Count(w.tries)
      <3>1. s \in {"none", "setup", "teardown"} /\ b \in BOOLEAN
        BY DEF Envs
      <3>2. n \in 0 .. SetupRetry + 2
        BY <2>4, <2>5, RetryNat
      <3>3. t = [w EXCEPT !.state = "SETUP", !.script = s, !.pipe = TRUE, !.same = TRUE,
                          !.prev = "none", !.lost = b, !.tries = n]
        BY DEF RunSetup
      <3> HIDE DEF s, b, n, t
      <3> QED BY <1>1, <3>1, <3>2, <3>3, ZenonT(60) DEF State
    <2>7. Left(t) = Left(w) /\ t.tries = w.tries + 1
      BY <1>1, <2>5 DEF RunSetup, Left, State
    <2>8. Counted(t)
      BY <1>1, <2>2, <2>3, <2>4, <2>7, RetryNat DEF RunSetup, Counted, State
    <2>9. Watched(t) /\ Timed(t) /\ Undoable(t) /\ Woken(t)
      <3>1. Watched(t) /\ Undoable(t) /\ Woken(t)
        BY <1>1, <2>2 DEF RunSetup, Watched, Undoable, Woken, State, Envs
      <3>2. /\ t.alive = w.alive /\ t.autostart = w.autostart
            /\ t.cancel = w.cancel /\ t.timer = w.timer
        BY <1>1 DEF RunSetup, State
      <3>3. w.alive
        BY <2>1 DEF Core, Timed
      <3>4. Timed(t)
        BY <2>2, <3>2, <3>3 DEF Timed
      <3> QED BY <3>1, <3>4
    <2>10. Linked(t)
      BY <1>1, <2>2 DEF Core, Linked, Named, RunSetup, State
    <2> QED BY <2>1, <2>6, <2>8, <2>9, <2>10 DEF Core
  <1> QED BY <1>2, <1>3

(* wireless_device_setdown: cancels a set-up whose script still runs, and   *)
(* starts the teardown otherwise, even if the set-up has been cancelled.    *)
LEMMA SetDownKeeps ==
  ASSUME NEW w \in State, Timed(w), Linked(w), Undoable(w), Counted(w), Paid(w),
         w.state = "TEARDOWN" => Watched(w),
         NEW e \in Envs
  PROVE  /\ Core(SetDown(w, e))
         /\ Woken(w) => Woken(SetDown(w, e))
         /\ w.state # "DOWN" => SetDown(w, e).state # "DOWN"
         /\ SetDown(w, e).alive = w.alive
         /\ SetDown(w, e).named = w.named /\ SetDown(w, e).vifs = w.vifs
         /\ SetDown(w, e).config = w.config
  <1>1. CASE w.state \in {"TEARDOWN", "DOWN"}
    BY <1>1 DEF SetDown, Core, Watched
  <1>2. CASE w.state \in {"SETUP", "UP"} /\ w.script # "none"
    <2> DEFINE t == SetupCancel(w)
    <2>1. SetDown(w, e) = t
      BY <1>2 DEF SetDown
    <2>2. t \in State /\ t.cancel /\ t.timer /\ t.state = w.state
      <3>1. CASE w.cancel
        BY <3>1 DEF SetupCancel, Timed, State
      <3>2. CASE ~w.cancel
        <4> t = [w EXCEPT !.cancel = TRUE, !.timer = TRUE]
          BY <3>2 DEF SetupCancel
        <4> HIDE DEF t
        <4> QED BY DEF State
      <3> QED BY <3>1, <3>2
    <2>6. Watched(t) /\ Timed(t) /\ Undoable(t)
      <3>1. Watched(t) /\ Timed(t)
        <4>1. t.alive = w.alive
          BY DEF SetupCancel, State
        <4>2. w.alive
          BY <1>2 DEF Timed
        <4> QED BY <1>2, <2>2, <4>1, <4>2 DEF Watched, Timed
      <3>2. t.config = w.config /\ t.prev = w.prev /\ t.same = w.same
        BY DEF SetupCancel, State
      <3> QED BY <1>2, <2>2, <3>1, <3>2 DEF Undoable
    <2>3. Linked(t)
      BY <1>2 DEF SetupCancel, State, Linked, Named
    <2>4. Counted(t)
      BY DEF SetupCancel, State, Counted, Paid, Again, Left
    <2>5. /\ Woken(w) => Woken(t)
          /\ t.alive = w.alive /\ t.named = w.named /\ t.vifs = w.vifs /\ t.config = w.config
      BY DEF SetupCancel, State, Woken
    <2> QED BY <1>2, <2>1, <2>2, <2>3, <2>4, <2>5, <2>6 DEF Core
  <1>3. CASE w.state \in {"SETUP", "UP"} /\ w.script = "none"
    <2> DEFINE t == RunTeardown(w, e)
    <2>1. SetDown(w, e) = t
      BY <1>3 DEF SetDown
    <2>2. t \in State
      <3> DEFINE s == IF e.fork THEN "teardown" ELSE "none"
                 b == ~e.fork
                 v == IF w.prev = "none" THEN w.same ELSE w.prev = "same"
      <3>1. s \in {"none", "setup", "teardown"} /\ b \in BOOLEAN
        BY DEF Envs
      <3>2. v \in BOOLEAN
        BY DEF State
      <3>3. t = [w EXCEPT !.state = "TEARDOWN", !.script = s, !.lost = b, !.undoes = v,
                          !.prev = "none"]
        BY DEF RunTeardown
      <3> HIDE DEF s, b, v, t
      <3> QED BY <3>1, <3>2, <3>3, ZenonT(60) DEF State
    <2>7. Watched(t) /\ Timed(t) /\ Woken(t) /\ t.state = "TEARDOWN"
      BY <1>3 DEF RunTeardown, State, Watched, Timed, Woken, Envs
    <2>3. Linked(t)
      BY <1>3 DEF RunTeardown, State, Linked, Named
    <2>4. Counted(t)
      BY DEF RunTeardown, State, Counted, Paid, Again, Left
    <2>5. Undoable(t)
      BY <1>3 DEF RunTeardown, State, Undoable
    <2>6. t.alive = w.alive /\ t.named = w.named /\ t.vifs = w.vifs /\ t.config = w.config
      BY DEF RunTeardown, State
    <2> QED BY <2>1, <2>2, <2>3, <2>4, <2>5, <2>6, <2>7 DEF Core
  <1> QED BY <1>1, <1>2, <1>3 DEF State

LEMMA GoneIsFine == Core(Gone) /\ Woken(Gone)
  BY RetryNat DEF Gone, Core, State, Watched, Timed, Linked, Named, Undoable, Counted, Paid,
                  Again, Left, Woken

(* wdev_handle_config_change: what was put off is done, and the device is   *)
(* set up if it is to be.                                                   *)
LEMMA HandleConfigChangeKeeps ==
  ASSUME NEW w \in State, w.state = "DOWN", Timed(w), Linked(w), Counted(w), NEW e \in Envs
  PROVE  /\ Core(HandleConfigChange(w, e))
         /\ ~e.init => Woken(HandleConfigChange(w, e))
         /\ HandleConfigChange(w, e).alive =>
              /\ HandleConfigChange(w, e).config = "NORMAL"
              /\ HandleConfigChange(w, e).named = w.named
              /\ HandleConfigChange(w, e).vifs = w.vifs
  <1>1. CASE w.config = "REMOVE"
    BY <1>1, GoneIsFine DEF HandleConfigChange, Gone
  <1>2. CASE w.config # "REMOVE"
    <2> DEFINE t == [w EXCEPT !.config = "NORMAL"]
    <2>1. t \in State /\ Timed(t) /\ Undoable(t) /\ Watched(t)
      BY <1>2 DEF State, Timed, Undoable, Watched
    <2>2. Linked(t)
      BY DEF State, Linked, Named
    <2>3. Counted(t)
      BY <1>2 DEF State, Counted, Paid, Again, Left
    <2>4. Core(t)
      BY <2>1, <2>2, <2>3 DEF Core
    <2>5. [SetUp(w, e) EXCEPT !.config = "NORMAL"] = SetUp(t, e)
      BY ZenonT(60) DEF SetUp, RunSetup, State
    <2> HIDE DEF t
    <2>6. /\ SetUp(t, e).config = "NORMAL"
          /\ SetUp(t, e).named = w.named /\ SetUp(t, e).vifs = w.vifs
      BY DEF SetUp, RunSetup, State, t
    <2>7. Core(SetUp(t, e)) /\ (~e.init => Woken(SetUp(t, e)))
      BY <2>4, SetUpKeeps
    <2>8. HandleConfigChange(w, e) = SetUp(t, e)
      BY <1>2, <2>5 DEF HandleConfigChange
    <2> QED BY <2>6, <2>7, <2>8
  <1> QED BY <1>1, <1>2

(* wireless_device_mark_down: whatever the state was, the networks are told *)
(* and the processes killed before anything that was put off is done.        *)
AtRest(w, d) ==
  /\ d \in State /\ d.state = "DOWN" /\ ~d.cancel /\ ~d.timer
  /\ d.linked = {} /\ d.named = {} /\ d.vifs = w.vifs
  /\ d.alive = w.alive /\ d.autostart = w.autostart /\ d.disabled = w.disabled
  /\ d.failed = w.failed /\ d.retry = w.retry /\ d.tries = w.tries /\ d.config = w.config

LEMMA MarkDownIs ==
  ASSUME NEW w \in State, Named(w), NEW e \in Envs
  PROVE  \E d : AtRest(w, d) /\ MarkDown(w, e) = HandleConfigChange(d, e)
  <1> DEFINE u == [w EXCEPT !.linked = @ \ w.named]
             t == ProcessKillAll(u, TRUE)
             d == FreeState([t EXCEPT !.cancel = FALSE, !.state = "DOWN"])
  <1>1. u \in State /\ u.linked = {}
    BY DEF State, Named
  <1>2. Unprocessed(u, t)
    BY <1>1, KillAllKeeps
  <1>3. /\ u.tries = w.tries /\ u.retry = w.retry /\ u.autostart = w.autostart
        /\ u.failed = w.failed /\ u.config = w.config /\ u.vifs = w.vifs
        /\ u.alive = w.alive /\ u.disabled = w.disabled
    BY DEF State
  <1>4. MarkDown(w, e) = HandleConfigChange(d, e)
    BY DEF MarkDown
  <1> HIDE DEF u, t
  <1>5. t \in State /\ t.linked = {}
    BY <1>1, <1>2 DEF Unprocessed
  <1>6. /\ d \in State /\ d.state = "DOWN" /\ ~d.cancel /\ ~d.timer
        /\ d.linked = {} /\ d.named = {}
    <2> DEFINE c == [t EXCEPT !.cancel = FALSE, !.state = "DOWN"]
    <2>1. c \in State /\ c.linked = {} /\ c.state = "DOWN" /\ ~c.cancel
      BY <1>5, ZenonT(60) DEF State
    <2>2. d = FreeState(c)
      OBVIOUS
    <2> HIDE DEF c, d
    <2>3. d \in State
      BY <2>1, <2>2, ZenonT(60) DEF FreeState, State
    <2>4. /\ d.state = "DOWN" /\ ~d.cancel /\ ~d.timer
          /\ d.linked = {} /\ d.named = {}
      BY <2>1, <2>2 DEF FreeState, State
    <2> QED BY <2>3, <2>4
  <1>7. /\ d.tries = t.tries /\ d.retry = t.retry /\ d.autostart = t.autostart
        /\ d.failed = t.failed /\ d.config = t.config /\ d.vifs = t.vifs
        /\ d.alive = t.alive /\ d.disabled = t.disabled
    BY <1>5 DEF State, FreeState
  <1>8. AtRest(w, d)
    BY <1>2, <1>3, <1>6, <1>7 DEF Unprocessed, AtRest
  <1> QED BY <1>4, <1>8

LEMMA AtRestIs ==
  ASSUME NEW w \in State, NEW d, AtRest(w, d), w.alive
  PROVE  /\ Timed(d) /\ Linked(d)
         /\ Paid(w) /\ w.tries <= SetupRetry + 1 => Counted(d)
  <1>1. Timed(d) /\ Linked(d)
    BY DEF AtRest, Timed, Linked, Named
  <1>2. ASSUME Paid(w), w.tries <= SetupRetry + 1 PROVE Counted(d)
    BY <1>2, RetryNat DEF AtRest, Counted, Paid, Again, Left, State
  <1> QED BY <1>1, <1>2

LEMMA MarkDownKeeps ==
  ASSUME NEW w \in State, Named(w), w.alive, w.tries <= SetupRetry + 1, Paid(w), NEW e \in Envs
  PROVE  Core(MarkDown(w, e)) /\ (~e.init => Woken(MarkDown(w, e)))
  <1>1. PICK d : AtRest(w, d) /\ MarkDown(w, e) = HandleConfigChange(d, e)
    BY MarkDownIs
  <1> QED BY <1>1, AtRestIs, HandleConfigChangeKeeps DEF AtRest

(* wireless_device_mark_up: a cancelled set-up is cancelled again or torn    *)
(* down; it has been paid for by whoever cancelled it.                       *)
LEMMA MarkUpKeeps ==
  ASSUME NEW w, Core(w), w.state = "SETUP", NEW e \in Envs
  PROVE  Core(MarkUp(w, e)) /\ Woken(MarkUp(w, e))
  <1>0. w \in State
    BY DEF Core
  <1>1. CASE w.cancel
    <2> DEFINE t == [w EXCEPT !.cancel = FALSE]
    <2>1. t \in State /\ t.state = "SETUP" /\ ~t.cancel
      BY <1>0 DEF State
    <2>2. t.timer /\ Paid(t) /\ Linked(t) /\ Undoable(t)
      <3>1. Paid(w) /\ w.timer /\ Linked(w) /\ Undoable(w)
        BY <1>1 DEF Core, Counted, Timed
      <3>2. t.timer /\ Paid(t)
        BY <1>0, <3>1 DEF State, Paid, Again, Left
      <3>3. Linked(t) /\ Undoable(t)
        BY <1>0, <3>1 DEF State, Linked, Named, Undoable
      <3> QED BY <3>2, <3>3
    <2>3. CASE w.script = "none"
      <3>1. SetDown(t, e) = RunTeardown(t, e)
        BY <1>0, <2>1, <2>3 DEF SetDown, State
      <3>2. SetDown(w, e) = RunTeardown(w, e) /\ w.state = "SETUP"
        BY <2>3 DEF SetDown
      <3>3. Core(RunTeardown(w, e)) /\ RunTeardown(w, e).state # "DOWN"
        BY <1>0, <1>1, <3>2, SetDownKeeps DEF Core, Counted
      <3>4. RunTeardown(t, e) = [RunTeardown(w, e) EXCEPT !.cancel = FALSE]
        BY <1>0 DEF RunTeardown, State
      <3> DEFINE r == RunTeardown(w, e)
      <3>5. r.state = "TEARDOWN"
        BY <1>0 DEF RunTeardown, State
      <3> HIDE DEF r
      <3> DEFINE s == [r EXCEPT !.cancel = FALSE]
      <3>6. r \in State /\ Watched(r) /\ Timed(r) /\ Linked(r) /\ Undoable(r) /\ Counted(r)
        BY <3>3 DEF Core, r
      <3>7. s \in State /\ Watched(s) /\ Timed(s) /\ Woken(s)
        BY <3>5, <3>6, ZenonT(60) DEF State, Watched, Timed, Woken
      <3>8. Linked(s) /\ Undoable(s)
        BY <3>5, <3>6 DEF State, Linked, Named, Undoable
      <3>9. Counted(s)
        BY <3>5, <3>6 DEF State, Counted, Paid, Again, Left
      <3>10. MarkUp(w, e) = s
        BY <1>1, <3>1, <3>4 DEF MarkUp, r
      <3> HIDE DEF s
      <3> QED BY <3>7, <3>8, <3>9, <3>10 DEF Core
    <2>4. CASE w.script # "none"
      <3>1. MarkUp(w, e) = [t EXCEPT !.cancel = TRUE, !.timer = TRUE]
        BY <1>0, <1>1, <2>1, <2>4 DEF MarkUp, SetDown, SetupCancel, State
      <3>2. [t EXCEPT !.cancel = TRUE, !.timer = TRUE] = w
        <4>1. w.cancel = TRUE /\ w.timer = TRUE
          BY <1>0, <1>1 DEF Core, Timed, State
        <4> QED BY <1>0, <4>1 DEF State
      <3> QED BY <3>1, <3>2 DEF Woken
    <2> QED BY <2>3, <2>4
  <1>2. CASE ~w.cancel
    <2> DEFINE t == [w EXCEPT !.state = "UP", !.linked = @ \union w.named, !.lost = FALSE]
    <2>1. MarkUp(w, e) = t
      BY <1>2 DEF MarkUp
    <2>2. t \in State /\ Watched(t) /\ Woken(t)
      BY <1>0 DEF State, Watched, Woken
    <2>3. Linked(t) /\ Timed(t) /\ Undoable(t)
      <3>1. Timed(t) /\ Undoable(t)
        BY <1>0, <1>2 DEF Core, State, Timed, Undoable
      <3>2. Linked(t)
        BY <1>0 DEF Core, State, Linked, Named
      <3> QED BY <3>1, <3>2
    <2>4. Counted(t)
      BY <1>0, <1>2 DEF Core, State, Counted, Paid, Again, Left
    <2> QED BY <2>1, <2>2, <2>3, <2>4 DEF Core
  <1> QED BY <1>1, <1>2

(* wireless_device_retry_setup: pays for the next set-up with a retry, or    *)
(* has none left.                                                            *)
LEMMA RetrySetupKeeps ==
  ASSUME NEW w \in State, Timed(w), Linked(w), Undoable(w), Counted(w),
         w.state = "TEARDOWN" => Watched(w),
         NEW e \in Envs
  PROVE  /\ w.state = "SETUP" \/ Watched(w) => Core(RetrySetup(w, e))
         /\ Woken(w) => Woken(RetrySetup(w, e))
  <1>1. CASE w.state \in {"TEARDOWN", "DOWN"} \/ w.cancel
    BY <1>1 DEF RetrySetup, Core, Watched
  <1>2. CASE ~(w.state \in {"TEARDOWN", "DOWN"} \/ w.cancel)
    <2> DEFINE n == IF w.retry < 0 THEN w.retry ELSE w.retry - 1
               f == w.failed \/ w.retry <= 0
               t == [w EXCEPT !.retry = n, !.failed = f]
    <2>1. n \in -1 .. SetupRetry
      BY RetryNat DEF State
    <2>2. f \in BOOLEAN
      BY DEF State
    <2>3. RetrySetup(w, e) = SetDown(t, e)
      BY <1>2 DEF RetrySetup
    <2>4. t.retry = n /\ t.failed = f /\ t.tries = w.tries /\ t.autostart = w.autostart
          /\ t.config = w.config /\ t.state = w.state /\ t.cancel = w.cancel
      BY DEF State
    <2>5. Paid(t) /\ t.tries <= SetupRetry + 1
      <3>1. SUFFICES ASSUME Again(t) PROVE t.tries + Left(t) <= SetupRetry
        BY <2>4 DEF Paid, Counted
      <3>2. Again(w) /\ ~(w.retry <= 0)
        BY <2>4, <3>1 DEF Again
      <3>3. w.tries + w.retry <= SetupRetry + 1 /\ w.retry \in Int /\ w.tries \in Int /\ w.retry > 0
        BY <3>2, RetryNat DEF Counted, Left, State
      <3> QED BY <2>4, <3>3, RetryNat DEF Left
    <2>6. Counted(t)
      BY <2>1, <2>4, <2>5, RetryNat DEF Counted, Paid, Left, State
    <2> HIDE DEF n, f
    <2>7. t \in State /\ Timed(t) /\ Undoable(t) /\ (Woken(w) => Woken(t))
      BY <1>2, <2>1, <2>2, ZenonT(60) DEF State, Timed, Undoable, Woken
    <2>8. Linked(t)
      BY DEF State, Linked, Named
    <2> HIDE DEF t
    <2> QED BY <1>2, <2>3, <2>4, <2>5, <2>6, <2>7, <2>8, SetDownKeeps
  <1> QED BY <1>1, <1>2

(* wireless_device_script_task_cb, once the task is over.                    *)
LEMMA TaskFinishKeeps ==
  ASSUME NEW w \in State, Timed(w), Linked(w), Undoable(w), Counted(w), Woken(w),
         NEW e \in Envs, ~e.init
  PROVE  Core(TaskFinish(w, e)) /\ Woken(TaskFinish(w, e))
  <1>1. CASE w.state = "SETUP"
    BY <1>1, RetrySetupKeeps DEF TaskFinish
  <1>2. CASE w.state = "TEARDOWN"
    <2>1. w.alive
      BY <1>2 DEF Timed
    <2> QED BY <1>2, <2>1, MarkDownKeeps DEF TaskFinish, Linked, Counted
  <1>3. CASE w.state \in {"UP", "DOWN"}
    BY <1>3 DEF TaskFinish, Core, Watched
  <1> QED BY <1>1, <1>2, <1>3 DEF State

(* wireless_device_set_config_state: at once when DOWN, and else it waits.   *)
LEMMA SetConfigStateKeeps ==
  ASSUME NEW w, Core(w), NEW e \in Envs, NEW c \in {"RELOAD", "REMOVE"},
         c = "RELOAD" =>
           /\ Paid(w)
           /\ w.state \in {"SETUP", "UP"} /\ w.config = "NORMAL" => w.prev = "same"
  PROVE  LET t == SetConfigState(w, c, e)
         IN  /\ Core(t)
             /\ w.config # "NORMAL" => t = w
             /\ c = "RELOAD" => t.alive = w.alive /\ t.vifs = w.vifs
             /\ c = "RELOAD" /\ t.state \in {"SETUP", "UP"} =>
                  \/ t.config = "NORMAL" /\ w.state = "DOWN"
                  \/ w.config = "NORMAL" /\ t.prev = "same"
                  \/ t = w
             /\ c = "REMOVE" /\ w.config = "NORMAL" /\ t.alive => t.config = "REMOVE"
  <1> DEFINE u == [w EXCEPT !.config = c]
             t == SetConfigState(w, c, e)
  <1>0. w \in State
    BY DEF Core
  <1>1. CASE w.config # "NORMAL"
    BY <1>0, <1>1 DEF SetConfigState
  <1>2. CASE w.config = "NORMAL"
    <2>1. u \in State /\ Timed(u) /\ u.config = c /\ u.state = w.state /\ u.alive = w.alive
          /\ u.vifs = w.vifs /\ u.prev = w.prev
      BY <1>0 DEF Core, State, Timed
    <2>2. Linked(u)
      BY <1>0 DEF Core, State, Linked, Named
    <2>3. Paid(u) /\ Counted(u)
      BY <1>0, <1>2 DEF Core, State, Counted, Paid, Again, Left
    <2>4. Watched(u)
      BY <1>0 DEF Core, State, Watched
    <2>5. CASE w.state = "DOWN"
      <3>1. t = HandleConfigChange(u, e)
        BY <1>2, <2>5 DEF SetConfigState
      <3>2. Core(t)
        BY <2>1, <2>2, <2>3, <2>5, <3>1, HandleConfigChangeKeeps
      <3>3. ASSUME c = "RELOAD" PROVE t.alive = w.alive /\ t.vifs = w.vifs /\ t.config = "NORMAL"
        <4>1. t = [SetUp(u, e) EXCEPT !.config = "NORMAL"]
          BY <2>1, <3>1, <3>3 DEF HandleConfigChange
        <4>2. SetUp(u, e) = u \/ SetUp(u, e) = RunSetup(u, e)
          BY DEF SetUp
        <4> HIDE DEF t, u
        <4>3. CASE SetUp(u, e) = u
          BY <2>1, <4>1, <4>3 DEF State
        <4>4. CASE SetUp(u, e) = RunSetup(u, e)
          <5> DEFINE r == RunSetup(u, e)
          <5>1. t = [r EXCEPT !.config = "NORMAL"]
            BY <4>1, <4>4
          <5>2. [r EXCEPT !.config = "NORMAL"].config = "NORMAL"
                /\ [r EXCEPT !.config = "NORMAL"].alive = u.alive
                /\ [r EXCEPT !.config = "NORMAL"].vifs = u.vifs
            BY <2>1 DEF RunSetup, State
          <5> QED BY <2>1, <5>1, <5>2
        <4> QED BY <4>2, <4>3, <4>4
      <3>4. c = "REMOVE" => ~t.alive
        BY <2>1, <3>1 DEF HandleConfigChange, Gone
      <3> QED BY <1>2, <2>5, <3>2, <3>3, <3>4
    <2>6. CASE w.state # "DOWN"
      <3>1. t = SetDown(u, e)
        BY <1>2, <2>6 DEF SetConfigState
      <3>2. Undoable(u)
        BY <1>0, <1>2, <2>1, <2>6 DEF Core, Undoable, State
      <3> HIDE DEF u
      <3>3. Core(t) /\ t.alive = u.alive /\ t.vifs = u.vifs /\ t.config = u.config
        BY <2>1, <2>2, <2>3, <2>4, <3>1, <3>2, SetDownKeeps
      <3>4. c = "RELOAD" /\ t.state \in {"SETUP", "UP"} => t.prev = "same"
        BY <2>1, <3>3 DEF Core, Undoable
      <3> HIDE DEF t
      <3>5. /\ c = "REMOVE" => t.config = "REMOVE"
            /\ t.alive = w.alive /\ t.vifs = w.vifs
        BY <2>1, <3>3
      <3> QED BY <1>2, <3>3, <3>4, <3>5 DEF t
    <2> QED BY <2>5, <2>6
  <1> QED BY <1>1, <1>2

LEMMA PaidFromZero ==
  ASSUME NEW w \in State, w.tries = 0
  PROVE  /\ w.tries + Left(w) <= SetupRetry
         /\ w.tries + Left(w) <= SetupRetry + 1
         /\ w.tries <= SetupRetry + 1
  <1>1. Left(w) \in 0 .. SetupRetry
    BY RetryNat DEF State, Left
  <1> QED BY <1>1, RetryNat

(* vif_update and what follows from it: the interfaces that go or change     *)
(* lose their links first.                                                   *)
LEMMA UpdateVifsKeeps ==
  ASSUME NEW w, Core(w), w.alive, NEW e \in Envs, NEW vs \in SUBSET Vifs, NEW off,
         w.vifs \ vs \subseteq off, NEW back \in BOOLEAN,
         w.state \in {"SETUP", "UP"} /\ w.config # "REMOVE" => w.prev = "same"
  PROVE  Core(UpdateVifs(w, vs, off, back, e))
  <1> DEFINE t == [w EXCEPT !.vifs = vs, !.linked = @ \ (w.named \intersect off),
                            !.named = @ \intersect vs, !.tries = 0, !.same = back]
  <1>0. w \in State
    BY DEF Core
  <1>1. t \in State /\ Watched(t) /\ t.tries = 0
    <2>1. 0 \in 0 .. SetupRetry + 2
      BY RetryNat
    <2>2. t \in State
      BY <1>0, <2>1 DEF State
    <2>3. Watched(t) /\ t.tries = 0
      BY <1>0 DEF Core, State, Watched
    <2> QED BY <2>2, <2>3
  <1>2. Timed(t) /\ Undoable(t)
    BY <1>0 DEF Core, State, Timed, Undoable
  <1>3. Linked(t)
    BY <1>0 DEF Core, State, Linked, Named
  <1>4. t.prev = w.prev /\ t.state = w.state /\ t.config = w.config
    BY <1>0 DEF State
  <1> HIDE DEF t
  <1>5. Counted(t) /\ Paid(t)
    BY <1>1, PaidFromZero DEF Counted, Paid
  <1>6. Core(t)
    BY <1>1, <1>2, <1>3, <1>5 DEF Core
  <1>7. Core(SetConfigState(t, "RELOAD", e))
    BY <1>4, <1>5, <1>6, SetConfigStateKeeps
  <1> QED BY <1>7 DEF UpdateVifs, t

(* wdev_change_config: what is running, or being set up, can be undone       *)
(* whatever becomes of the configuration now.                                *)
LEMMA ChangeConfigKeeps ==
  ASSUME NEW w, Core(w), NEW e \in Envs, e.init,
         NEW d \in BOOLEAN, NEW changed \in BOOLEAN, NEW back \in BOOLEAN
  PROVE  LET t == ChangeConfig(w, d, changed, back, e)
         IN  /\ Core(t) /\ t.alive = w.alive /\ t.vifs = w.vifs
             /\ t.state \in {"SETUP", "UP"} /\ t.config # "REMOVE" => t.prev = "same"
  <1> DEFINE p == PreparePrevConfig(w)
             c == IF changed THEN back ELSE p.same
             t == [p EXCEPT !.disabled = d, !.failed = FALSE, !.tries = 0, !.same = c]
             s == SetConfigState(t, "RELOAD", e)
  <1>0. w \in State
    BY DEF Core
  <1>1. /\ Core(p) /\ p.alive = w.alive /\ p.vifs = w.vifs
        /\ p.state \in {"SETUP", "UP"} /\ p.config # "REMOVE" => p.prev = "same"
    <2>1. CASE w.prev # "none"
      BY <1>0, <2>1 DEF PreparePrevConfig, Core, Undoable, State
    <2>2. CASE w.prev = "none"
      <3> DEFINE v == IF w.same THEN "same" ELSE "other"
      <3>1. v \in {"same", "other"} /\ (w.same => v = "same")
        OBVIOUS
      <3>2. p = [w EXCEPT !.prev = v]
        BY <2>2 DEF PreparePrevConfig
      <3> HIDE DEF v, p
      <3>3. p \in State /\ Watched(p) /\ p.alive = w.alive /\ p.vifs = w.vifs
        BY <1>0, <3>1, <3>2 DEF Core, State, Watched
      <3>4. Timed(p) /\ Undoable(p)
        BY <1>0, <2>2, <3>1, <3>2 DEF Core, State, Timed, Undoable
      <3>5. Linked(p)
        BY <1>0, <3>2 DEF Core, State, Linked, Named
      <3>6. Counted(p)
        BY <1>0, <3>2 DEF Core, State, Counted, Paid, Again, Left
      <3>7. p.state \in {"SETUP", "UP"} /\ p.config # "REMOVE" => p.prev = "same"
        BY <1>0, <2>2, <3>1, <3>2 DEF Core, State, Undoable
      <3> QED BY <3>3, <3>4, <3>5, <3>6, <3>7 DEF Core
    <2> QED BY <2>1, <2>2
  <1>2. ChangeConfig(w, d, changed, back, e) = p \/ ChangeConfig(w, d, changed, back, e) = s
    BY DEF ChangeConfig
  <1> HIDE DEF p
  <1>3. p \in State
    BY <1>1 DEF Core
  <1>4. c \in BOOLEAN
    BY <1>3 DEF State
  <1> HIDE DEF c
  <1>5. /\ t \in State /\ Watched(t) /\ t.alive = w.alive /\ t.vifs = w.vifs /\ t.tries = 0
        /\ t.state = p.state /\ t.config = p.config /\ t.prev = p.prev
    <2>1. 0 \in 0 .. SetupRetry + 2
      BY RetryNat
    <2>2. t \in State
      BY <1>3, <1>4, <2>1 DEF State
    <2>3. /\ t.alive = p.alive /\ t.vifs = p.vifs /\ t.tries = 0 /\ t.script = p.script
          /\ t.cancel = p.cancel /\ t.lost = p.lost
          /\ t.state = p.state /\ t.config = p.config /\ t.prev = p.prev
      BY <1>3 DEF State
    <2> QED BY <1>1, <2>2, <2>3 DEF Core, Watched
  <1>6. Timed(t) /\ Undoable(t)
    BY <1>1, <1>3 DEF Core, State, Timed, Undoable
  <1>7. Linked(t)
    BY <1>1, <1>3 DEF Core, State, Linked, Named
  <1> HIDE DEF t
  <1>8. Counted(t) /\ Paid(t)
    BY <1>5, PaidFromZero DEF Counted, Paid
  <1>9. Core(t)
    BY <1>5, <1>6, <1>7, <1>8 DEF Core
  <1>10. /\ Core(s) /\ s.alive = w.alive /\ s.vifs = w.vifs
         /\ s.state \in {"SETUP", "UP"} /\ s.config # "REMOVE" => s.prev = "same"
    <2>1. t.state \in {"SETUP", "UP"} /\ t.config = "NORMAL" => t.prev = "same"
      BY <1>1, <1>5
    <2>2. Core(s) /\ s.alive = w.alive /\ s.vifs = w.vifs
      BY <1>5, <1>8, <1>9, <2>1, SetConfigStateKeeps
    <2>3. s.state \in {"SETUP", "UP"} /\ s.config # "REMOVE" => s.prev = "same"
      <3>1. CASE t.state = "DOWN"
        <4>1. s.state = "DOWN"
          <5>1. t.config = "NORMAL"
            BY <1>6, <3>1 DEF Undoable
          <5> DEFINE u == [t EXCEPT !.config = "RELOAD"]
          <5>2. u.state = "DOWN" /\ u.config = "RELOAD" /\ u \in State
            BY <1>5, <3>1 DEF State
          <5>3. s = HandleConfigChange(u, e)
            BY <3>1, <5>1 DEF SetConfigState
          <5>4. s = [u EXCEPT !.config = "NORMAL"]
            BY <5>2, <5>3 DEF HandleConfigChange, SetUp
          <5> QED BY <5>2, <5>4 DEF State
        <4> QED BY <4>1
      <3>2. CASE t.state # "DOWN"
        BY <1>1, <1>5, <1>8, <1>9, <2>1, <3>2, SetConfigStateKeeps
      <3> QED BY <3>1, <3>2
    <2> QED BY <2>2, <2>3
  <1> QED BY <1>1, <1>2, <1>10

(***************************************************************************)
(* The actions.                                                            *)
(***************************************************************************)

LEMMA CreateKeeps ==
  ASSUME IInv, NEW e \in Env, Create(e)
  PROVE  IInv'
  <1>1. PICK vs \in SUBSET Vifs, d \in BOOLEAN :
          wdev' = SetUp([Gone EXCEPT !.alive = TRUE, !.autostart = TRUE,
                           !.disabled = d, !.retry = SetupRetry, !.vifs = vs], e)
    BY DEF Create
  <1> DEFINE t == [Gone EXCEPT !.alive = TRUE, !.autostart = TRUE,
                     !.disabled = d, !.retry = SetupRetry, !.vifs = vs]
  <1>2. SetupRetry \in -1 .. SetupRetry
    BY RetryNat
  <1>3. t \in State
    BY <1>2, GoneIsFine DEF Core, State
  <1>4. /\ t.alive /\ t.state = "DOWN" /\ ~t.cancel /\ ~t.timer /\ t.config = "NORMAL"
        /\ t.linked = {} /\ t.named = {} /\ t.tries = 0
    BY DEF Gone
  <1> HIDE DEF t
  <1>5. Core(t)
    BY <1>3, <1>4, PaidFromZero DEF Core, Watched, Timed, Linked, Named, Undoable, Counted, Paid
  <1> QED BY <1>1, <1>5, EnvIs, SetUpKeeps DEF IInv, t

LEMMA ReloadKeeps ==
  ASSUME IInv, NEW e \in Env, Reload(e)
  PROVE  IInv'
  <1>1. PICK vs \in SUBSET Vifs, edited \in SUBSET Vifs,
             d \in BOOLEAN, changed \in BOOLEAN, back \in BOOLEAN :
          LET off == (wdev.vifs \ vs) \union (wdev.vifs \intersect edited)
              t   == ChangeConfig(wdev, d, changed, back, Loading(e))
          IN  wdev' = SetUp(UpdateVifs(t, vs, off, back, Loading(e)), e)
    BY DEF Reload
  <1> DEFINE off == (wdev.vifs \ vs) \union (wdev.vifs \intersect edited)
             t   == ChangeConfig(wdev, d, changed, back, Loading(e))
  <1>2. /\ Core(t) /\ t.alive /\ t.vifs = wdev.vifs
        /\ t.state \in {"SETUP", "UP"} /\ t.config # "REMOVE" => t.prev = "same"
    <2>1. Core(wdev) /\ wdev.alive
      BY DEF Reload, IInv
    <2> QED BY <2>1, EnvIs, ChangeConfigKeeps
  <1>3. t.vifs \ vs \subseteq off
    BY <1>2
  <1>4. wdev' = SetUp(UpdateVifs(t, vs, off, back, Loading(e)), e)
    BY <1>1
  <1> HIDE DEF t, off
  <1>5. Core(UpdateVifs(t, vs, off, back, Loading(e)))
    BY <1>2, <1>3, EnvIs, UpdateVifsKeeps
  <1> QED BY <1>4, <1>5, EnvIs, SetUpKeeps DEF IInv

LEMMA RemoveKeeps ==
  ASSUME IInv, NEW e \in Env, Remove(e)
  PROVE  IInv'
  <1> DEFINE t == SetConfigState(wdev, "REMOVE", Loading(e))
  <1>1. PICK vs \in SUBSET wdev.vifs :
          wdev' = IF t.alive
                  THEN SetUp(UpdateVifs(t, vs, t.vifs \ vs, FALSE, Loading(e)), e)
                  ELSE t
    BY DEF Remove
  <1>2. /\ Core(t)
        /\ wdev.config # "NORMAL" => t = wdev
        /\ wdev.config = "NORMAL" /\ t.alive => t.config = "REMOVE"
    BY EnvIs, SetConfigStateKeeps DEF IInv
  <1> HIDE DEF t
  <1>3. CASE ~t.alive
    BY <1>1, <1>2, <1>3 DEF IInv, Woken
  <1>4. CASE t.alive
    <2>1. t.state \in {"SETUP", "UP"} /\ t.config # "REMOVE" => t.prev = "same"
      BY <1>2, <1>4 DEF Core, Undoable, State
    <2>2. vs \in SUBSET Vifs
      BY DEF IInv, Core, State
    <2>3. Core(UpdateVifs(t, vs, t.vifs \ vs, FALSE, Loading(e)))
      BY <1>2, <1>4, <2>1, <2>2, EnvIs, UpdateVifsKeeps
    <2> QED BY <1>1, <1>4, <2>3, EnvIs, SetUpKeeps DEF IInv
  <1> QED BY <1>3, <1>4

LEMMA WirelessUpKeeps ==
  ASSUME IInv, NEW e \in Env, WirelessUp(e)
  PROVE  IInv'
  <1> DEFINE t == [wdev EXCEPT !.retry = SetupRetry, !.autostart = TRUE, !.tries = 0]
  <1>0. wdev \in State /\ wdev.alive
    BY DEF IInv, Core, WirelessUp
  <1>1. SetupRetry \in -1 .. SetupRetry /\ 0 \in 0 .. SetupRetry + 2
    BY RetryNat
  <1>2. t \in State /\ t.tries = 0
    BY <1>0, <1>1 DEF State
  <1>3. Watched(t) /\ Timed(t) /\ Undoable(t)
    BY <1>0 DEF IInv, Core, State, Watched, Timed, Undoable
  <1>4. Linked(t)
    BY <1>0 DEF IInv, Core, State, Linked, Named
  <1>5. wdev' = SetUp(t, e)
    BY DEF WirelessUp
  <1> HIDE DEF t
  <1>6. Core(t)
    BY <1>2, <1>3, <1>4, PaidFromZero DEF Core, Counted, Paid
  <1> QED BY <1>5, <1>6, EnvIs, SetUpKeeps DEF IInv

LEMMA WirelessDownKeeps ==
  ASSUME IInv, NEW e \in Env, WirelessDown(e)
  PROVE  IInv'
  <1> DEFINE t == [wdev EXCEPT !.failed = FALSE, !.autostart = FALSE]
  <1>0. wdev \in State /\ wdev.alive
    BY DEF IInv, Core, WirelessDown
  <1>1. t \in State /\ ~t.autostart /\ t.tries = wdev.tries
    BY <1>0 DEF State
  <1>2. Watched(t) /\ Timed(t) /\ Undoable(t)
    BY <1>0 DEF IInv, Core, State, Watched, Timed, Undoable
  <1>3. Linked(t)
    BY <1>0 DEF IInv, Core, State, Linked, Named
  <1>4. wdev' = SetDown(t, e)
    BY DEF WirelessDown
  <1> HIDE DEF t
  <1>5. Paid(t) /\ Counted(t) /\ Woken(t)
    BY <1>1 DEF IInv, Core, Counted, Paid, Again, Woken
  <1> QED BY <1>1, <1>2, <1>3, <1>4, <1>5, EnvIs, SetDownKeeps DEF IInv

LEMMA NotificationsKeep ==
  ASSUME IInv, NEW e \in Env, Notifications(e)
  PROVE  IInv'
  <1>0. wdev \in State
    BY DEF IInv, Core
  <1>1. CASE NotifyUp(e)
    BY <1>1, EnvIs, MarkUpKeeps DEF NotifyUp, IInv
  <1>2. CASE NotifySetData
    <2>1. PICK v \in wdev.vifs : wdev' = [wdev EXCEPT !.named = @ \union {v}]
      BY <1>2 DEF NotifySetData
    <2>2. wdev' \in State /\ Linked(wdev')
      BY <1>0, <2>1 DEF IInv, Core, State, Linked, Named
    <2>3. Watched(wdev') /\ Timed(wdev') /\ Undoable(wdev') /\ Woken(wdev')
      BY <1>0, <2>1 DEF IInv, Core, State, Watched, Timed, Undoable, Woken
    <2>4. Counted(wdev')
      BY <1>0, <2>1 DEF IInv, Core, State, Counted, Paid, Again, Left
    <2> QED BY <2>2, <2>3, <2>4 DEF IInv, Core
  <1>3. CASE NotifyProcessAdd
    <2>1. PICK q \in Procs, r \in BOOLEAN :
            wdev' = [wdev EXCEPT !.procs = @ \union {q}, !.check = TRUE,
                                 !.required = IF r THEN @ \union {q} ELSE @]
      BY <1>3 DEF NotifyProcessAdd
    <2>2. Unprocessed(wdev, wdev')
      BY <1>0, <2>1 DEF State, Unprocessed
    <2> QED BY <1>0, <2>2, UnprocessedCore DEF IInv
  <1>4. CASE NotifyProcessKillAll
    <2>1. PICK immediate \in BOOLEAN :
            wdev' = [ProcessKillAll(wdev, immediate) EXCEPT
                       !.killrequest = ProcessKillAll(wdev, immediate).procs # {}]
      BY <1>4 DEF NotifyProcessKillAll
    <2> DEFINE t == ProcessKillAll(wdev, immediate)
               k == t.procs # {}
    <2>2. Unprocessed(wdev, t)
      BY <1>0, KillAllKeeps
    <2>3. k \in BOOLEAN
      OBVIOUS
    <2>4. wdev' = [t EXCEPT !.killrequest = k]
      BY <2>1
    <2> HIDE DEF t, k
    <2>5. Unprocessed(wdev, wdev')
      BY <2>2, <2>3, <2>4 DEF State, Unprocessed
    <2> QED BY <1>0, <2>5, UnprocessedCore DEF IInv
  <1>5. CASE NotifySetRetry
    <2>1. PICK n \in 0 .. SetupRetry : wdev' = [wdev EXCEPT !.retry = n, !.tries = 0]
      BY <1>5 DEF NotifySetRetry
    <2> DEFINE t == [wdev EXCEPT !.retry = n, !.tries = 0]
    <2>2. n \in -1 .. SetupRetry /\ 0 \in 0 .. SetupRetry + 2
      BY RetryNat
    <2>3. t \in State /\ t.tries = 0
      BY <1>0, <2>2 DEF State
    <2>4. Watched(t) /\ Timed(t) /\ Undoable(t) /\ Woken(t)
      BY <1>0 DEF IInv, Core, State, Watched, Timed, Undoable, Woken
    <2>5. Linked(t)
      BY <1>0 DEF IInv, Core, State, Linked, Named
    <2>6. wdev' = t
      BY <2>1
    <2> HIDE DEF t
    <2>7. Core(t)
      BY <2>3, <2>4, <2>5, PaidFromZero DEF Core, Counted, Paid
    <2> QED BY <2>4, <2>6, <2>7 DEF IInv
  <1> QED BY <1>1, <1>2, <1>3, <1>4, <1>5 DEF Notifications

LEMMA ScriptExitsKeeps ==
  ASSUME IInv, NEW e \in Env, ScriptExits(e)
  PROVE  IInv'
  <1> DEFINE t == [wdev EXCEPT !.script = "none"]
  <1>0. wdev \in State
    BY DEF IInv, Core
  <1>1. t \in State /\ Timed(t) /\ Undoable(t) /\ Woken(t)
    BY <1>0 DEF IInv, Core, State, Timed, Undoable, Woken
  <1>2. Linked(t)
    BY <1>0 DEF IInv, Core, State, Linked, Named
  <1>3. Counted(t)
    BY <1>0 DEF IInv, Core, State, Counted, Paid, Again, Left
  <1>4. wdev' = TaskFinish(t, e)
    BY DEF ScriptExits
  <1> HIDE DEF t
  <1> QED BY <1>1, <1>2, <1>3, <1>4, EnvIs, TaskFinishKeeps DEF IInv

(* In TEARDOWN the device is marked down twice: the set-up that the first    *)
(* may have started is started again, for nothing.                           *)
LEMMA MarkDownAgain ==
  ASSUME NEW t, Core(t), Woken(t), t.alive, t.state # "TEARDOWN", ~t.cancel,
         t.config = "NORMAL", t.state = "DOWN" \/ (Again(t) /\ ~t.disabled),
         NEW e \in Envs, ~e.init
  PROVE  LET s == [MarkDown(t, e) EXCEPT !.tries = t.tries]
         IN  Core(s) /\ Woken(s)
  <1> DEFINE s == [MarkDown(t, e) EXCEPT !.tries = t.tries]
  <1>0. t \in State /\ Named(t)
    BY DEF Core, Linked
  <1>1. PICK d : AtRest(t, d) /\ MarkDown(t, e) = HandleConfigChange(d, e)
    BY <1>0, MarkDownIs
  <1>2. Timed(d) /\ Linked(d) /\ d \in State /\ d.config = "NORMAL" /\ d.state = "DOWN"
    BY <1>0, <1>1, AtRestIs DEF AtRest
  <1>3. MarkDown(t, e) = [SetUp(d, e) EXCEPT !.config = "NORMAL"]
    BY <1>1, <1>2 DEF HandleConfigChange
  <1>4. CASE d.disabled \/ d.failed \/ ~d.autostart
    <2>1. SetUp(d, e) = d
      BY <1>4 DEF SetUp
    <2>2. MarkDown(t, e) = d
      BY <1>2, <1>3, <2>1 DEF State
    <2>3. s = d
      BY <1>1, <1>2, <2>2 DEF AtRest, State
    <2>4. t.state = "DOWN"
      BY <1>1, <1>4 DEF AtRest, Again
    <2>5. Counted(d)
      BY <1>0, <1>1, <2>4, AtRestIs DEF Core, Counted
    <2>6. Watched(d) /\ Undoable(d) /\ Woken(d)
      BY <1>2, <1>4 DEF Watched, Undoable, Woken
    <2> QED BY <1>2, <2>3, <2>5, <2>6 DEF Core
  <1>5. CASE ~(d.disabled \/ d.failed \/ ~d.autostart)
    <2> DEFINE z == [d EXCEPT !.tries = 0]
               r == SetUp(z, e)
    <2>0. 0 \in 0 .. SetupRetry + 2
      BY RetryNat
    <2>1. z \in State /\ z.tries = 0
      BY <1>2, <2>0 DEF State
    <2>2. Watched(z) /\ Timed(z) /\ Undoable(z)
      BY <1>2 DEF State, Watched, Timed, Undoable
    <2>3. Linked(z)
      BY <1>2 DEF State, Linked, Named
    <2>4. /\ z.retry = d.retry /\ z.autostart = d.autostart /\ z.disabled = d.disabled
          /\ z.failed = d.failed /\ z.config = d.config /\ z.state = d.state
          /\ z.cancel = d.cancel
      BY <1>2 DEF State
    <2>5. SetUp(d, e) = RunSetup(d, e)
      BY <1>2, <1>5 DEF SetUp
    <2>6. s = [RunSetup(z, e) EXCEPT !.tries = t.tries]
      <3>1. [RunSetup(d, e) EXCEPT !.config = "NORMAL"] = RunSetup(d, e)
        BY <1>2 DEF RunSetup, State
      <3>2. [RunSetup(d, e) EXCEPT !.tries = t.tries] = [RunSetup(z, e) EXCEPT !.tries = t.tries]
        BY <1>2 DEF RunSetup, State
      <3> QED BY <1>3, <2>5, <3>1, <3>2
    <2> HIDE DEF z
    <2>7. r = RunSetup(z, e)
      BY <1>2, <1>5, <2>4 DEF SetUp
    <2>8. Core(z)
      BY <2>1, <2>2, <2>3, PaidFromZero DEF Core, Counted, Paid
    <2>9. Core(r)
      BY <2>8, SetUpKeeps
    <2>10. /\ r.state = "SETUP" /\ ~r.cancel /\ r.retry = d.retry
           /\ r.autostart = d.autostart /\ r.failed = d.failed /\ r.config = "NORMAL"
      BY <1>1, <1>2, <2>1, <2>4, <2>7 DEF RunSetup, State, AtRest
    <2> HIDE DEF r
    <2>11. s = [r EXCEPT !.tries = t.tries]
      BY <2>6, <2>7
    <2> HIDE DEF s
    <2>12. r \in State
      BY <2>9 DEF Core
    <2>13. /\ s.state = "SETUP" /\ ~s.cancel /\ s.retry = t.retry /\ s.tries = t.tries
           /\ s.autostart = t.autostart /\ s.failed = t.failed /\ s.config = t.config
      BY <1>1, <1>2, <2>10, <2>11, <2>12 DEF State, AtRest
    <2>14. Counted(s)
      BY <2>13 DEF Core, Counted, Again, Left
    <2>15. s \in State /\ Watched(s) /\ Timed(s) /\ Undoable(s)
      <3>1. s \in State
        BY <1>0, <2>11, <2>12 DEF State
      <3>2. Watched(s) /\ Timed(s) /\ Undoable(s)
        BY <2>9, <2>11, <2>12 DEF Core, State, Watched, Timed, Undoable
      <3> QED BY <3>1, <3>2
    <2>16. Linked(s) /\ Woken(s)
      BY <2>9, <2>11, <2>12, <2>13 DEF Core, State, Linked, Named, Woken
    <2> QED BY <2>14, <2>15, <2>16 DEF Core, s
  <1> QED BY <1>4, <1>5

LEMMA SetupTimeoutKeeps ==
  ASSUME IInv, NEW e \in Env, SetupTimeout(e)
  PROVE  IInv'
  <1> DEFINE u == [wdev EXCEPT !.timer = FALSE, !.script = "none"]
             t == TaskFinish(u, e)
  <1>0. wdev \in State /\ wdev.timer /\ wdev.alive
        /\ (wdev.state = "TEARDOWN" \/ wdev.cancel) /\ wdev.state # "DOWN"
    BY DEF IInv, Core, Timed, SetupTimeout
  <1>1. /\ u \in State /\ u.state = wdev.state /\ u.alive /\ u.cancel = wdev.cancel
        /\ u.tries = wdev.tries /\ u.config = wdev.config
    BY <1>0 DEF State
  <1>2. Named(u)
    BY <1>0 DEF IInv, Core, State, Linked, Named
  <1>3. Paid(u) /\ u.tries <= SetupRetry + 1
    <2>1. Paid(wdev) /\ wdev.tries <= SetupRetry + 1
      BY <1>0 DEF IInv, Core, Counted
    <2> QED BY <1>0, <2>1 DEF State, Paid, Again, Left
  <1> HIDE DEF u
  <1>4. Core(MarkDown(u, e)) /\ Woken(MarkDown(u, e))
    BY <1>1, <1>2, <1>3, EnvIs, MarkDownKeeps
  <1>5. CASE wdev.state = "TEARDOWN"
    <2>1. t = MarkDown(u, e)
      BY <1>1, <1>5 DEF TaskFinish
    <2>2. wdev' = IF t.alive THEN [MarkDown(t, e) EXCEPT !.tries = t.tries] ELSE t
      BY <1>5 DEF SetupTimeout, u
    <2>3. CASE ~t.alive
      BY <1>4, <2>1, <2>2, <2>3 DEF IInv
    <2>4. CASE t.alive
      <3>1. PICK d : AtRest(u, d) /\ MarkDown(u, e) = HandleConfigChange(d, e)
        BY <1>1, <1>2, EnvIs, MarkDownIs
      <3>2. d.config # "REMOVE" /\ t = [SetUp(d, e) EXCEPT !.config = "NORMAL"]
        BY <2>1, <2>4, <3>1 DEF HandleConfigChange, Gone
      <3>3. d \in State /\ d.state = "DOWN" /\ ~d.cancel
        BY <3>1 DEF AtRest
      <3>4. \/ SetUp(d, e) = d
            \/ (SetUp(d, e) = RunSetup(d, e) /\ ~d.disabled /\ ~d.failed /\ d.autostart)
        BY DEF SetUp
      <3>5. CASE SetUp(d, e) = d
        <4>1. t = [d EXCEPT !.config = "NORMAL"]
          BY <3>2, <3>5
        <4> HIDE DEF t
        <4>2. t.state = "DOWN" /\ ~t.cancel /\ t.config = "NORMAL"
          BY <3>3, <4>1 DEF State
        <4>3. t.state # "TEARDOWN" /\ Core(t) /\ Woken(t)
          BY <1>4, <2>1, <4>2
        <4>4. LET s == [MarkDown(t, e) EXCEPT !.tries = t.tries] IN Core(s) /\ Woken(s)
          BY <2>4, <4>2, <4>3, EnvIs, MarkDownAgain
        <4> QED BY <2>2, <2>4, <4>4 DEF IInv
      <3>6. CASE SetUp(d, e) = RunSetup(d, e) /\ ~d.disabled /\ ~d.failed /\ d.autostart
        <4>1. t = [RunSetup(d, e) EXCEPT !.config = "NORMAL"]
          BY <3>2, <3>6
        <4> HIDE DEF t
        <4>2. /\ t.state = "SETUP" /\ ~t.cancel /\ t.config = "NORMAL"
              /\ ~t.disabled /\ ~t.failed /\ t.autostart
          BY <3>3, <3>6, <4>1 DEF RunSetup, State
        <4> QED BY <1>4, <2>1, <2>2, <2>4, <4>2, EnvIs, MarkDownAgain DEF IInv, Again
      <3> QED BY <3>4, <3>5, <3>6
    <2> QED BY <2>3, <2>4
  <1>6. CASE wdev.state # "TEARDOWN"
    <2>1. t = u
      BY <1>0, <1>1, <1>6 DEF TaskFinish, RetrySetup
    <2>2. wdev' = MarkDown(u, e)
      BY <1>1, <1>6, <2>1 DEF SetupTimeout, u
    <2> QED BY <1>4, <2>2 DEF IInv
  <1> QED BY <1>5, <1>6

LEMMA ProcessesKeep ==
  ASSUME IInv, NEW e \in Env, ProcessDies \/ PipeCloses \/ CheckScriptTasks(e)
  PROVE  IInv'
  <1>0. wdev \in State
    BY DEF IInv, Core
  <1>1. CASE ProcessDies
    <2>1. Unprocessed(wdev, wdev')
      BY <1>0, <1>1 DEF ProcessDies, State, Unprocessed
    <2> QED BY <1>0, <2>1, UnprocessedCore DEF IInv
  <1>2. CASE PipeCloses
    <2>1. Unprocessed(wdev, wdev')
      BY <1>0, <1>2, ZenonT(60) DEF PipeCloses, State, Unprocessed
    <2> QED BY <1>0, <2>1, UnprocessedCore DEF IInv
  <1>3. CASE CheckScriptTasks(e)
    <2> DEFINE t == ProcessFree(wdev, wdev.dead)
               u == [t EXCEPT !.check = FALSE]
    <2>1. Unprocessed(wdev, t)
      BY <1>0, ProcessFreeKeeps
    <2>2. wdev' = RetrySetup(u, e) \/ wdev' = t
      BY <1>3 DEF CheckScriptTasks
    <2> HIDE DEF t
    <2>3. Unprocessed(wdev, u)
      BY <2>1 DEF State, Unprocessed
    <2> HIDE DEF u
    <2>4. Core(t) /\ Woken(t) /\ Core(u) /\ Woken(u)
      BY <1>0, <2>1, <2>3, UnprocessedCore DEF IInv
    <2>5. Core(RetrySetup(u, e)) /\ Woken(RetrySetup(u, e))
      BY <2>4, EnvIs, RetrySetupKeeps DEF Core
    <2> QED BY <2>2, <2>4, <2>5 DEF IInv
  <1> QED BY <1>1, <1>2, <1>3

LEMMA NextKeeps == IInv /\ [Next]_wdev => IInv'
  <1> SUFFICES ASSUME IInv, [Next]_wdev PROVE IInv'
    OBVIOUS
  <1>1. CASE UNCHANGED wdev
    BY <1>1 DEF IInv
  <1>2. ASSUME NEW e \in Env, Configuration(e) PROVE IInv'
    BY <1>2, CreateKeeps, ReloadKeeps, RemoveKeeps, WirelessUpKeeps, WirelessDownKeeps
    DEF Configuration
  <1>3. ASSUME NEW e \in Env, Notifications(e) PROVE IInv'
    BY <1>3, NotificationsKeep
  <1>4. ASSUME NEW e \in Env, Events(e) PROVE IInv'
    BY <1>4, ScriptExitsKeeps, SetupTimeoutKeeps, ProcessesKeep DEF Events
  <1> QED BY <1>1, <1>2, <1>3, <1>4 DEF Next

(***************************************************************************)
(* The theorems.                                                           *)
(***************************************************************************)

(* The inductive invariant holds in every reachable state.                   *)
THEOREM IInvHolds == Spec => []IInv
  <1>1. Init => IInv
    BY GoneIsFine DEF Init, IInv
  <1> QED BY <1>1, NextKeeps, PTL DEF Spec

(* No field of struct wireless_device leaves its range.                      *)
THEOREM TypeCorrect == Spec => []TypeOK
  <1>1. IInv => TypeOK
    BY DEF IInv, Core, TypeOK
  <1> QED BY <1>1, IInvHolds, PTL

(* A set-up or teardown in progress has a script, or the timer of a          *)
(* cancellation, unless fork failed for it (wireless_device_run_handler).    *)
THEOREM AlwaysAttended == Spec => []Attended
  <1>1. IInv => Attended
    BY DEF IInv, Core, Watched, Timed, Attended
  <1> QED BY <1>1, IInvHolds, PTL

(* A device that is to be up is not left DOWN, whichever of its callbacks    *)
(* took the last obstacle away.                                              *)
THEOREM NoneForgotten == Spec => []NeverForgotten
  <1>1. IInv => NeverForgotten
    BY DEF IInv, Woken, NeverForgotten
  <1> QED BY <1>1, IInvHolds, PTL

(* Networks that were told of an interface are told of its end in time       *)
(* (wireless_interface_handle_link, vif_update).                             *)
THEOREM EveryLinkEnds == Spec => []LinksEnd
  <1>1. IInv => LinksEnd
    BY DEF IInv, Core, Linked, Named, LinksEnd
  <1> QED BY <1>1, IInvHolds, PTL

(* The teardown script gets the configuration that was set up                *)
(* (prev_config), however many reloads there were.                           *)
THEOREM WhatWasSetUpIsUndone == Spec => []TeardownUndoes
  <1>1. IInv => TeardownUndoes
    BY DEF IInv, Core, Undoable, TeardownUndoes
  <1> QED BY <1>1, IInvHolds, PTL

(* wireless_device_retry_setup: no device is tried more often than           *)
(* WIRELESS_SETUP_RETRY times again, for any value of that.                  *)
THEOREM RetriesEnd == Spec => []RetriesBounded
  <1>1. IInv => RetriesBounded
    BY DEF IInv, Core, Counted, RetriesBounded, TypeOK
  <1> QED BY <1>1, IInvHolds, PTL

=============================================================================
