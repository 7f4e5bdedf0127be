------------------------- MODULE InterfaceLifeProofs -------------------------
(***************************************************************************)
(* What InterfaceShell promises beyond its invariant: it leads the life of *)
(* InterfaceLifecycle, leaves nothing behind when it is freed, does not    *)
(* outlive the loss of its device, holds the device it is UP on, and has   *)
(* somebody working on every set-up.  As in InterfaceShellProofs there is  *)
(* a lemma per operator, about the state t it returns.                     *)
(***************************************************************************)
EXTENDS InterfaceShellProofs

(* What the operators that start and stop an interface leave alone.        *)
Still(s, t) ==
  /\ t.alive = s.alive /\ t.dynamic = s.dynamic /\ t.config = s.config
  /\ t.main = s.main /\ t.l3 = s.l3 /\ t.proto = s.proto
  /\ t.handler = s.handler /\ t.force = s.force /\ t.task = s.task
  /\ t.present = s.present

LinkSame(s, t) ==
  t.link = s.link /\ t.available = s.available /\ t.autostart = s.autostart

(* Somebody works on a set-up, and a renewal that waits can be run.         *)
Tended(s) ==
  /\ s.sm = "S_SETUP" => s.script \/ s.task \/ "NO_TASK" \in s.proto
  /\ s.renew => "RENEW_AVAILABLE" \in s.proto

LEMMA ReleaseStill ==
  ASSUME NEW s \in State, NEW u, NEW t, t = Release(s, u)
  PROVE  /\ t \in State /\ Still(s, t) /\ LinkSame(s, t)
         /\ t.claimed = s.claimed \ {u}
         /\ t.state = s.state /\ t.sm = s.sm /\ t.tdtimer = s.tdtimer
         /\ t.script = s.script /\ t.renew = s.renew
<1>1. t \in State
  BY ReleaseFrame
<1> QED BY <1>1 DEF Release, State, Still, LinkSame

LEMMA TeardownStill ==
  ASSUME NEW s \in State, NEW e \in Envs, Timed(s),
         NEW t, t = ShellTeardown(s, e)
  PROVE  /\ t \in State /\ Still(s, t) /\ LinkSame(s, t)
         /\ t.claimed = s.claimed /\ t.state = s.state
         /\ t.enabled = s.enabled /\ t.chktimer = s.chktimer
         /\ Busy(t)
<1>0. t \in State
  BY TeardownFrame
<1>1. CASE s.sm = "S_SETUP" /\ s.script
  <2>1. t = [s EXCEPT !.tdtimer = TRUE, !.renew = FALSE, !.sm = "S_SETUP_ABORT"]
    BY <1>1 DEF ShellTeardown
  <2> QED BY <1>0, <2>1 DEF State, Still, LinkSame, Busy
<1>2. CASE s.sm = "S_IDLE" \/ (s.sm = "S_SETUP" /\ ~s.script)
  <2>1. t = [[s EXCEPT !.tdtimer = TRUE, !.renew = FALSE, !.sm = "S_TEARDOWN"]
               EXCEPT !.script = e.fork]
    BY <1>2 DEF ShellTeardown, StartScript
  <2> QED BY <1>0, <2>1 DEF State, Still, LinkSame, Busy
<1>3. CASE s.sm \in {"S_SETUP_ABORT", "S_TEARDOWN"}
  BY <1>3 DEF ShellTeardown, State, Still, LinkSame, Busy
<1> QED BY <1>1, <1>2, <1>3 DEF State

(* A teardown that has begun needs nobody, and drops the renewal. *)
LEMMA TeardownTended ==
  ASSUME NEW s \in State, NEW e \in Envs, NEW t, t = ShellTeardown(s, e)
  PROVE  e.fork /\ Tended(s) => Tended(t)
<1>1. CASE s.sm = "S_SETUP" /\ s.script
  <2>1. t = [s EXCEPT !.tdtimer = TRUE, !.renew = FALSE, !.sm = "S_SETUP_ABORT"]
    BY <1>1 DEF ShellTeardown
  <2> QED BY <2>1 DEF State, Tended
<1>2. CASE s.sm = "S_IDLE" \/ (s.sm = "S_SETUP" /\ ~s.script)
  <2>1. t = [[s EXCEPT !.tdtimer = TRUE, !.renew = FALSE, !.sm = "S_TEARDOWN"]
               EXCEPT !.script = e.fork]
    BY <1>2 DEF ShellTeardown, StartScript
  <2> QED BY <2>1 DEF State, Tended
<1>3. CASE s.sm \in {"S_SETUP_ABORT", "S_TEARDOWN"}
  BY <1>3 DEF ShellTeardown
<1> QED BY <1>1, <1>2, <1>3 DEF State

LEMMA MarkDownStill ==
  ASSUME NEW s \in State, NEW t, t = MarkDown(s)
  PROVE  /\ t \in State /\ Still(s, t) /\ LinkSame(s, t)
         /\ t.claimed \subseteq s.claimed /\ t.state = "DOWN"
         /\ t.sm = s.sm /\ t.script = s.script /\ t.renew = s.renew
         /\ t.tdtimer = s.tdtimer
<1>1. CASE s.state = "DOWN"
  BY <1>1 DEF MarkDown, Still, LinkSame
<1>2. CASE s.state # "DOWN"
  <2>1. PICK l : l = Leave(s, "DOWN")
    OBVIOUS
  <2>2. PICK q : q = [l EXCEPT !.linkup = FALSE]
    OBVIOUS
  <2>3. /\ l \in State /\ l.state = "DOWN" /\ Still(s, l) /\ LinkSame(s, l)
        /\ l.claimed = s.claimed /\ l.sm = s.sm
        /\ l.script = s.script /\ l.renew = s.renew /\ l.tdtimer = s.tdtimer
    BY <2>1 DEF Leave, State, Still, LinkSame
  <2>4. /\ q \in State /\ q.state = "DOWN" /\ Still(l, q) /\ LinkSame(l, q)
        /\ q.claimed = l.claimed /\ q.sm = l.sm
        /\ q.script = l.script /\ q.renew = l.renew /\ q.tdtimer = l.tdtimer
    BY <2>2, <2>3, ZenonT(60) DEF State, Still, LinkSame
  <2>5. t = Release(q, "l3_dev")
    BY <1>2, <2>1, <2>2 DEF MarkDown
  <2> QED BY <2>3, <2>4, <2>5, ReleaseStill DEF Still, LinkSame
<1> QED BY <1>1, <1>2

-----------------------------------------------------------------------------
(* Starting and checking. *)

(* An interface with a device is on its way up, or UP, only over a device   *)
(* that is enabled and has its link.                                        *)
Fit(s) == s.main /\ s.state \in {"SETUP", "UP"} => Ready(s)

(* Neither begins nor ends a teardown, nor comes UP. *)
Calm(s, t) ==
  /\ t.state = "TEARDOWN" <=> s.state = "TEARDOWN"
  /\ t.state = "UP" => s.state = "UP"

(* The claim on the layer 3 device is given up only on the way out of UP.   *)
Keeping(s, t) ==
  t.state = "UP" /\ "l3_dev" \in s.claimed => "l3_dev" \in t.claimed

Moves(s, t, e) ==
  /\ Still(s, t) /\ Calm(s, t) /\ Keeping(s, t)
  /\ s.main /\ Fit(s) => Fit(t)
  /\ e.fork /\ Tended(s) => Tended(t)

LEMMA MovesCompose ==
  ASSUME NEW s, NEW q, NEW t, NEW e, Moves(s, q, e), Moves(q, t, e)
  PROVE  Moves(s, t, e)
BY DEF Moves, Still, Calm, Keeping

(* Nothing but fields that Moves does not speak of.                         *)
LEMMA MovesTrivially ==
  ASSUME NEW s, NEW t, NEW e, Still(s, t), t.state = s.state,
         t.claimed = s.claimed, t.sm = s.sm, t.script = s.script,
         t.renew = s.renew, t.enabled = s.enabled, t.link = s.link
  PROVE  Moves(s, t, e)
BY DEF Moves, Still, Calm, Keeping, Fit, Tended, Ready, LinkOk

LEMMA StartSetupMoves ==
  ASSUME NEW s \in State, s.state = "DOWN", NEW e \in Envs,
         s.main => Ready(s), NEW t, t = StartSetup(s, e)
  PROVE  /\ Moves(s, t, e) /\ Fit(t) /\ LinkSame(s, t)
         /\ t.claimed = s.claimed \/ (t.claimed \subseteq s.claimed /\ t.state = "DOWN")
<1>1. PICK q : q = [s EXCEPT !.state = "SETUP"]
  OBVIOUS
<1>2. PICK r : r = ShellSetup(q, e)
  OBVIOUS
<1>3. /\ q \in State /\ q.state = "SETUP" /\ Still(s, q) /\ LinkSame(s, q)
      /\ q.sm = s.sm /\ q.script = s.script /\ q.renew = s.renew
      /\ q.claimed = s.claimed /\ q.enabled = s.enabled
  BY <1>1 DEF State, Still, LinkSame
<1>4. /\ r \in State /\ r.state = "SETUP" /\ Still(q, r) /\ LinkSame(q, r)
      /\ r.claimed = q.claimed /\ r.enabled = q.enabled /\ r.renew = q.renew
      /\ IF q.sm = "S_IDLE" THEN r.sm = "S_SETUP" /\ r.script = e.fork
                            ELSE r.sm = q.sm /\ r.script = q.script
  <2>1. CASE q.sm = "S_IDLE"
    <3>1. r = [[q EXCEPT !.sm = "S_SETUP"] EXCEPT !.script = e.fork]
      BY <1>2, <2>1 DEF ShellSetup, StartScript
    <3> QED BY <1>3, <2>1, <3>1, ZenonT(60) DEF State, Envs, Still, LinkSame
  <2>2. CASE q.sm # "S_IDLE"
    BY <1>2, <1>3, <2>2 DEF ShellSetup, Still, LinkSame
  <2> QED BY <2>1, <2>2
<1>5. e.fork /\ Tended(s) => Tended(r)
  BY <1>3, <1>4 DEF Tended, Still
<1>6. s.main => Ready(r)
  BY <1>3, <1>4 DEF Ready, LinkOk, Still, LinkSame
<1>7. CASE SetupAccepted(s, e)
  <2>1. t = r
    BY <1>1, <1>2, <1>7 DEF StartSetup
  <2> QED
    BY <1>3, <1>4, <1>5, <1>6, <2>1
    DEF Moves, Still, LinkSame, Calm, Keeping, Fit
<1>8. CASE ~SetupAccepted(s, e)
  <2>1. t = MarkDown(r)
    BY <1>1, <1>2, <1>8 DEF StartSetup
  <2>2. /\ t \in State /\ Still(r, t) /\ LinkSame(r, t)
        /\ t.claimed \subseteq r.claimed /\ t.state = "DOWN"
        /\ t.sm = r.sm /\ t.script = r.script /\ t.renew = r.renew
    BY <1>4, <2>1, MarkDownStill
  <2>3. e.fork /\ Tended(s) => Tended(t)
    BY <1>5, <2>2 DEF Tended, Still
  <2> QED
    BY <1>3, <1>4, <2>2, <2>3 DEF Moves, Still, LinkSame, Calm, Keeping, Fit
<1> QED BY <1>7, <1>8

(* The claim may go only when the interface goes DOWN for want of a link or *)
(* of a script, and then it is available.                                   *)
Dropping(s, t) ==
  "l3_dev" \in s.claimed /\ "l3_dev" \notin t.claimed =>
    t.state = "DOWN" /\ t.available

LEMMA CheckStateMoves ==
  ASSUME NEW s, Inv(s), NEW e \in Envs, NEW t, t = CheckState(s, e)
  PROVE  Moves(s, t, e) /\ (s.main => Fit(t)) /\ LinkSame(s, t) /\ Dropping(s, t)
<1>0. s \in State /\ Timed(s)
  BY DEF Inv, Weak
<1>1. CASE s.state \in {"UP", "SETUP"} /\ ~(s.enabled /\ LinkOk(s))
  <2>1. PICK q : q = ShellTeardown(s, e)
    OBVIOUS
  <2>2. /\ q \in State /\ Still(s, q) /\ LinkSame(s, q)
        /\ q.claimed = s.claimed /\ q.state = s.state /\ Busy(q)
        /\ e.fork /\ Tended(s) => Tended(q)
    BY <1>0, <2>1, TeardownStill, TeardownTended
  <2>3. t = MarkDown(q)
    BY <1>1, <2>1 DEF CheckState
  <2>4. /\ t \in State /\ Still(q, t) /\ LinkSame(q, t)
        /\ t.claimed \subseteq q.claimed /\ t.state = "DOWN"
        /\ t.sm = q.sm /\ t.script = q.script /\ t.renew = q.renew
    BY <2>2, <2>3, MarkDownStill
  <2>5. e.fork /\ Tended(s) => Tended(t)
    BY <2>2, <2>4 DEF Tended, Still
  <2>6. s.available
    BY <1>1 DEF Inv, Weak, Stopped
  <2> QED
    BY <1>1, <2>2, <2>4, <2>5, <2>6
    DEF Moves, Still, LinkSame, Calm, Keeping, Fit, Dropping
<1>2. CASE /\ s.state = "DOWN" /\ s.available /\ s.autostart
           /\ s.enabled /\ LinkOk(s) /\ ~e.init
  <2>1. t = StartSetup(s, e) /\ Ready(s)
    BY <1>2 DEF CheckState, Ready
  <2>2. /\ Moves(s, t, e) /\ Fit(t) /\ LinkSame(s, t)
        /\ t.claimed = s.claimed \/ (t.claimed \subseteq s.claimed /\ t.state = "DOWN")
    BY <1>0, <1>2, <2>1, StartSetupMoves
  <2> QED BY <1>2, <2>2 DEF Dropping, LinkSame
<1>3. CASE /\ t = s /\ ~(s.state \in {"UP", "SETUP"} /\ ~(s.enabled /\ LinkOk(s)))
  BY <1>3, MovesTrivially DEF Still, LinkSame, Fit, Ready, Dropping
<1> QED BY <1>1, <1>2, <1>3 DEF CheckState

LEMMA SetEnabledMoves ==
  ASSUME NEW s, Inv(s), NEW v \in BOOLEAN, NEW e \in Envs,
         NEW t, t = SetEnabled(s, v, e)
  PROVE  Moves(s, t, e) /\ LinkSame(s, t) /\ Dropping(s, t)
<1>1. CASE s.enabled = v
  BY <1>1, MovesTrivially DEF SetEnabled, Still, LinkSame, Dropping
<1>2. CASE s.enabled # v
  <2>1. PICK q : q = [s EXCEPT !.enabled = v]
    OBVIOUS
  <2>2. q \in State /\ Same(s, q)
    BY <2>1 DEF Inv, Weak, State, Same
  <2>3. /\ Still(s, q) /\ LinkSame(s, q) /\ q.state = s.state
        /\ q.claimed = s.claimed /\ q.sm = s.sm /\ q.script = s.script
        /\ q.renew = s.renew
    BY <2>1 DEF Inv, Weak, State, Still, LinkSame
  <2>4. Inv(q)
    BY <2>2, SameInv
  <2>5. t = CheckState(q, e)
    BY <1>2, <2>1 DEF SetEnabled
  <2>6. Moves(q, t, e) /\ (q.main => Fit(t)) /\ LinkSame(q, t) /\ Dropping(q, t)
    BY <2>4, <2>5, CheckStateMoves
  <2>7. Tended(s) => Tended(q)
    BY <2>3 DEF Tended, Still
  <2> QED
    BY <2>3, <2>6, <2>7 DEF Moves, Still, LinkSame, Calm, Keeping, Dropping
<1> QED BY <1>1, <1>2

LEMMA SetLinkStateMoves ==
  ASSUME NEW s, Inv(s), NEW v \in BOOLEAN, NEW e \in Envs,
         NEW t, t = SetLinkState(s, v, e)
  PROVE  Moves(s, t, e)
<1>1. CASE s.link = v
  BY <1>1, MovesTrivially DEF SetLinkState, Still
<1>2. CASE s.link # v
  <2>1. PICK q : q = [s EXCEPT !.link = v]
    OBVIOUS
  <2>2. q \in State /\ Same(s, q)
    BY <2>1 DEF Inv, Weak, State, Same
  <2>3. /\ Still(s, q) /\ q.state = s.state
        /\ q.claimed = s.claimed /\ q.sm = s.sm /\ q.script = s.script
        /\ q.renew = s.renew
    BY <2>1 DEF Inv, Weak, State, Still
  <2>4. Inv(q)
    BY <2>2, SameInv
  <2>5. PICK r : r = CheckState(q, e)
    OBVIOUS
  <2>6. Moves(q, r, e) /\ (q.main => Fit(r))
    BY <2>4, <2>5, CheckStateMoves
  <2>7. Tended(s) => Tended(q)
    BY <2>3 DEF Tended, Still
  <2>8. Moves(s, r, e)
    BY <2>3, <2>6, <2>7 DEF Moves, Still, Calm, Keeping
  <2>9. t = r \/ t = [r EXCEPT !.linkup = TRUE]
    BY <1>2, <2>1, <2>5 DEF SetLinkState
  <2>10. CASE t = [r EXCEPT !.linkup = TRUE]
    <3>1. r \in State
      BY <2>4, <2>5, CheckStateInv DEF Inv, Weak
    <3>2. Moves(r, t, e)
      <4>1. /\ Still(r, t) /\ t.state = r.state /\ t.claimed = r.claimed
            /\ t.sm = r.sm /\ t.script = r.script /\ t.renew = r.renew
            /\ t.enabled = r.enabled /\ t.link = r.link
        BY <3>1, <2>10 DEF State, Still
      <4> QED BY <4>1, MovesTrivially
    <3> QED BY <2>8, <3>2, MovesCompose
  <2> QED BY <2>8, <2>9, <2>10
<1> QED BY <1>1, <1>2

(* A claim that succeeds holds, unless it brings the interface down.        *)
LEMMA ClaimMoves ==
  ASSUME NEW s, Inv(s), NEW u \in {"main_dev", "l3_dev", "other"},
         NEW e \in Envs, NEW t, t = Claim(s, u, e)
  PROVE  /\ Moves(s, t, e) /\ LinkSame(s, t) /\ Dropping(s, t)
         /\ u = "l3_dev" /\ ClaimOk(s, u, e) =>
              "l3_dev" \in t.claimed \/ (t.state = "DOWN" /\ t.available)
         /\ UsesMain(s, u) /\ Active(s) =>
              t = [s EXCEPT !.claimed = @ \union {u}]
<1>1. PICK q : q = [s EXCEPT !.claimed = @ \union {u}]
  OBVIOUS
<1>2. q \in State /\ Same(s, q)
  BY <1>1 DEF Inv, Weak, State, Same
<1>3. Inv(q)
  BY <1>2, SameInv
<1>4. /\ Still(s, q) /\ LinkSame(s, q) /\ q.state = s.state
      /\ s.claimed \subseteq q.claimed /\ u \in q.claimed /\ q.sm = s.sm
      /\ q.script = s.script /\ q.renew = s.renew /\ q.enabled = s.enabled
  BY <1>1 DEF Inv, Weak, State, Still, LinkSame
<1>5. Moves(s, q, e)
  BY <1>4 DEF Moves, Still, LinkSame, Calm, Keeping, Fit, Tended, Ready, LinkOk
<1>6. CASE ~ClaimOk(s, u, e)
  <2>1. t = s
    BY <1>6 DEF Claim
  <2>2. ~(UsesMain(s, u) /\ Active(s))
    BY <1>6 DEF ClaimOk
  <2> QED
    BY <1>6, <2>1, <2>2, MovesTrivially DEF Still, LinkSame, Dropping
<1>7. CASE ClaimOk(s, u, e) /\ UsesMain(s, u) /\ ~Active(s) /\ s.main
  <2>1. t = SetEnabled(q, TRUE, e)
    BY <1>1, <1>7 DEF Claim
  <2>2. Moves(q, t, e) /\ LinkSame(q, t) /\ Dropping(q, t)
    BY <1>3, <2>1, SetEnabledMoves
  <2>3. Moves(s, t, e)
    BY <1>5, <2>2, MovesCompose
  <2> QED
    BY <1>4, <1>7, <2>2, <2>3 DEF LinkSame, Dropping
<1>8. CASE ClaimOk(s, u, e) /\ ~(UsesMain(s, u) /\ ~Active(s) /\ s.main)
  <2>1. t = q
    BY <1>1, <1>8 DEF Claim
  <2> QED
    BY <1>1, <1>4, <1>5, <2>1 DEF LinkSame, Dropping
<1> QED BY <1>6, <1>7, <1>8

LEMMA InterfaceSetUpMoves ==
  ASSUME NEW s, Inv(s), NEW e \in Envs, NEW t, t = InterfaceSetUp(s, e)
  PROVE  /\ Moves(s, t, e)
         /\ Active(s) \/ ~s.main => Dropping(s, t)
<1>1. PICK q : q = [s EXCEPT !.autostart = TRUE]
  OBVIOUS
<1>2. q \in State /\ Same(s, q)
  BY <1>1 DEF Inv, Weak, State, Same
<1>3. Inv(q)
  BY <1>2, SameInv
<1>4. /\ Still(s, q) /\ q.state = s.state /\ q.available = s.available
      /\ q.claimed = s.claimed /\ q.sm = s.sm /\ q.link = s.link
      /\ q.script = s.script /\ q.renew = s.renew /\ q.enabled = s.enabled
  BY <1>1 DEF Inv, Weak, State, Still
<1>5. Moves(s, q, e)
  BY <1>4, MovesTrivially
<1>6. CASE t = q
  BY <1>4, <1>5, <1>6 DEF Dropping
<1>7. CASE q.state = "DOWN" /\ q.available /\ ~q.main /\ t = StartSetup(q, e)
  <2>1. /\ Moves(q, t, e) /\ LinkSame(q, t)
        /\ t.claimed = q.claimed \/ (t.claimed \subseteq q.claimed /\ t.state = "DOWN")
    BY <1>2, <1>7, StartSetupMoves
  <2> QED
    BY <1>4, <1>5, <1>7, <2>1, MovesCompose DEF LinkSame, Dropping
<1>8. CASE q.available /\ q.main /\ t = CheckState(Claim(q, "main_dev", e), e)
  <2>1. PICK r : r = Claim(q, "main_dev", e)
    OBVIOUS
  <2>2. /\ Moves(q, r, e) /\ Inv(r)
        /\ Active(q) => r = [q EXCEPT !.claimed = @ \union {"main_dev"}]
    BY <1>3, <2>1, ClaimMoves, ClaimInv DEF UsesMain
  <2>3. Moves(r, t, e) /\ Dropping(r, t)
    BY <1>8, <2>1, <2>2, CheckStateMoves
  <2>4. Moves(s, t, e)
    BY <1>5, <2>2, <2>3, MovesCompose
  <2>5. ASSUME Active(s) PROVE Dropping(s, t)
    <3>1. Active(q)
      BY <1>4, <2>5 DEF Active, Holders, Still
    <3>2. s.claimed \subseteq r.claimed
      BY <1>2, <1>4, <2>2, <3>1 DEF State
    <3> QED BY <2>3, <3>2 DEF Dropping
  <2> QED BY <1>4, <1>8, <2>4, <2>5 DEF Still
<1> QED BY <1>1, <1>6, <1>7, <1>8 DEF InterfaceSetUp

(* What becomes available may start; what is no longer is taken down.       *)
LEMMA BecomeAvailableMoves ==
  ASSUME NEW s, Inv(s), NEW e \in Envs, NEW t, t = SetAvailable(s, TRUE, e)
  PROVE  /\ Moves(s, t, e)
         /\ s.available => t = s
         /\ "l3_dev" \in s.claimed /\ s.l3 = "main" => Dropping(s, t)
<1>1. PICK q : q = [s EXCEPT !.available = TRUE]
  OBVIOUS
<1>2. CASE s.available
  BY <1>2, MovesTrivially DEF SetAvailable, Still, Dropping, Inv, Weak, State
<1>3. CASE ~s.available
  <2>1. /\ q \in State /\ q.state = s.state /\ q.told = s.told
        /\ q.config = s.config /\ q.sm = s.sm /\ q.l3 = s.l3
        /\ q.tdtimer = s.tdtimer /\ q.available
    BY <1>1 DEF Inv, Weak, State
  <2>2. Inv(q)
    BY <2>1 DEF Inv, Weak, Known, Timed, Held, Stopped, Idle, Waits, Busy
  <2>3. /\ Still(s, q) /\ q.claimed = s.claimed /\ q.link = s.link
        /\ q.script = s.script /\ q.renew = s.renew /\ q.enabled = s.enabled
    BY <1>1 DEF Inv, Weak, State, Still
  <2>4. Moves(s, q, e)
    BY <2>1, <2>3, MovesTrivially
  <2>5. t = q \/ t = InterfaceSetUp(q, e)
    BY <1>1, <1>3 DEF SetAvailable, Inv, Weak, State
  <2>6. CASE t = q
    BY <1>3, <2>3, <2>4, <2>6 DEF Dropping
  <2>7. CASE t = InterfaceSetUp(q, e)
    <3>1. Moves(q, t, e) /\ (Active(q) => Dropping(q, t))
      BY <2>2, <2>7, InterfaceSetUpMoves
    <3>2. Moves(s, t, e)
      BY <2>4, <3>1, MovesCompose
    <3>3. "l3_dev" \in s.claimed /\ s.l3 = "main" => Active(q)
      BY <2>1, <2>3 DEF Active, Holders
    <3> QED BY <1>3, <2>3, <3>1, <3>2, <3>3 DEF Dropping
  <2> QED BY <2>5, <2>6, <2>7
<1> QED BY <1>2, <1>3 DEF Inv, Weak, State

-----------------------------------------------------------------------------
(* Taking down, freeing and configuring. *)

LEMMA SetDownMoves ==
  ASSUME NEW s \in State, Timed(s), NEW force \in BOOLEAN, NEW e \in Envs,
         NEW t, t = SetDown(s, force, e)
  PROVE  /\ t \in State /\ Still(s, t) /\ LinkSame(s, t)
         /\ t.state = IF s.state = "DOWN" THEN "DOWN" ELSE "TEARDOWN"
         /\ e.fork /\ Tended(s) => Tended(t)
<1>1. CASE s.state \in {"UP", "SETUP"}
  <2>1. PICK l : l = Leave(s, "TEARDOWN")
    OBVIOUS
  <2>2. PICK q : q = ShellTeardown(l, e)
    OBVIOUS
  <2>3. /\ l \in State /\ l.state = "TEARDOWN" /\ Still(s, l) /\ LinkSame(s, l)
        /\ Timed(l) /\ (Tended(s) => Tended(l))
    BY <2>1, ZenonT(60) DEF Leave, State, Still, LinkSame, Timed, Busy, Tended
  <2>4. /\ q \in State /\ q.state = "TEARDOWN" /\ Still(l, q) /\ LinkSame(l, q)
        /\ e.fork /\ Tended(l) => Tended(q)
    BY <2>2, <2>3, TeardownStill, TeardownTended
  <2>5. t = q \/ t = Release(q, "l3_dev")
    BY <1>1, <2>1, <2>2 DEF SetDown
  <2>6. t \in State /\ t.state = q.state /\ Still(q, t) /\ LinkSame(q, t)
        /\ (Tended(q) => Tended(t))
    BY <2>4, <2>5, ReleaseStill DEF Still, LinkSame, Tended
  <2> QED BY <1>1, <2>3, <2>4, <2>6 DEF Still, LinkSame
<1>2. CASE s.state = "DOWN"
  <2>1. t = Release(s, "main_dev")
    BY <1>2 DEF SetDown
  <2> QED BY <1>2, <2>1, ReleaseStill DEF Tended, Still
<1>3. CASE s.state = "TEARDOWN"
  <2>1. t = s
    BY <1>3 DEF SetDown
  <2> QED BY <1>3, <2>1 DEF Still, LinkSame
<1> QED BY <1>1, <1>2, <1>3 DEF State

(* Nothing runs and nothing is held. *)
Bare(s) ==
  /\ s.state = "DOWN" /\ ~s.main /\ s.l3 = "none" /\ s.claimed \subseteq {"other"}
  /\ s.sm = "S_IDLE" /\ ~s.script /\ ~s.task /\ ~s.renew
  /\ ~s.tdtimer /\ ~s.chktimer

Gone(s) == ~s.alive => Bare(s) /\ s.config = "NORMAL" /\ ~s.dynamic

LEMMA DetachedBare ==
  ASSUME NEW s \in State, NEW t, t = Detached(s)
  PROVE  /\ Bare(t) /\ t.alive = s.alive /\ t.dynamic = s.dynamic
         /\ t.config = s.config
<1>1. PICK q : q = Release(s, "l3_dev")
  OBVIOUS
<1>2. PICK r : r = Release(q, "main_dev")
  OBVIOUS
<1>3. q \in State /\ Still(s, q) /\ q.claimed = s.claimed \ {"l3_dev"}
  BY <1>1, ReleaseStill
<1>4. r \in State /\ Still(q, r) /\ r.claimed = q.claimed \ {"main_dev"}
  BY <1>2, <1>3, ReleaseStill
<1>5. t = [r EXCEPT
            !.state = "DOWN", !.available = FALSE, !.link = FALSE, !.main = FALSE,
            !.l3 = "none", !.sm = "S_IDLE", !.script = FALSE, !.task = FALSE, !.renew = FALSE,
            !.tdtimer = FALSE, !.chktimer = FALSE]
  BY <1>1, <1>2 DEF Detached
<1>6. s.claimed \subseteq {"main_dev", "l3_dev", "other"}
  BY DEF State
<1>7. t.claimed \subseteq {"other"} /\ t.alive = r.alive /\ t.dynamic = r.dynamic
      /\ t.config = r.config
  BY <1>3, <1>4, <1>5, <1>6 DEF State
<1>8. /\ t.state = "DOWN" /\ ~t.main /\ t.l3 = "none" /\ t.sm = "S_IDLE"
      /\ ~t.script /\ ~t.task /\ ~t.renew /\ ~t.tdtimer /\ ~t.chktimer
  BY <1>4, <1>5 DEF State
<1> QED BY <1>3, <1>4, <1>7, <1>8 DEF Bare, Still

(* interface_do_free *)
LEMMA DoFreeGone ==
  ASSUME NEW s \in State, s.told = "DOWN", NEW t, t = DoFree(s)
  PROVE  ~t.alive /\ Gone(t)
<1>1. PICK q : q = Detached(s)
  OBVIOUS
<1>2. q \in State /\ Bare(q)
  BY <1>1, DetachedBare, DetachedDown DEF Weak
<1>3. t = [q EXCEPT
     !.alive = FALSE, !.dynamic = FALSE, !.handler = {}, !.proto = {},
     !.config = "NORMAL", !.autostart = FALSE, !.cfgauto = FALSE, !.enabled = FALSE, !.force = FALSE]
  BY <1>1 DEF DoFree
<1> QED BY <1>2, <1>3 DEF State, Bare, Gone

(* Attaching a handler and its device may start the interface.              *)
Starts(s, t, e) ==
  /\ t.alive = s.alive /\ t.dynamic = s.dynamic /\ t.config = s.config
  /\ t.state \in {"DOWN", "SETUP"}
  /\ e.fork => Tended(t)

LEMMA AttachStarts ==
  ASSUME NEW s, Inv(s), Bare(s), NEW e \in Envs, NEW t, t = Attach(s, e)
  PROVE  Starts(s, t, e)
<1>1. PICK new : new = Bound(s)
  OBVIOUS
<1>2. PICK add : add = AnnounceAdd(new, e)
  OBVIOUS
<1>3. PICK up : up = AnnounceUp(add, e)
  OBVIOUS
<1>4. PICK lnk : lnk = AnnounceLink(up, e)
  OBVIOUS
<1>5. PICK l3 : l3 = BindL3(lnk)
  OBVIOUS
<1>6. t = l3 \/ t = SetAvailable(l3, TRUE, e)
  BY <1>1, <1>2, <1>3, <1>4, <1>5 DEF Attach
<1>7. new \in State /\ Same(s, new)
  BY <1>1, ZenonT(60) DEF Bound, Inv, Weak, State, Same
<1>8. Inv(new)
  BY <1>7, SameInv
<1>9. /\ new.alive = s.alive /\ new.dynamic = s.dynamic /\ new.config = s.config
      /\ new.state = "DOWN" /\ Tended(new)
  BY <1>1 DEF Bound, Inv, Weak, State, Bare, Tended
<1>10. Moves(new, add, e) /\ Inv(add)
  <2>1. CASE add = new
    BY <1>8, <2>1, MovesTrivially DEF Still
  <2>2. CASE add = SetAvailable(new, TRUE, e)
    BY <1>8, <2>2, BecomeAvailableMoves, SetAvailableInv
  <2> QED BY <1>2, <2>1, <2>2 DEF AnnounceAdd
<1>11. Moves(add, up, e) /\ Inv(up)
  <2>1. CASE up = add
    BY <1>10, <2>1, MovesTrivially DEF Still
  <2>2. CASE up = SetEnabled(add, TRUE, e)
    BY <1>10, <2>2, SetEnabledMoves, SetEnabledInv
  <2> QED BY <1>3, <2>1, <2>2 DEF AnnounceUp
<1>12. Moves(up, lnk, e) /\ Inv(lnk)
  <2>1. CASE lnk = up
    BY <1>11, <2>1, MovesTrivially DEF Still
  <2>2. CASE lnk = SetLinkState(up, TRUE, e)
    BY <1>11, <2>2, SetLinkStateMoves, SetLinkStateInv
  <2> QED BY <1>4, <2>1, <2>2 DEF AnnounceLink
<1>13. Starts(s, lnk, e)
  <2>1. Moves(new, lnk, e)
    BY <1>10, <1>11, <1>12, MovesCompose
  <2>2. lnk.state \in {"DOWN", "SETUP"}
    BY <1>9, <1>12, <2>1 DEF Moves, Calm, Inv, Weak, State
  <2> QED BY <1>9, <2>1, <2>2 DEF Starts, Moves, Still
<1>14. Starts(s, l3, e) /\ Inv(l3)
  <2>1. CASE l3 = lnk
    BY <1>12, <1>13, <2>1
  <2>2. CASE l3 = [lnk EXCEPT !.l3 = "main"]
    <3>1. /\ l3 \in State /\ l3.state = lnk.state /\ l3.told = lnk.told
          /\ l3.config = lnk.config /\ l3.available = lnk.available
          /\ l3.sm = lnk.sm /\ l3.tdtimer = lnk.tdtimer
          /\ l3.alive = lnk.alive /\ l3.dynamic = lnk.dynamic
          /\ l3.script = lnk.script /\ l3.task = lnk.task
          /\ l3.renew = lnk.renew /\ l3.proto = lnk.proto
      BY <1>12, <2>2 DEF Inv, Weak, State
    <3> QED
      BY <1>12, <1>13, <3>1
      DEF Inv, Weak, Known, Timed, Held, Stopped, Idle, Waits, Busy, Starts, Tended
  <2> QED BY <1>5, <2>1, <2>2 DEF BindL3
<1>15. CASE t = SetAvailable(l3, TRUE, e)
  <2>1. Moves(l3, t, e) /\ Inv(t)
    BY <1>14, <1>15, BecomeAvailableMoves, SetAvailableInv
  <2>2. t.state \in {"DOWN", "SETUP"}
    BY <1>14, <2>1 DEF Starts, Moves, Calm, Inv, Weak, State
  <2> QED BY <1>14, <2>1, <2>2 DEF Starts, Moves, Still
<1> QED BY <1>6, <1>14, <1>15

(* The end of a run: another begins, or the interface is removed because it *)
(* was asked for, or because nobody wants a dynamic interface any more.     *)
Handled(s, t, e) ==
  \/ /\ s.config # "REMOVE"
     /\ t.alive = s.alive /\ t.dynamic = s.dynamic /\ t.config = "NORMAL"
     /\ t.state \in {"DOWN", "SETUP"}
     /\ e.fork /\ Tended(s) => Tended(t)
  \/ (s.config = "REMOVE" \/ s.dynamic) /\ ~t.alive /\ Gone(t)

LEMMA HandleConfigChangeEnds ==
  ASSUME NEW s, Weak(s), s.state = "DOWN", NEW e \in Envs,
         NEW t, t = HandleConfigChange(s, e)
  PROVE  Handled(s, t, e)
<1>1. PICK n : n = [s EXCEPT !.config = "NORMAL"]
  OBVIOUS
<1>2. PICK d : d = Detached(n)
  OBVIOUS
<1>3. PICK r : r = IF s.config = "RELOAD" THEN Attach(d, e) ELSE n
  OBVIOUS
<1>4. /\ n \in State /\ n.state = "DOWN" /\ n.told = "DOWN"
      /\ n.config = "NORMAL" /\ n.available = s.available
      /\ n.sm = s.sm /\ n.tdtimer = s.tdtimer
  BY <1>1 DEF Weak, Known, State
<1>5. /\ n.alive = s.alive /\ n.dynamic = s.dynamic
      /\ Tended(s) => Tended(n)
  BY <1>1 DEF Weak, State, Tended
<1>6. Inv(n)
  BY <1>4
  DEF Inv, Weak, Known, Timed, Held, Stopped, Idle, Waits, Busy
<1>7. CASE s.config = "REMOVE"
  <2>1. t = DoFree(n)
    BY <1>1, <1>7 DEF HandleConfigChange
  <2> QED BY <1>4, <1>7, <2>1, DoFreeGone DEF Handled
<1>8. CASE s.config # "REMOVE"
  <2>1. t = Resume(r, e)
    BY <1>1, <1>2, <1>3, <1>8 DEF HandleConfigChange
  <2>2. /\ Inv(r) /\ r.told = "DOWN"
        /\ r.alive = s.alive /\ r.dynamic = s.dynamic /\ r.config = "NORMAL"
        /\ r.state \in {"DOWN", "SETUP"}
        /\ e.fork /\ Tended(s) => Tended(r)
    <3>1. CASE s.config = "RELOAD"
      <4>1. Inv(d) /\ d.state = "DOWN"
        BY <1>2, <1>4, DetachedDown DEF Inv, Waits
      <4>2. /\ Bare(d) /\ d.alive = n.alive /\ d.dynamic = n.dynamic
            /\ d.config = n.config
        BY <1>2, <1>4, DetachedBare
      <4>3. r = Attach(d, e)
        BY <1>3, <3>1
      <4>4. Inv(r) /\ r.state # "UP" /\ Starts(d, r, e)
        BY <4>1, <4>2, <4>3, AttachInv, AttachStarts
      <4> QED
        BY <1>4, <1>5, <4>2, <4>4 DEF Starts, Inv, Weak, Known, State
    <3>2. CASE s.config # "RELOAD"
      BY <1>3, <1>4, <1>5, <1>6, <3>2
    <3> QED BY <3>1, <3>2
  <2>3. CASE t = InterfaceSetUp(r, e)
    <3>1. Moves(r, t, e) /\ Inv(t)
      BY <2>2, <2>3, InterfaceSetUpMoves, InterfaceSetUpInv
    <3>2. t.state \in {"DOWN", "SETUP"}
      BY <2>2, <3>1 DEF Moves, Calm, Inv, Weak, State
    <3> QED BY <1>8, <2>2, <3>1, <3>2 DEF Handled, Moves, Still
  <2>4. CASE r.dynamic /\ t = DoFree(r)
    BY <2>2, <2>4, DoFreeGone DEF Handled, Inv, Weak
  <2>5. CASE t = r
    BY <1>8, <2>2, <2>5 DEF Handled
  <2> QED BY <2>1, <2>3, <2>4, <2>5 DEF Resume
<1> QED BY <1>7, <1>8

-----------------------------------------------------------------------------
(* The steps of a life, between callbacks. *)

Lived(s, t) ==
  \/ /\ ~s.alive /\ ~t.alive
  \/ /\ ~s.alive /\ t.alive
     /\ t.state \in {"DOWN", "SETUP"} /\ t.config = "NORMAL"
  \/ /\ s.alive /\ t.alive /\ t.config = s.config
     /\ t.state = "TEARDOWN" <=> s.state = "TEARDOWN"
     /\ t.dynamic = s.dynamic \/ (t.dynamic /\ (s.state = "SETUP" => t.state # "UP"))
  \/ /\ s.alive /\ t.alive /\ s.state \in {"SETUP", "UP", "TEARDOWN"}
     /\ t.state = "TEARDOWN" /\ t.config # "NORMAL"
  \/ /\ s.alive /\ t.alive /\ s.state \in {"SETUP", "UP"}
     /\ t.state = "TEARDOWN"
  \/ /\ s.alive /\ t.alive /\ s.state = "TEARDOWN" /\ s.config # "REMOVE"
     /\ t.state \in {"DOWN", "SETUP"} /\ t.config = "NORMAL"
  \/ /\ s.alive /\ ~t.alive
     /\ s.state = "DOWN" \/ s.dynamic \/ (s.state = "TEARDOWN" /\ s.config = "REMOVE")

HoldsUp(s) == s.state = "UP" => s.l3 # "none" /\ "l3_dev" \in s.claimed

Step(s, t, e) ==
  /\ Lived(s, t) /\ Gone(t)
  /\ s.main /\ Fit(s) => (t.state = "UP" => Ready(t))
  /\ e.claim /\ HoldsUp(s) => HoldsUp(t)
  /\ e.fork /\ Tended(s) => Tended(t)

LEMMA MovesStep ==
  ASSUME NEW s, NEW t, NEW e, s.alive, Moves(s, t, e)
  PROVE  Step(s, t, e)
<1>1. Lived(s, t)
  BY DEF Moves, Still, Calm, Lived
<1> QED BY <1>1 DEF Step, Moves, Still, Calm, Keeping, Gone, HoldsUp, Fit

(* A request to reload or remove. *)
Asked(s, t, e) ==
  /\ Gone(t) /\ (e.fork /\ Tended(s) => Tended(t))
  /\ t.state # "UP"
  /\ IF s.state = "DOWN"
     THEN t.alive => /\ t.config = "NORMAL" /\ t.dynamic = s.dynamic
                     /\ t.state \in {"DOWN", "SETUP"}
     ELSE t.alive /\ t.state = "TEARDOWN" /\ t.config # "NORMAL"

LEMMA SetConfigStateAsks ==
  ASSUME NEW s, Inv(s), s.alive, NEW c \in {"RELOAD", "REMOVE"}, NEW e \in Envs,
         NEW t, t = SetConfigState(s, c, e)
  PROVE  Asked(s, t, e)
<1>1. PICK q : q = [s EXCEPT !.config = c]
  OBVIOUS
<1>2. /\ q \in State /\ q.state = s.state /\ q.told = s.told
      /\ q.available = s.available /\ q.sm = s.sm /\ q.tdtimer = s.tdtimer
      /\ q.config = c
  BY <1>1 DEF Inv, Weak, State
<1>3. Weak(q) /\ Timed(q)
  BY <1>2 DEF Inv, Weak, Known, Timed, Stopped, Held, Busy
<1>4. /\ q.alive = s.alive /\ q.dynamic = s.dynamic /\ (Tended(s) => Tended(q))
  BY <1>1 DEF Inv, Weak, State, Tended
<1>5. CASE q.state = "DOWN"
  <2>1. t = HandleConfigChange(q, e)
    BY <1>1, <1>5 DEF SetConfigState
  <2>2. Handled(q, t, e)
    BY <1>3, <1>5, <2>1, HandleConfigChangeEnds
  <2> QED BY <1>2, <1>4, <1>5, <2>2 DEF Handled, Asked, Gone, Bare, Tended
<1>6. CASE q.state # "DOWN"
  <2>1. t = SetDown(q, FALSE, e)
    BY <1>1, <1>6 DEF SetConfigState
  <2>2. /\ Still(q, t) /\ t.state = "TEARDOWN"
        /\ e.fork /\ Tended(q) => Tended(t)
    BY <1>2, <1>3, <1>6, <2>1, SetDownMoves
  <2> QED BY <1>2, <1>4, <1>6, <2>2 DEF Asked, Still, Gone
<1> QED BY <1>5, <1>6

(* interface_change_config, with the settings it has put into the interface.*)
Changed(s, t, e) ==
  \/ Asked(s, t, e)
  \/ /\ t.alive /\ t.config = s.config /\ t.dynamic = s.dynamic
     /\ Calm(s, t) /\ Keeping(s, t) /\ t.l3 = s.l3
     /\ s.main => t.main /\ Fit(t)
     /\ e.fork /\ Tended(s) => Tended(t)

LEMMA ChangeConfigChanges ==
  ASSUME NEW s, Inv(s), s.alive, NEW h \in Protocols, NEW a \in BOOLEAN,
         NEW f \in Links, NEW changed \in BOOLEAN, NEW e \in Envs,
         NEW t, t = ChangeConfig(s, h, a, f, changed, e)
  PROVE  Changed(s, t, e)
<1>1. PICK v : v = IF s.cfgauto # a THEN a ELSE s.autostart
  OBVIOUS
<1>2. PICK q : q = [s EXCEPT !.autostart = v, !.cfgauto = a]
  OBVIOUS
<1>3. PICK r : r = [q EXCEPT !.force = f, !.handler = h]
  OBVIOUS
<1>4. f \in BOOLEAN /\ h \in SUBSET AllFlags /\ v \in BOOLEAN
  BY <1>1, ConstantsAssumption DEF Inv, Weak, State
<1>5. q \in State /\ Same(s, q)
  BY <1>2, <1>4, ZenonT(60) DEF Inv, Weak, State, Same
<1>6. r \in State /\ Same(q, r)
  BY <1>3, <1>4, <1>5, ZenonT(60) DEF State, Same
<1>7. Inv(r)
  BY <1>5, <1>6, SameInv
<1>8. /\ r.alive = s.alive /\ r.dynamic = s.dynamic /\ r.config = s.config
      /\ r.main = s.main /\ r.l3 = s.l3 /\ r.state = s.state
      /\ r.claimed = s.claimed /\ (Tended(s) => Tended(r))
  <2>1. /\ q.alive = s.alive /\ q.dynamic = s.dynamic /\ q.config = s.config
        /\ q.main = s.main /\ q.l3 = s.l3 /\ q.state = s.state
        /\ q.claimed = s.claimed /\ (Tended(s) => Tended(q))
    BY <1>2 DEF Inv, Weak, State, Tended
  <2> QED BY <1>3, <1>5, <2>1 DEF State, Tended
<1>9. \/ t = SetConfigState(r, "RELOAD", e)
      \/ t = CheckState(r, e)
      \/ ~s.main /\ t = r
  BY <1>1, <1>2, <1>3 DEF ChangeConfig
<1>10. CASE t = SetConfigState(r, "RELOAD", e)
  <2>1. Asked(r, t, e)
    BY <1>7, <1>8, <1>10, SetConfigStateAsks
  <2>2. Asked(s, t, e)
    BY <1>8, <2>1 DEF Asked
  <2> QED BY <2>2 DEF Changed
<1>11. CASE t = CheckState(r, e)
  <2>1. Moves(r, t, e) /\ (r.main => Fit(t))
    BY <1>7, <1>11, CheckStateMoves
  <2> QED BY <1>8, <2>1 DEF Changed, Moves, Still, Calm, Keeping
<1>12. CASE ~s.main /\ t = r
  BY <1>8, <1>12 DEF Changed, Calm, Keeping
<1> QED BY <1>9, <1>10, <1>11, <1>12

(* What follows it in a reload: the interfaces that are available start.    *)
LEMMA ChangedThenPending ==
  ASSUME NEW s, s.alive, NEW q, Inv(q), NEW e \in Envs, Changed(s, q, e),
         Inv(s), NEW f \in Envs, f.fork = e.fork, NEW t, t = StartPending(q, f)
  PROVE  Step(s, t, e)
<1>1. CASE t = q
  <2>1. CASE Asked(s, q, e)
    BY <1>1, <2>1 DEF Asked, Step, Lived, HoldsUp, Inv, Weak, State, Waits
  <2>2. CASE ~Asked(s, q, e)
    <3>1. Lived(s, q)
      BY <2>2 DEF Changed, Calm, Lived
    <3> QED
      BY <1>1, <2>2, <3>1 DEF Changed, Step, Calm, Keeping, Fit, HoldsUp, Gone
  <2> QED BY <2>1, <2>2
<1>2. CASE q.alive /\ t = InterfaceSetUp(q, f)
  <2>1. Moves(q, t, f)
    BY <1>2, InterfaceSetUpMoves
  <2>2. t \in State
    BY <1>2, InterfaceSetUpInv DEF Inv, Weak
  <2>3. CASE Asked(s, q, e)
    BY <1>2, <2>1, <2>2, <2>3
    DEF Asked, Step, Lived, HoldsUp, Moves, Still, Calm, Gone, Inv, Weak, State, Waits
  <2>4. CASE ~Asked(s, q, e)
    <3>1. Lived(s, t)
      BY <1>2, <2>1, <2>4 DEF Changed, Moves, Still, Calm, Lived
    <3> QED
      BY <1>2, <2>1, <2>4, <3>1
      DEF Changed, Moves, Still, Step, Calm, Keeping, Fit, HoldsUp, Gone
  <2> QED BY <2>3, <2>4
<1> QED BY <1>1, <1>2 DEF StartPending

LEMMA ChangedThenDynamic ==
  ASSUME NEW s, s.alive, Inv(s), NEW q, Inv(q), NEW e \in Envs, Changed(s, q, e),
         NEW t, t = SetDynamic(q)
  PROVE  Step(s, t, e)
<1>1. CASE ~q.alive
  <2>1. t = q /\ Asked(s, q, e)
    BY <1>1 DEF SetDynamic, Changed
  <2> QED BY <2>1, <1>1 DEF Asked, Step, Lived, HoldsUp, Inv, Weak, State, Waits
<1>2. CASE q.alive
  <2>1. t = [q EXCEPT !.dynamic = TRUE, !.autostart = TRUE]
    BY <1>2 DEF SetDynamic
  <2>2. /\ t.alive /\ t.dynamic /\ t.state = q.state /\ t.config = q.config
        /\ t.main = q.main /\ t.l3 = q.l3 /\ t.claimed = q.claimed
        /\ t.enabled = q.enabled /\ t.link = q.link /\ t.force = q.force
        /\ Tended(q) => Tended(t)
    BY <1>2, <2>1 DEF Inv, Weak, State, Tended
  <2>3. CASE Asked(s, q, e)
    <3>1. s.state = "DOWN" => s.config = "NORMAL"
      BY DEF Inv, Waits
    <3>2. s.state \in {"SETUP", "UP", "TEARDOWN", "DOWN"}
      BY DEF Inv, Weak, State
    <3>3. Lived(s, t)
      BY <1>2, <2>2, <2>3, <3>1, <3>2 DEF Asked, Lived
    <3> QED BY <2>2, <2>3, <3>3 DEF Asked, Step, HoldsUp, Gone
  <2>4. CASE ~Asked(s, q, e)
    <3>1. Lived(s, t)
      BY <2>2, <2>4 DEF Changed, Calm, Lived
    <3> QED
      BY <2>2, <2>4, <3>1
      DEF Changed, Step, Calm, Keeping, Fit, HoldsUp, Gone, Ready, LinkOk
  <2> QED BY <2>3, <2>4
<1> QED BY <1>1, <1>2

-----------------------------------------------------------------------------
(* The steps of a handler that leave an interface where it is, and those    *)
(* that do not leave it UP.                                                 *)

LEMMA KeptStep ==
  ASSUME NEW s, NEW t, NEW e, s.alive, Still(s, t), t.state = s.state,
         t.claimed = s.claimed, t.enabled = s.enabled, t.link = s.link,
         e.fork /\ Tended(s) => Tended(t)
  PROVE  Step(s, t, e)
<1>1. Lived(s, t)
  BY DEF Still, Lived
<1> QED BY <1>1 DEF Step, Still, Gone, Fit, Ready, LinkOk, HoldsUp

LEMMA QuietStep ==
  ASSUME NEW s, NEW t, NEW e, s.alive, Still(s, t), t.state # "UP",
         t.state = "TEARDOWN" <=> s.state = "TEARDOWN",
         e.fork /\ Tended(s) => Tended(t)
  PROVE  Step(s, t, e)
<1>1. Lived(s, t)
  BY DEF Still, Lived
<1> QED BY <1>1 DEF Step, Still, Gone, HoldsUp

LEMMA SetDownStep ==
  ASSUME NEW s \in State, Timed(s), s.alive, NEW force \in BOOLEAN,
         NEW e \in Envs, NEW t, t = SetDown(s, force, e)
  PROVE  Step(s, t, e)
<1>1. /\ Still(s, t) /\ (e.fork /\ Tended(s) => Tended(t))
      /\ t.state = IF s.state = "DOWN" THEN "DOWN" ELSE "TEARDOWN"
  BY SetDownMoves
<1>2. s.state \in {"SETUP", "UP", "TEARDOWN", "DOWN"}
  BY DEF State
<1>3. Lived(s, t)
  BY <1>1, <1>2 DEF Still, Lived
<1> QED BY <1>1, <1>3 DEF Step, Still, Gone, HoldsUp

LEMMA SetAvailableStep ==
  ASSUME NEW s, Inv(s), s.alive, NEW v \in BOOLEAN, NEW e \in Envs,
         NEW t, t = SetAvailable(s, v, e)
  PROVE  Step(s, t, e)
<1>1. CASE v
  <2>1. t = SetAvailable(s, TRUE, e)
    BY <1>1
  <2> QED BY <2>1, BecomeAvailableMoves, MovesStep
<1>2. CASE ~v /\ s.available
  <2>1. PICK q : q = [s EXCEPT !.available = v]
    OBVIOUS
  <2>2. /\ q \in State /\ q.state = s.state /\ q.sm = s.sm
        /\ q.tdtimer = s.tdtimer /\ q.claimed = s.claimed
    BY <2>1 DEF Inv, Weak, State
  <2>3. /\ Still(s, q) /\ q.enabled = s.enabled /\ q.link = s.link
        /\ Tended(s) => Tended(q)
    BY <2>1 DEF Inv, Weak, State, Still, Tended
  <2>4. Timed(q) /\ q.alive
    BY <2>2, <2>3 DEF Inv, Weak, Timed, Busy, Still
  <2>5. t = SetDown(q, TRUE, e)
    BY <1>2, <2>1 DEF SetAvailable, Inv, Weak, State
  <2>6. Step(q, t, e)
    BY <2>2, <2>4, <2>5, SetDownStep
  <2>7. Lived(s, t)
    BY <2>2, <2>3, <2>6 DEF Step, Still, Lived
  <2> QED
    BY <2>2, <2>3, <2>6, <2>7 DEF Step, Still, Fit, Ready, LinkOk, HoldsUp
<1>3. CASE ~v /\ ~s.available
  <2>1. t = s
    BY <1>3 DEF SetAvailable, Inv, Weak, State
  <2> QED BY <2>1, KeptStep DEF Still
<1> QED BY <1>1, <1>2, <1>3

LEMMA TeardownStep ==
  ASSUME NEW s \in State, Timed(s), s.alive, NEW e \in Envs,
         NEW t, t = ShellTeardown(s, e)
  PROVE  Step(s, t, e)
<1>1. /\ Still(s, t) /\ LinkSame(s, t) /\ t.claimed = s.claimed
      /\ t.state = s.state /\ t.enabled = s.enabled
      /\ e.fork /\ Tended(s) => Tended(t)
  BY TeardownStill, TeardownTended
<1> QED BY <1>1, KeptStep DEF LinkSame

(* IFPEV_LINK_LOST may give up the last claim on the device and so disable  *)
(* the interface it leaves in SETUP.                                        *)
LEMMA ProtoLinkLostStill ==
  ASSUME NEW s \in State, NEW t, t = ProtoLinkLost(s)
  PROVE  /\ t \in State /\ Still(s, t) /\ t.state # "UP"
         /\ t.state = "TEARDOWN" <=> s.state = "TEARDOWN"
         /\ t.sm = s.sm /\ t.script = s.script /\ t.renew = s.renew
         /\ t.tdtimer = s.tdtimer
<1>1. CASE s.state # "UP"
  <2>1. t = s
    BY <1>1 DEF ProtoLinkLost
  <2> QED BY <1>1, <2>1 DEF Still
<1>2. CASE s.state = "UP"
  <2>1. PICK q : q = MarkDown(s)
    OBVIOUS
  <2>2. /\ q \in State /\ Still(s, q) /\ q.sm = s.sm
        /\ q.script = s.script /\ q.renew = s.renew /\ q.tdtimer = s.tdtimer
    BY <2>1, MarkDownStill
  <2>3. t = [q EXCEPT !.state = "SETUP"]
    BY <1>2, <2>1 DEF ProtoLinkLost
  <2>4. /\ t \in State /\ t.state = "SETUP" /\ Still(q, t) /\ t.sm = q.sm
        /\ t.script = q.script /\ t.renew = q.renew /\ t.tdtimer = q.tdtimer
    BY <2>2, <2>3 DEF State, Still
  <2> QED BY <1>2, <2>2, <2>4 DEF Still
<1> QED BY <1>1, <1>2

(* ... and then the handler is torn down. *)
LEMMA LostThenTeardown ==
  ASSUME NEW s \in State, Timed(s), s.alive, NEW e \in Envs,
         NEW t, t = ShellTeardown(ProtoLinkLost(s), e)
  PROVE  Step(s, t, e)
<1>1. PICK q : q = ProtoLinkLost(s)
  OBVIOUS
<1>2. /\ q \in State /\ Still(s, q) /\ q.state # "UP"
      /\ q.state = "TEARDOWN" <=> s.state = "TEARDOWN"
      /\ q.sm = s.sm /\ q.script = s.script /\ q.renew = s.renew
      /\ q.tdtimer = s.tdtimer
  BY <1>1, ProtoLinkLostStill
<1>3. Timed(q) /\ (Tended(s) => Tended(q))
  BY <1>2 DEF Timed, Busy, Tended, Still
<1>4. t = ShellTeardown(q, e)
  BY <1>1
<1>5. /\ Still(q, t) /\ t.state = q.state
      /\ e.fork /\ Tended(q) => Tended(t)
  BY <1>2, <1>3, <1>4, TeardownStill, TeardownTended
<1>6. Still(s, t)
  BY <1>2, <1>5 DEF Still
<1> QED BY <1>2, <1>3, <1>5, <1>6, QuietStep

(* IFPEV_DOWN: the end of a teardown, or of a run nobody asked to stop.     *)
LEMMA ProtoDownEnds ==
  ASSUME NEW s, Weak(s), Waits(s), s.alive, NEW e \in Envs,
         NEW t, t = ProtoDown(s, e)
  PROVE  /\ Lived(s, t) /\ Gone(t) /\ t.state # "UP"
         /\ e.fork /\ Tended(s) => Tended(t)
<1>1. CASE s.state = "DOWN"
  BY <1>1 DEF ProtoDown, Lived, Gone
<1>2. CASE s.state # "DOWN"
  <2>1. PICK m : m = MarkDown(s)
    OBVIOUS
  <2>2. PICK r : r = Release(m, "main_dev")
    OBVIOUS
  <2>3. PICK q : q = [r EXCEPT !.l3 = "none"]
    OBVIOUS
  <2>4. /\ Weak(m) /\ m.state = "DOWN" /\ Still(s, m) /\ m.sm = s.sm
        /\ m.script = s.script /\ m.renew = s.renew
    BY <2>1, MarkDownDown, MarkDownStill DEF Weak
  <2>5. /\ r \in State /\ Same(m, r) /\ Still(m, r)
        /\ r.script = m.script /\ r.renew = m.renew
    BY <2>2, <2>4, ReleaseFrame, ReleaseStill DEF Weak
  <2>6. /\ q \in State /\ q.state = r.state /\ q.told = r.told
        /\ q.available = r.available /\ q.sm = r.sm /\ q.tdtimer = r.tdtimer
        /\ q.alive = r.alive /\ q.dynamic = r.dynamic /\ q.config = r.config
        /\ q.script = r.script /\ q.task = r.task /\ q.renew = r.renew
        /\ q.proto = r.proto
    BY <2>3, <2>5 DEF State
  <2>7. Weak(q) /\ q.state = "DOWN"
    BY <2>4, <2>5, <2>6 DEF Weak, Known, Timed, Stopped, Busy, Same
  <2>8. t = HandleConfigChange(q, e)
    BY <1>2, <2>1, <2>2, <2>3 DEF ProtoDown
  <2>9. Handled(q, t, e)
    BY <2>7, <2>8, HandleConfigChangeEnds
  <2>10. /\ q.alive = s.alive /\ q.dynamic = s.dynamic /\ q.config = s.config
         /\ Tended(s) => Tended(q)
    BY <2>4, <2>5, <2>6 DEF Still, Same, Tended
  <2>11. s.state \in {"SETUP", "UP", "TEARDOWN"}
    BY <1>2 DEF Weak, State
  <2>12. s.config # "NORMAL" => s.state = "TEARDOWN"
    BY DEF Waits
  <2>13. CASE s.config # "REMOVE" /\ t.alive
    <3>1. /\ t.dynamic = s.dynamic /\ t.config = "NORMAL"
          /\ t.state \in {"DOWN", "SETUP"}
          /\ e.fork /\ Tended(s) => Tended(t)
      BY <2>9, <2>10, <2>13 DEF Handled
    <3>2. Lived(s, t)
      BY <2>11, <2>12, <2>13, <3>1 DEF Lived
    <3> QED BY <2>13, <3>1, <3>2 DEF Gone
  <2>14. CASE ~t.alive
    <3>1. (s.config = "REMOVE" \/ s.dynamic) /\ Gone(t)
      BY <2>9, <2>10, <2>14 DEF Handled
    <3>2. Lived(s, t)
      BY <2>12, <2>14, <3>1 DEF Lived
    <3> QED BY <2>14, <3>1, <3>2 DEF Gone, Bare, Tended
  <2> QED BY <2>9, <2>10, <2>13, <2>14 DEF Handled
<1> QED BY <1>1, <1>2

LEMMA ShellRenewStill ==
  ASSUME NEW s \in State, NEW e \in Envs, NEW t, t = ShellRenew(s, e)
  PROVE  /\ t \in State /\ Still(s, t) /\ t.state = s.state
         /\ t.claimed = s.claimed /\ t.enabled = s.enabled /\ t.link = s.link
         /\ t.sm = s.sm
         /\ e.fork /\ Tended(s) => Tended(t)
<1>1. CASE "RENEW_AVAILABLE" \notin s.proto
  <2>1. t = s
    BY <1>1 DEF ShellRenew
  <2> QED BY <2>1 DEF Still
<1>2. CASE "RENEW_AVAILABLE" \in s.proto /\ s.script
  <2>1. t = [s EXCEPT !.renew = TRUE]
    BY <1>2 DEF ShellRenew
  <2> QED BY <1>2, <2>1, ZenonT(60) DEF State, Still, Tended
<1>3. CASE "RENEW_AVAILABLE" \in s.proto /\ ~s.script
  <2>1. t = [[s EXCEPT !.renew = FALSE] EXCEPT !.script = e.fork]
    BY <1>3 DEF ShellRenew, StartScript
  <2> QED BY <2>1, ZenonT(60) DEF State, Envs, Still, Tended
<1> QED BY <1>1, <1>2, <1>3

(* The script of a set-up or of a renewal has ended.                        *)
LEMMA ScriptDoneStill ==
  ASSUME NEW s \in State, Timed(s), ~s.script, NEW e \in Envs,
         NEW t, t = ScriptDone(s, e)
  PROVE  /\ Still(s, t) /\ t.state = s.state
         /\ t.claimed = s.claimed /\ t.enabled = s.enabled /\ t.link = s.link
         /\ e.fork /\ (s.renew => "RENEW_AVAILABLE" \in s.proto) => Tended(t)
<1>1. PICK q : q = CASE s.renew -> ShellRenew(s, e)
                     [] /\ ~s.renew /\ "NO_TASK" \notin s.proto
                        /\ ~s.task /\ s.sm = "S_SETUP" -> ShellTeardown(s, e)
                     [] OTHER -> s
  OBVIOUS
<1>2. /\ q \in State /\ Still(s, q) /\ q.state = s.state
      /\ q.claimed = s.claimed /\ q.enabled = s.enabled /\ q.link = s.link
      /\ e.fork /\ (s.renew => "RENEW_AVAILABLE" \in s.proto) => Tended(q)
  <2>1. CASE s.renew
    <3>1. q = ShellRenew(s, e)
      BY <1>1, <2>1
    <3>2. ASSUME "RENEW_AVAILABLE" \in s.proto, e.fork
          PROVE  Tended(q)
      <4>1. q = [[s EXCEPT !.renew = FALSE] EXCEPT !.script = e.fork]
        BY <3>1, <3>2 DEF ShellRenew, StartScript
      <4> QED BY <3>2, <4>1 DEF State, Tended
    <3> QED BY <2>1, <3>1, <3>2, ShellRenewStill
  <2>2. CASE /\ ~s.renew /\ "NO_TASK" \notin s.proto
             /\ ~s.task /\ s.sm = "S_SETUP"
    <3>1. q = ShellTeardown(s, e)
      BY <1>1, <2>2
    <3>2. /\ q \in State /\ Still(s, q) /\ LinkSame(s, q) /\ q.state = s.state
          /\ q.claimed = s.claimed /\ q.enabled = s.enabled
      BY <3>1, TeardownStill
    <3>3. q = [[s EXCEPT !.tdtimer = TRUE, !.renew = FALSE, !.sm = "S_TEARDOWN"]
                 EXCEPT !.script = e.fork]
      BY <2>2, <3>1 DEF ShellTeardown, StartScript
    <3>4. Tended(q)
      BY <3>3 DEF State, Tended
    <3> QED BY <3>2, <3>4 DEF LinkSame
  <2>3. CASE q = s /\ ~s.renew
             /\ ("NO_TASK" \in s.proto \/ s.task \/ s.sm # "S_SETUP")
    BY <2>3 DEF Still, Tended
  <2> QED BY <1>1, <2>1, <2>2, <2>3
<1>3. t = q \/ t = [q EXCEPT !.chktimer = TRUE]
  BY <1>1 DEF ScriptDone
<1>4. CASE t = [q EXCEPT !.chktimer = TRUE]
  <2>1. /\ Still(q, t) /\ t.state = q.state /\ t.claimed = q.claimed
        /\ t.enabled = q.enabled /\ t.link = q.link
        /\ Tended(q) => Tended(t)
    BY <1>2, <1>4 DEF State, Still, Tended
  <2> QED BY <1>2, <2>1 DEF Still
<1> QED BY <1>2, <1>3, <1>4

LEMMA ShellIdleStill ==
  ASSUME NEW s \in State, NEW t, t = ShellIdle(s)
  PROVE  /\ t \in State /\ Timed(t) /\ Still(s, t) /\ t.state = s.state
         /\ t.claimed = s.claimed /\ t.enabled = s.enabled /\ t.link = s.link
         /\ (s.renew => "RENEW_AVAILABLE" \in s.proto) => Tended(t)
<1>1. t \in State /\ Timed(t) /\ t.sm = "S_IDLE"
  BY ShellIdleFrame
<1>2. t = [s EXCEPT !.sm = "S_IDLE", !.tdtimer = FALSE, !.chktimer = FALSE]
  BY DEF ShellIdle
<1>3. /\ Still(s, t) /\ t.state = s.state /\ t.renew = s.renew
      /\ t.claimed = s.claimed /\ t.enabled = s.enabled /\ t.link = s.link
  BY <1>2 DEF State, Still
<1> QED BY <1>1, <1>3 DEF Tended, Still

(* What a child's end, or the timer that has just killed them all, finds.   *)
(* s has the child taken away already, so that somebody else may have to    *)
(* take over: only the renewal is as it was.                                *)
LEMMA TaskFinishSteps ==
  ASSUME NEW s \in State, Known(s), Stopped(s), Held(s), Idle(s), Waits(s),
         Timed(s) \/ (Busy(s) /\ ~s.script /\ ~s.task), s.alive,
         NEW who \in {"script", "task", "timer"},
         who = "script" => ~s.script, who = "timer" => Busy(s),
         NEW e \in Envs, NEW t, t = TaskFinish(s, who, e)
  PROVE  /\ Lived(s, t) /\ Gone(t)
         /\ s.main /\ Fit(s) => (t.state = "UP" => Ready(t))
         /\ e.claim /\ HoldsUp(s) => HoldsUp(t)
         /\ e.fork /\ (s.renew => "RENEW_AVAILABLE" \in s.proto) => Tended(t)
<1>1. PICK q : q = ShellIdle(s)
  OBVIOUS
<1>2. /\ q \in State /\ Timed(q) /\ Still(s, q) /\ q.state = s.state
      /\ q.claimed = s.claimed /\ q.enabled = s.enabled /\ q.link = s.link
      /\ (s.renew => "RENEW_AVAILABLE" \in s.proto) => Tended(q)
  BY <1>1, ShellIdleStill
<1>3. Weak(q) /\ Waits(q) /\ q.alive
  <2>1. /\ q.told = s.told /\ q.config = s.config /\ q.available = s.available
    BY <1>1, ShellIdleFrame
  <2> QED BY <1>2, <2>1 DEF Weak, Known, Stopped, Waits, Still
<1>4. CASE s.sm \in {"S_SETUP_ABORT", "S_TEARDOWN"} /\ (s.script \/ s.task)
  <2>1. t = s
    BY <1>4 DEF TaskFinish
  <2> QED BY <1>4, <2>1, KeptStep DEF Still, Step, Tended
<1>5. CASE s.sm = "S_SETUP_ABORT" /\ ~(s.script \/ s.task)
  <2>1. t = ShellTeardown(q, e)
    BY <1>1, <1>5 DEF TaskFinish
  <2>2. Step(q, t, e)
    BY <1>2, <1>3, <2>1, TeardownStep DEF Weak
  <2>3. Lived(s, t)
    BY <1>2, <2>2 DEF Step, Still, Lived
  <2> QED
    BY <1>2, <2>2, <2>3 DEF Step, Still, Fit, Ready, LinkOk, HoldsUp
<1>6. CASE s.sm = "S_TEARDOWN" /\ ~(s.script \/ s.task)
  <2>1. t = ProtoDown(q, e)
    BY <1>1, <1>6 DEF TaskFinish
  <2>2. /\ Lived(q, t) /\ Gone(t) /\ t.state # "UP"
        /\ e.fork /\ Tended(q) => Tended(t)
    BY <1>3, <2>1, ProtoDownEnds
  <2>3. Lived(s, t)
    BY <1>2, <2>2 DEF Still, Lived
  <2> QED BY <1>2, <2>2, <2>3 DEF HoldsUp
<1>7. CASE ~Busy(s)
  <2>1. Timed(s) /\ who # "timer"
    BY <1>7
  <2>2. CASE s.sm = "S_IDLE" /\ who = "task"
    <3>1. t = ShellTeardown(ProtoLinkLost(s), e)
      BY <2>2 DEF TaskFinish
    <3> QED BY <2>1, <2>2, <3>1, LostThenTeardown DEF Step, Tended
  <2>3. CASE s.sm = "S_SETUP" /\ who = "task"
    <3>1. t = ShellTeardown(s, e)
      BY <2>3 DEF TaskFinish
    <3>2. Step(s, t, e)
      BY <2>1, <3>1, TeardownStep
    <3>3. e.fork /\ (s.renew => "RENEW_AVAILABLE" \in s.proto) => Tended(t)
      <4>1. CASE s.script
        <5>1. t = [s EXCEPT !.tdtimer = TRUE, !.renew = FALSE, !.sm = "S_SETUP_ABORT"]
          BY <2>3, <3>1, <4>1 DEF ShellTeardown
        <5> QED BY <5>1 DEF State, Tended
      <4>2. CASE ~s.script
        <5>1. t = [[s EXCEPT !.tdtimer = TRUE, !.renew = FALSE, !.sm = "S_TEARDOWN"]
                     EXCEPT !.script = e.fork]
          BY <2>3, <3>1, <4>2 DEF ShellTeardown, StartScript
        <5> QED BY <5>1 DEF State, Tended
      <4> QED BY <4>1, <4>2
    <3> QED BY <3>2, <3>3 DEF Step
  <2>4. CASE s.sm \in {"S_IDLE", "S_SETUP"} /\ who = "script"
    <3>1. t = ScriptDone(s, e) /\ ~s.script
      BY <2>4 DEF TaskFinish
    <3>2. /\ Still(s, t) /\ t.state = s.state
          /\ t.claimed = s.claimed /\ t.enabled = s.enabled /\ t.link = s.link
          /\ e.fork /\ (s.renew => "RENEW_AVAILABLE" \in s.proto) => Tended(t)
      BY <2>1, <3>1, ScriptDoneStill
    <3>3. Step(s, t, e)
      BY <3>2, KeptStep DEF Tended
    <3> QED BY <3>2, <3>3 DEF Step
  <2> QED BY <1>7, <2>1, <2>2, <2>3, <2>4 DEF Busy, State
<1> QED BY <1>4, <1>5, <1>6, <1>7 DEF Busy

-----------------------------------------------------------------------------
(* proto_shell_update_link: what Moves says, apart from the layer 3 device. *)

Follows(s, t, e) ==
  /\ t.alive = s.alive /\ t.dynamic = s.dynamic /\ t.config = s.config
  /\ t.main = s.main /\ Calm(s, t)
  /\ s.main /\ Fit(s) => Fit(t)
  /\ e.fork /\ Tended(s) => Tended(t)

LEMMA MovesFollows ==
  ASSUME NEW s, NEW t, NEW e, Moves(s, t, e)
  PROVE  Follows(s, t, e)
BY DEF Moves, Still, Follows

LEMMA FollowsCompose ==
  ASSUME NEW s, NEW q, NEW t, NEW e, Follows(s, q, e), Follows(q, t, e)
  PROVE  Follows(s, t, e)
BY DEF Follows, Calm

(* Giving up the old device may disable the interface on the way, and then  *)
(* it is not UP either.                                                     *)
LEMMA SetL3DevFollows ==
  ASSUME NEW s, Inv(s), ~Busy(s), NEW d \in {"main", "tun"}, NEW e \in Envs,
         NEW t, t = SetL3Dev(s, d, e)
  PROVE  /\ Follows(s, t, e) /\ t.l3 = d
         /\ e.claim /\ HoldsUp(s) => HoldsUp(t)
<1>1. PICK r : r = [s EXCEPT !.claimed = @ \ {"l3_dev"}]
  OBVIOUS
<1>2. PICK q :
        q = IF Active(s) /\ ~Active(r) THEN SetEnabled(r, FALSE, e) ELSE r
  OBVIOUS
<1>3. PICK b : b = [q EXCEPT !.l3 = d]
  OBVIOUS
<1>4. /\ r \in State /\ Same(s, r) /\ Still(s, r) /\ r.state = s.state
      /\ r.sm = s.sm /\ r.script = s.script /\ r.renew = s.renew
      /\ r.enabled = s.enabled /\ r.link = s.link
  BY <1>1 DEF Inv, Weak, State, Same, Still
<1>5. Follows(s, r, e)
  BY <1>4 DEF Still, Follows, Calm, Fit, Tended, Ready, LinkOk
<1>6. Inv(r) /\ Keeps(s, r)
  BY <1>4, SameInv
<1>7. Inv(q) /\ Keeps(s, q)
  BY <1>2, <1>6, SetEnabledInv DEF Keeps
<1>8. Follows(r, q, e)
  <2>1. CASE q = r
    BY <1>6, <2>1, MovesTrivially, MovesFollows DEF Still
  <2>2. CASE q = SetEnabled(r, FALSE, e)
    BY <1>6, <2>2, SetEnabledMoves, MovesFollows
  <2> QED BY <1>2, <2>1, <2>2
<1>9. /\ b \in State /\ b.state = q.state /\ b.told = q.told
      /\ b.config = q.config /\ b.available = q.available
      /\ b.sm = q.sm /\ b.tdtimer = q.tdtimer /\ b.l3 = d
      /\ b.alive = q.alive /\ b.dynamic = q.dynamic /\ b.main = q.main
      /\ b.enabled = q.enabled /\ b.link = q.link /\ b.force = q.force
      /\ b.script = q.script /\ b.task = q.task /\ b.renew = q.renew
      /\ b.proto = q.proto
  BY <1>3, <1>7 DEF Inv, Weak, State
<1>10. Inv(b)
  BY <1>7, <1>9
  DEF Inv, Weak, Known, Timed, Stopped, Held, Idle, Waits, Busy, Keeps
<1>11. Follows(s, b, e)
  <2>1. Follows(q, b, e)
    BY <1>9 DEF Follows, Calm, Fit, Tended, Ready, LinkOk
  <2> QED BY <1>5, <1>8, <2>1, FollowsCompose
<1>12. CASE s.l3 = d
  <2>1. t = s
    BY <1>12 DEF SetL3Dev
  <2> QED BY <1>12, <2>1, MovesTrivially, MovesFollows DEF Still
<1>13. CASE s.l3 # d /\ "l3_dev" \in s.claimed
  <2>1. t = Claim(b, "l3_dev", e)
    BY <1>1, <1>2, <1>3, <1>13 DEF SetL3Dev
  <2>2. /\ Moves(b, t, e)
        /\ ClaimOk(b, "l3_dev", e) =>
             "l3_dev" \in t.claimed \/ (t.state = "DOWN" /\ t.available)
    BY <1>10, <2>1, ClaimMoves
  <2>3. Follows(s, t, e)
    BY <1>11, <2>2, MovesFollows, FollowsCompose
  <2>4. e.claim => HoldsUp(t)
    BY <1>9, <2>2 DEF ClaimOk, Moves, Still, HoldsUp
  <2> QED BY <1>9, <2>2, <2>3, <2>4 DEF Moves, Still
<1>14. CASE s.l3 # d /\ "l3_dev" \notin s.claimed
  <2>1. t = b
    BY <1>1, <1>2, <1>3, <1>14 DEF SetL3Dev
  <2>2. HoldsUp(s) => HoldsUp(t)
    BY <1>11, <1>14, <2>1 DEF Follows, Calm, HoldsUp
  <2> QED BY <1>9, <1>11, <2>1, <2>2
<1> QED BY <1>12, <1>13, <1>14

(* Once claimed, the device is let go only by an interface that goes DOWN.  *)
LEMMA DevicePresentFollows ==
  ASSUME NEW s, Inv(s), NEW e \in Envs, NEW t, t = DevicePresent(s, TRUE, e)
  PROVE  /\ Follows(s, t, e) /\ t.l3 = s.l3
         /\ s.l3 = "main" => Dropping(s, t)
         /\ s.available => t.state = s.state
<1>1. PICK q : q = [s EXCEPT !.present = TRUE]
  OBVIOUS
<1>2. q \in State /\ Same(s, q)
  BY <1>1 DEF Inv, Weak, State, Same
<1>3. Inv(q)
  BY <1>2, SameInv
<1>4. /\ q.alive = s.alive /\ q.dynamic = s.dynamic /\ q.main = s.main
      /\ q.enabled = s.enabled /\ q.link = s.link /\ q.force = s.force
      /\ q.script = s.script /\ q.task = s.task /\ q.renew = s.renew
      /\ q.proto = s.proto /\ q.claimed = s.claimed
  BY <1>1 DEF Inv, Weak, State
<1>5. Follows(s, q, e)
  BY <1>2, <1>4 DEF Same, Follows, Calm, Fit, Tended, Ready, LinkOk
<1>6. t = q \/ t = SetAvailable(q, TRUE, e)
  BY <1>1 DEF DevicePresent
<1>7. CASE t = q
  BY <1>2, <1>4, <1>5, <1>7 DEF Same, Dropping
<1>8. CASE t = SetAvailable(q, TRUE, e)
  <2>1. /\ Moves(q, t, e) /\ (q.available => t = q)
        /\ "l3_dev" \in q.claimed /\ q.l3 = "main" => Dropping(q, t)
    BY <1>3, <1>8, BecomeAvailableMoves
  <2>2. Follows(s, t, e)
    BY <1>5, <2>1, MovesFollows, FollowsCompose
  <2> QED BY <1>2, <1>4, <2>1, <2>2 DEF Same, Moves, Still, Dropping
<1> QED BY <1>6, <1>7, <1>8

LEMMA LinkUpStep ==
  ASSUME NEW s, Inv(s), s.alive, ~Busy(s), NEW d \in {"main", "tun"},
         NEW keep \in BOOLEAN, keep => s.state = "UP", NEW e \in Envs,
         NEW t, t = LinkUp(s, d, keep, e)
  PROVE  Step(s, t, e)
<1>1. PICK b : b = SetL3Dev(s, d, e)
  OBVIOUS
<1>2. PICK c : c = Claim(b, "l3_dev", e)
  OBVIOUS
<1>3. PICK p : p = IF d = "main" THEN DevicePresent(c, TRUE, e) ELSE c
  OBVIOUS
<1>4. PICK k : k = IF keep THEN s ELSE p
  OBVIOUS
<1>5. Inv(b) /\ Follows(s, b, e) /\ b.l3 = d
      /\ (e.claim /\ HoldsUp(s) => HoldsUp(b))
  BY <1>1, SetL3DevInv, SetL3DevFollows
<1>6. /\ Inv(c) /\ Follows(s, c, e) /\ c.l3 = d
      /\ ClaimOk(b, "l3_dev", e) =>
           "l3_dev" \in c.claimed \/ (c.state = "DOWN" /\ c.available)
  <2>1. /\ Moves(b, c, e)
        /\ ClaimOk(b, "l3_dev", e) =>
             "l3_dev" \in c.claimed \/ (c.state = "DOWN" /\ c.available)
    BY <1>2, <1>5, ClaimMoves
  <2>2. Inv(c)
    BY <1>2, <1>5, ClaimInv
  <2> QED
    BY <1>5, <2>1, <2>2, MovesFollows, FollowsCompose DEF Moves, Still
<1>7. /\ Inv(p) /\ Follows(s, p, e) /\ p.l3 = d
      /\ ClaimOk(b, "l3_dev", e) => "l3_dev" \in p.claimed \/ p.state = "DOWN"
  <2>1. CASE d = "main"
    <3>1. p = DevicePresent(c, TRUE, e)
      BY <1>3, <2>1
    <3>2. /\ Follows(c, p, e) /\ p.l3 = c.l3 /\ Dropping(c, p)
          /\ c.available => p.state = c.state
      BY <1>6, <2>1, <3>1, DevicePresentFollows
    <3>3. Inv(p)
      BY <1>6, <3>1, DevicePresentInv
    <3> QED BY <1>6, <3>2, <3>3, FollowsCompose DEF Dropping
  <2>2. CASE d # "main"
    BY <1>3, <1>6, <2>2
  <2> QED BY <2>1, <2>2
<1>8. /\ Inv(k) /\ Follows(s, k, e)
      /\ ~keep => k.l3 = d /\ (ClaimOk(b, "l3_dev", e) =>
                                 "l3_dev" \in k.claimed \/ k.state = "DOWN")
  <2>1. CASE keep
    BY <1>4, <2>1, MovesTrivially, MovesFollows DEF Still
  <2>2. CASE ~keep
    BY <1>4, <1>7, <2>2
  <2> QED BY <2>1, <2>2
<1>9. e.claim /\ HoldsUp(s) =>
        (k.state # "DOWN" => k.l3 # "none" /\ "l3_dev" \in k.claimed)
  <2>1. CASE keep
    BY <1>4, <2>1 DEF HoldsUp
  <2>2. CASE ~keep
    BY <1>8, <2>2 DEF ClaimOk
  <2> QED BY <2>1, <2>2
<1>10. \/ t = b
       \/ t = k
       \/ t = [ProtoUp(k) EXCEPT !.sm = "S_IDLE"]
  BY <1>1, <1>2, <1>3, <1>4 DEF LinkUp
<1>11. ASSUME NEW x, Follows(s, x, e), e.claim /\ HoldsUp(s) => HoldsUp(x)
       PROVE  Step(s, x, e)
  <2>1. Lived(s, x)
    BY <1>11 DEF Follows, Calm, Lived
  <2> QED BY <1>11, <2>1 DEF Step, Follows, Gone, Fit
<1>12. CASE t = b
  BY <1>5, <1>11, <1>12
<1>13. CASE t = k
  BY <1>8, <1>9, <1>11, <1>13 DEF HoldsUp
<1>14. CASE t = [ProtoUp(k) EXCEPT !.sm = "S_IDLE"]
  <2>1. PICK u : u = ProtoUp(k)
    OBVIOUS
  <2>2. /\ u \in State
        /\ u.state = IF k.state = "SETUP" THEN "UP" ELSE k.state
        /\ u.alive = k.alive /\ u.dynamic = k.dynamic /\ u.config = k.config
        /\ u.main = k.main /\ u.l3 = k.l3 /\ u.claimed = k.claimed
        /\ u.enabled = k.enabled /\ u.link = k.link /\ u.force = k.force
        /\ u.renew = k.renew /\ u.proto = k.proto
    BY <1>8, <2>1, ZenonT(60) DEF ProtoUp, Inv, Weak, State
  <2>3. t = [u EXCEPT !.sm = "S_IDLE"]
    BY <1>14, <2>1
  <2>4. /\ t.sm = "S_IDLE" /\ t.state = u.state
        /\ t.alive = u.alive /\ t.dynamic = u.dynamic /\ t.config = u.config
        /\ t.main = u.main /\ t.l3 = u.l3 /\ t.claimed = u.claimed
        /\ t.enabled = u.enabled /\ t.link = u.link /\ t.force = u.force
        /\ t.renew = u.renew /\ t.proto = u.proto
    BY <2>2, <2>3 DEF State
  <2>5. Lived(s, t)
    BY <1>8, <2>2, <2>4 DEF Follows, Calm, Lived
  <2>6. s.main /\ Fit(s) => (t.state = "UP" => Ready(t))
    BY <1>8, <2>2, <2>4 DEF Follows, Fit, Ready, LinkOk
  <2>7. e.claim /\ HoldsUp(s) => HoldsUp(t)
    BY <1>9, <2>2, <2>4 DEF HoldsUp
  <2>8. e.fork /\ Tended(s) => Tended(t)
    BY <1>8, <2>2, <2>4 DEF Follows, Tended
  <2> QED BY <1>8, <2>2, <2>4, <2>5, <2>6, <2>7, <2>8 DEF Step, Follows, Gone
<1> QED BY <1>10, <1>12, <1>13, <1>14

-----------------------------------------------------------------------------
(* Every callback is a Step.                                                *)

(* What a callback does first, before anything Step speaks of.              *)
Alike(s, q) ==
  /\ q.alive = s.alive /\ q.dynamic = s.dynamic /\ q.config = s.config
  /\ q.state = s.state /\ q.main = s.main /\ q.l3 = s.l3
  /\ q.claimed = s.claimed /\ q.enabled = s.enabled /\ q.link = s.link
  /\ q.force = s.force
  /\ Tended(s) => Tended(q)

LEMMA StepFrom ==
  ASSUME NEW s, NEW q, NEW t, NEW e, Alike(s, q), Step(q, t, e)
  PROVE  Step(s, t, e)
<1>1. Lived(s, t)
  BY DEF Alike, Step, Lived
<1> QED BY <1>1 DEF Alike, Step, Fit, Ready, LinkOk, HoldsUp

LEMMA AlikeStep ==
  ASSUME NEW s, NEW t, NEW e, s.alive, Alike(s, t)
  PROVE  Step(s, t, e)
<1>1. Lived(s, t)
  BY DEF Alike, Lived
<1> QED BY <1>1 DEF Alike, Step, Gone, Fit, Ready, LinkOk, HoldsUp

LEMMA AbsentStep ==
  ASSUME NEW s, NEW t, NEW e, ~s.alive, Gone(s), ~t.alive, Gone(t)
  PROVE  Step(s, t, e)
BY DEF Step, Lived, Gone, Bare, HoldsUp, Tended

LEMMA CreateStep ==
  ASSUME Inv(st), Gone(st), NEW e \in Env, Create(e)
  PROVE  Step(st, st', e)
<1>0. e \in Envs /\ Loading(e) \in Envs /\ Loading(e).fork = e.fork
  BY EnvEnvs DEF Env, Loading
<1>1. PICK d \in Origins, h \in Protocols, a \in BOOLEAN, f \in Links :
        st' = IF d THEN SetDynamic(Attach(New(st, h, a, f), e))
              ELSE StartPending(Attach(New(st, h, a, f), Loading(e)), e)
  BY DEF Create
<1>2. PICK n : n = New(st, h, a, f)
  OBVIOUS
<1>3. PICK b, c : b = Attach(n, e) /\ c = Attach(n, Loading(e))
  OBVIOUS
<1>4. /\ ~st.alive /\ ~st.main /\ st.claimed \subseteq {"other"}
  BY DEF Create, Gone, Bare
<1>5. Inv(n) /\ n.state # "UP"
  BY <1>2, NewInv DEF Inv, Weak
<1>6. Bare(n) /\ n.alive /\ n.config = "NORMAL"
  BY <1>2, <1>4 DEF New, Blank, Bare
<1>7. Inv(b) /\ Inv(c) /\ Starts(n, b, e) /\ Starts(n, c, Loading(e))
  BY <1>0, <1>3, <1>5, <1>6, AttachInv, AttachStarts
<1>8. ASSUME NEW t, t.alive, t.state \in {"DOWN", "SETUP"},
             t.config = "NORMAL", e.fork => Tended(t)
      PROVE  Step(st, t, e)
  BY <1>4, <1>8 DEF Step, Lived, Gone, HoldsUp
<1>9. CASE st' = SetDynamic(b)
  <2>1. st' = [b EXCEPT !.dynamic = TRUE, !.autostart = TRUE]
    BY <1>6, <1>7, <1>9 DEF SetDynamic, Starts
  <2>2. /\ st'.alive = b.alive /\ st'.state = b.state /\ st'.config = b.config
        /\ Tended(b) => Tended(st')
    BY <1>7, <2>1 DEF Inv, Weak, State, Tended
  <2> QED BY <1>6, <1>7, <1>8, <2>2 DEF Starts
<1>10. CASE st' = StartPending(c, e)
  <2>1. CASE st' = c
    BY <1>0, <1>6, <1>7, <1>8, <2>1 DEF Starts
  <2>2. CASE st' = InterfaceSetUp(c, e)
    <3>1. Moves(c, st', e) /\ Inv(st')
      BY <1>0, <1>7, <2>2, InterfaceSetUpMoves, InterfaceSetUpInv
    <3>2. st'.state \in {"DOWN", "SETUP"}
      BY <1>7, <3>1 DEF Starts, Moves, Calm, Inv, Weak, State
    <3> QED
      BY <1>0, <1>6, <1>7, <1>8, <3>1, <3>2 DEF Starts, Moves, Still
  <2> QED BY <1>10, <2>1, <2>2 DEF StartPending
<1> QED BY <1>1, <1>2, <1>3, <1>9, <1>10

LEMMA ReloadConfigStep ==
  ASSUME Inv(st), NEW e \in Env, ReloadConfig(e)
  PROVE  Step(st, st', e)
<1>0. e \in Envs /\ Loading(e) \in Envs /\ Loading(e).fork = e.fork
  BY EnvEnvs DEF Env, Loading
<1>1. PICK d \in Origins, h \in Protocols, a \in BOOLEAN,
           changed \in BOOLEAN, f \in Links :
        st' = IF d THEN SetDynamic(ChangeConfig(st, h, a, f, changed, e))
              ELSE StartPending(ChangeConfig(st, h, a, f, changed, Loading(e)), e)
  BY DEF ReloadConfig
<1>2. st.alive
  BY DEF ReloadConfig
<1>3. PICK b, c : /\ b = ChangeConfig(st, h, a, f, changed, e)
                  /\ c = ChangeConfig(st, h, a, f, changed, Loading(e))
  OBVIOUS
<1>4. Inv(b) /\ Inv(c) /\ Changed(st, b, e) /\ Changed(st, c, Loading(e))
  BY <1>0, <1>2, <1>3, ChangeConfigInv, ChangeConfigChanges
<1>5. CASE st' = SetDynamic(b)
  BY <1>0, <1>2, <1>4, <1>5, ChangedThenDynamic
<1>6. CASE st' = StartPending(c, e)
  <2>1. Changed(st, c, e)
    BY <1>0, <1>4 DEF Changed, Asked
  <2> QED BY <1>0, <1>2, <1>4, <1>6, <2>1, ChangedThenPending
<1> QED BY <1>1, <1>3, <1>5, <1>6

LEMMA ConfigurationStep ==
  ASSUME Inv(st), Gone(st), NEW e \in Env, Configuration(e)
  PROVE  Step(st, st', e)
<1>0. e \in Envs
  BY EnvEnvs
<1>1. CASE RemoveInterface(e)
  <2>1. st.alive /\ st' = SetConfigState(st, "REMOVE", e)
    BY <1>1 DEF RemoveInterface
  <2>2. Asked(st, st', e)
    BY <1>0, <2>1, SetConfigStateAsks
  <2>3. st.state = "DOWN" => st.config = "NORMAL"
    BY DEF Inv, Waits
  <2>4. st.state \in {"SETUP", "UP", "TEARDOWN", "DOWN"}
    BY DEF Inv, Weak, State
  <2>5. Lived(st, st')
    BY <2>1, <2>2, <2>3, <2>4 DEF Asked, Lived
  <2> QED BY <2>2, <2>5 DEF Asked, Step, HoldsUp
<1>2. CASE IfUp(e)
  BY <1>0, <1>2, InterfaceSetUpMoves, MovesStep DEF IfUp
<1>3. CASE IfDown(e)
  <2>1. PICK all \in BOOLEAN :
          st' = SetDown([st EXCEPT !.autostart = @ /\ all], FALSE, e)
    BY <1>3 DEF IfDown
  <2>2. PICK q : q = [st EXCEPT !.autostart = @ /\ all]
    OBVIOUS
  <2>3. q \in State /\ q.sm = st.sm /\ q.tdtimer = st.tdtimer /\ Alike(st, q)
    BY <2>2 DEF Inv, Weak, State, Alike, Tended
  <2>4. q.alive /\ Timed(q)
    BY <1>3, <2>3 DEF IfDown, Alike, Inv, Weak, Timed, Busy
  <2>5. st' = SetDown(q, FALSE, e)
    BY <2>1, <2>2
  <2>6. Step(q, st', e)
    BY <1>0, <2>3, <2>4, <2>5, SetDownStep
  <2> QED BY <2>3, <2>6, StepFrom
<1> QED
  BY <1>1, <1>2, <1>3, CreateStep, ReloadConfigStep DEF Configuration

LEMMA DeviceEventsStep ==
  ASSUME Inv(st), Gone(st), NEW e \in Env, DeviceEvents(e)
  PROVE  Step(st, st', e)
<1>0. e \in Envs /\ st \in State
  BY EnvEnvs DEF Inv, Weak
<1>1. CASE SetPresent(e)
  <2>1. PICK q : q = [st EXCEPT !.present = ~st.present]
    OBVIOUS
  <2>2. q \in State /\ Same(st, q) /\ Alike(st, q)
    BY <1>0, <2>1, ZenonT(60) DEF State, Same, Alike, Tended
  <2>3. Inv(q)
    BY <2>2, SameInv
  <2>4. \/ st' = q
        \/ st.main /\ st' = SetAvailable(q, ~st.present, e)
    BY <1>1, <2>1 DEF SetPresent, DevicePresent
  <2>5. CASE st' = q /\ st.alive
    BY <2>2, <2>5, AlikeStep
  <2>6. CASE st' = q /\ ~st.alive
    <3>1. ~q.alive /\ Gone(q)
      BY <1>0, <2>1, <2>6 DEF State, Gone, Bare
    <3> QED BY <2>6, <3>1, AbsentStep
  <2>7. CASE st.main /\ st' = SetAvailable(q, ~st.present, e)
    <3>1. q.alive
      BY <2>2, <2>7 DEF Gone, Bare, Alike
    <3>2. Step(q, st', e)
      BY <1>0, <2>3, <2>7, <3>1, SetAvailableStep
    <3> QED BY <2>2, <3>2, StepFrom
  <2> QED BY <2>4, <2>5, <2>6, <2>7
<1>2. CASE SetCarrier(e)
  <2>1. PICK q : q = [st EXCEPT !.carrier = ~@]
    OBVIOUS
  <2>2. q \in State /\ Same(st, q) /\ Alike(st, q)
    BY <1>0, <2>1, ZenonT(60) DEF State, Same, Alike, Tended
  <2>3. Inv(q) /\ q.carrier \in BOOLEAN
    BY <2>2, SameInv DEF State
  <2>4. st' = q \/ (st.main /\ st' = SetLinkState(q, q.carrier, e))
    BY <1>2, <2>1, <2>2 DEF SetCarrier, Alike
  <2>5. CASE st' = q /\ st.alive
    BY <2>2, <2>5, AlikeStep
  <2>6. CASE st' = q /\ ~st.alive
    <3>1. ~q.alive /\ Gone(q)
      BY <1>0, <2>1, <2>6 DEF State, Gone, Bare
    <3> QED BY <2>6, <3>1, AbsentStep
  <2>7. CASE st.main /\ st' = SetLinkState(q, q.carrier, e)
    <3>1. q.alive
      BY <2>2, <2>7 DEF Gone, Bare, Alike
    <3>2. Step(q, st', e)
      BY <1>0, <2>3, <2>7, <3>1, SetLinkStateMoves, MovesStep
    <3> QED BY <2>2, <3>2, StepFrom
  <2> QED BY <2>4, <2>5, <2>6, <2>7
<1>3. CASE OtherClaims(e)
  <2>1. st' = Claim(st, "other", e)
    BY <1>3 DEF OtherClaims
  <2>2. CASE st.alive
    BY <1>0, <2>1, <2>2, ClaimMoves, MovesStep
  <2>3. CASE ~st.alive
    <3>1. st' = st \/ st' = [st EXCEPT !.claimed = @ \union {"other"}]
      BY <2>1, <2>3 DEF Claim, Gone, Bare
    <3>2. ~st'.alive /\ Gone(st')
      BY <1>0, <2>3, <3>1 DEF State, Gone, Bare
    <3> QED BY <2>3, <3>2, AbsentStep
  <2> QED BY <2>2, <2>3
<1>4. CASE OtherReleases(e)
  <2>1. PICK q : q = [st EXCEPT !.claimed = @ \ {"other"}]
    OBVIOUS
  <2>2. /\ q \in State /\ Same(st, q) /\ Still(st, q)
        /\ q.claimed = st.claimed \ {"other"} /\ q.enabled = st.enabled
        /\ q.link = st.link /\ q.script = st.script /\ q.renew = st.renew
    BY <1>0, <2>1 DEF State, Same, Still
  <2>3. Inv(q)
    BY <2>2, SameInv
  <2>4. st' = q \/ (st.main /\ st' = SetEnabled(q, FALSE, e))
    BY <1>4, <2>1, <2>2 DEF OtherReleases, Still
  <2>5. Moves(st, q, e)
    BY <2>2 DEF Same, Still, Moves, Calm, Keeping, Fit, Ready, LinkOk, Tended
  <2>6. CASE st' = q /\ st.alive
    BY <2>5, <2>6, MovesStep
  <2>7. CASE st' = q /\ ~st.alive
    <3>1. ~q.alive /\ Gone(q)
      BY <1>0, <2>1, <2>7 DEF State, Gone, Bare
    <3> QED BY <2>7, <3>1, AbsentStep
  <2>8. CASE st.main /\ st' = SetEnabled(q, FALSE, e)
    <3>1. st.alive
      BY <2>8 DEF Gone, Bare
    <3>2. Moves(q, st', e)
      BY <1>0, <2>3, <2>8, SetEnabledMoves
    <3> QED BY <2>5, <3>1, <3>2, MovesCompose, MovesStep
  <2> QED BY <2>4, <2>6, <2>7, <2>8
<1>5. CASE TopoChange(e)
  <2>1. st.alive /\ st' = ShellRenew(st, e)
    BY <1>5 DEF TopoChange, Gone, Bare
  <2> QED BY <1>0, <2>1, ShellRenewStill, KeptStep
<1>6. CASE L3LinkDown(e)
  <2>1. st.alive /\ st' = ShellTeardown(st, e)
    BY <1>6 DEF L3LinkDown, Gone, Bare
  <2> QED BY <1>0, <2>1, TeardownStep DEF Inv, Weak
<1> QED BY <1>1, <1>2, <1>3, <1>4, <1>5, <1>6 DEF DeviceEvents

(* A child's exit, or the timer's kill, from the state s before it.         *)
LEMMA ChildStep ==
  ASSUME NEW s, Inv(s), s.alive, NEW q \in State,
         q.alive = s.alive, q.dynamic = s.dynamic, q.config = s.config,
         q.state = s.state, q.told = s.told, q.available = s.available,
         q.main = s.main, q.l3 = s.l3, q.claimed = s.claimed,
         q.enabled = s.enabled, q.link = s.link, q.force = s.force,
         q.sm = s.sm, q.renew = s.renew, q.proto = s.proto,
         q.tdtimer = s.tdtimer \/ (Busy(q) /\ ~q.script /\ ~q.task),
         NEW who \in {"script", "task", "timer"},
         who = "script" => ~q.script, who = "timer" => Busy(q),
         NEW e \in Envs, NEW t, t = TaskFinish(q, who, e)
  PROVE  Step(s, t, e)
<1>1. Known(q) /\ Stopped(q) /\ Held(q) /\ Idle(q) /\ Waits(q)
  BY DEF Inv, Weak, Known, Stopped, Held, Idle, Waits, Busy
<1>2. Timed(q) \/ (Busy(q) /\ ~q.script /\ ~q.task)
  BY DEF Inv, Weak, Timed, Busy
<1>3. /\ Lived(q, t) /\ Gone(t)
      /\ q.main /\ Fit(q) => (t.state = "UP" => Ready(t))
      /\ e.claim /\ HoldsUp(q) => HoldsUp(t)
      /\ e.fork /\ (q.renew => "RENEW_AVAILABLE" \in q.proto) => Tended(t)
  BY <1>1, <1>2, TaskFinishSteps
<1>4. Lived(s, t)
  BY <1>3 DEF Lived
<1>5. /\ Fit(s) => Fit(q)
      /\ HoldsUp(s) => HoldsUp(q)
  BY DEF Fit, Ready, LinkOk, HoldsUp
<1> QED BY <1>3, <1>4, <1>5 DEF Step, Tended

LEMMA ChildEventsStep ==
  ASSUME Inv(st), Gone(st), NEW e \in Env,
         ScriptExits(e) \/ TaskExits(e) \/ TeardownTimeout(e) \/ CheckupTimeout(e)
  PROVE  Step(st, st', e)
<1>0. e \in Envs /\ st \in State
  BY EnvEnvs DEF Inv, Weak
<1>1. st.alive
  BY DEF ScriptExits, TaskExits, TeardownTimeout, CheckupTimeout, Gone, Bare
<1>2. CASE ScriptExits(e)
  <2>1. PICK q : q = [st EXCEPT !.script = FALSE]
    OBVIOUS
  <2>2. /\ q \in State /\ Same(st, q)
        /\ ~q.script /\ q.renew = st.renew /\ q.proto = st.proto
    BY <1>0, <2>1 DEF State, Same, Alike, Tended
  <2>3. /\ q.alive = st.alive /\ q.dynamic = st.dynamic
        /\ q.main = st.main /\ q.claimed = st.claimed
        /\ q.enabled = st.enabled /\ q.link = st.link /\ q.force = st.force
    BY <1>0, <2>1 DEF State
  <2>4. st' = TaskFinish(q, "script", e)
    BY <1>2, <2>1 DEF ScriptExits
  <2> QED BY <1>0, <1>1, <2>2, <2>3, <2>4, ChildStep DEF Same
<1>3. CASE TaskExits(e)
  <2>1. PICK q : q = [st EXCEPT !.task = FALSE]
    OBVIOUS
  <2>2. /\ q \in State /\ Same(st, q)
        /\ q.renew = st.renew /\ q.proto = st.proto
    BY <1>0, <2>1 DEF State, Same
  <2>3. /\ q.alive = st.alive /\ q.dynamic = st.dynamic
        /\ q.main = st.main /\ q.claimed = st.claimed
        /\ q.enabled = st.enabled /\ q.link = st.link /\ q.force = st.force
    BY <1>0, <2>1 DEF State
  <2>4. st' = TaskFinish(q, "task", e)
    BY <1>3, <2>1 DEF TaskExits
  <2> QED BY <1>0, <1>1, <2>2, <2>3, <2>4, ChildStep DEF Same
<1>4. CASE TeardownTimeout(e)
  <2>1. PICK q : q = [st EXCEPT !.tdtimer = FALSE, !.script = FALSE, !.task = FALSE]
    OBVIOUS
  <2>2. Busy(st)
    BY <1>4 DEF TeardownTimeout, Inv, Weak, Timed
  <2>3. q \in State
    BY <1>0, <2>1, ZenonT(60) DEF State
  <2>4. /\ q.state = st.state /\ q.told = st.told
        /\ q.config = st.config /\ q.available = st.available
        /\ q.sm = st.sm /\ q.l3 = st.l3
        /\ q.renew = st.renew /\ q.proto = st.proto /\ ~q.script /\ ~q.task
    BY <1>0, <2>1 DEF State
  <2>5. /\ q.alive = st.alive /\ q.dynamic = st.dynamic
        /\ q.main = st.main /\ q.claimed = st.claimed
        /\ q.enabled = st.enabled /\ q.link = st.link /\ q.force = st.force
    BY <1>0, <2>1 DEF State
  <2>6. Busy(q)
    BY <2>2, <2>4 DEF Busy
  <2>7. st' = TaskFinish(q, "timer", e)
    BY <1>4, <2>1 DEF TeardownTimeout
  <2> QED
    BY <1>0, <1>1, <2>3, <2>4, <2>5, <2>6, <2>7, ChildStep
<1>5. CASE CheckupTimeout(e)
  <2>1. PICK q : q = [st EXCEPT !.chktimer = FALSE]
    OBVIOUS
  <2>2. q \in State /\ Same(st, q) /\ Alike(st, q)
    BY <1>0, <2>1, ZenonT(60) DEF State, Same, Alike, Tended
  <2>3. Timed(q) /\ q.alive
    BY <1>1, <2>2, SameInv DEF Inv, Weak, Alike
  <2>4. st' = q \/ st' = ShellTeardown(q, e)
    BY <1>5, <2>1 DEF CheckupTimeout
  <2>5. CASE st' = q
    BY <1>1, <2>2, <2>5, AlikeStep
  <2>6. CASE st' = ShellTeardown(q, e)
    <3>1. Step(q, st', e)
      BY <1>0, <2>2, <2>3, <2>6, TeardownStep
    <3> QED BY <2>2, <3>1, StepFrom
  <2> QED BY <2>4, <2>5, <2>6
<1> QED BY <1>2, <1>3, <1>4, <1>5

LEMMA NotificationsStep ==
  ASSUME Inv(st), Gone(st), NEW e \in Env,
         \/ NotifyLinkUp(e) \/ NotifyLinkDown \/ NotifyRunCommand(e)
         \/ NotifyBlockRestart \/ NotifyAvailable(e) \/ NotifySetupFailed(e)
  PROVE  Step(st, st', e)
<1>0. e \in Envs /\ st \in State /\ Timed(st)
  BY EnvEnvs DEF Inv, Weak
<1>1. st.alive
  BY DEF NotifyLinkUp, NotifyLinkDown, NotifyRunCommand, NotifyBlockRestart,
         NotifyAvailable, NotifySetupFailed
<1>2. CASE NotifyLinkUp(e)
  <2>1. PICK d \in IF st.main THEN {"main", "tun"} ELSE {"tun"},
             keep \in BOOLEAN :
          st' = LinkUp(st, d, keep /\ st.state = "UP" /\ st.l3 # "none", e)
    BY <1>2 DEF NotifyLinkUp
  <2>2. PICK k : k = (keep /\ st.state = "UP" /\ st.l3 # "none")
    OBVIOUS
  <2>3. /\ k \in BOOLEAN /\ d \in {"main", "tun"} /\ ~Busy(st)
        /\ k => st.state = "UP"
    BY <1>2, <2>1, <2>2 DEF NotifyLinkUp
  <2>4. st' = LinkUp(st, d, k, e)
    BY <2>1, <2>2
  <2> QED BY <1>0, <1>1, <2>3, <2>4, LinkUpStep
<1>3. CASE NotifyLinkDown
  <2>1. st' = ProtoLinkLost(st)
    BY <1>3 DEF NotifyLinkDown
  <2>2. /\ Still(st, st') /\ st'.state # "UP"
        /\ st'.state = "TEARDOWN" <=> st.state = "TEARDOWN"
        /\ st'.sm = st.sm /\ st'.script = st.script /\ st'.renew = st.renew
    BY <1>0, <2>1, ProtoLinkLostStill
  <2>3. Tended(st) => Tended(st')
    BY <2>2 DEF Tended, Still
  <2> QED BY <1>1, <2>2, <2>3, QuietStep
<1>4. CASE NotifyRunCommand(e)
  <2>1. st' = [st EXCEPT !.task = e.fork]
    BY <1>4 DEF NotifyRunCommand
  <2>2. /\ st'.alive = st.alive /\ st'.dynamic = st.dynamic
        /\ st'.config = st.config /\ st'.state = st.state
        /\ st'.main = st.main /\ st'.l3 = st.l3 /\ st'.claimed = st.claimed
        /\ st'.enabled = st.enabled /\ st'.link = st.link
        /\ st'.force = st.force
        /\ e.fork /\ Tended(st) => Tended(st')
    BY <1>0, <2>1 DEF State, Envs, Tended
  <2>3. Lived(st, st')
    BY <1>1, <2>2 DEF Lived
  <2> QED
    BY <1>1, <2>2, <2>3 DEF Step, Gone, Fit, Ready, LinkOk, HoldsUp
<1>5. CASE NotifyBlockRestart
  <2>1. Alike(st, st')
    BY <1>0, <1>5 DEF NotifyBlockRestart, State, Alike, Tended
  <2> QED BY <1>1, <2>1, AlikeStep
<1>6. CASE NotifyAvailable(e)
  BY <1>0, <1>6, SetAvailableStep DEF NotifyAvailable
<1>7. CASE NotifySetupFailed(e)
  <2>1. CASE st.sm = "S_IDLE"
    <3>1. st' = ShellTeardown(ProtoLinkLost(st), e)
      BY <1>7, <2>1 DEF NotifySetupFailed
    <3> QED BY <1>0, <1>1, <3>1, LostThenTeardown
  <2>2. CASE st.sm # "S_IDLE"
    <3>1. st' = ShellTeardown(st, e)
      BY <1>7, <2>2 DEF NotifySetupFailed
    <3> QED BY <1>0, <1>1, <3>1, TeardownStep
  <2> QED BY <2>1, <2>2
<1> QED BY <1>2, <1>3, <1>4, <1>5, <1>6, <1>7

LEMMA NextStep ==
  ASSUME Inv(st), Gone(st), Next
  PROVE  \E e \in Env : Step(st, st', e)
<1>1. PICK e \in Env : Configuration(e) \/ DeviceEvents(e) \/ HandlerEvents(e)
  BY DEF Next
<1> QED
  BY <1>1, ConfigurationStep, DeviceEventsStep, ChildEventsStep,
     NotificationsStep DEF HandlerEvents

-----------------------------------------------------------------------------
(* The theorems. *)

(* Freed, an interface has no claim, no child, no timer and no request.     *)
FreedInv == Inv(st) /\ Gone(st)

LEMMA FreedInductive == Spec => []FreedInv
<1>1. Init => FreedInv
  <2> SUFFICES ASSUME Init PROVE FreedInv
    OBVIOUS
  <2>1. PICK p, c \in BOOLEAN : st = Blank(p, c)
    BY DEF Init
  <2>2. Gone(st)
    BY <2>1 DEF Blank, Gone, Bare
  <2> QED BY <2>2, InitInv DEF IInv, FreedInv
<1>2. FreedInv /\ [Next]_st => FreedInv'
  <2> SUFFICES ASSUME FreedInv, [Next]_st PROVE FreedInv'
    OBVIOUS
  <2>1. IInv'
    BY NextInv DEF FreedInv, IInv
  <2>2. CASE Next
    <3>1. PICK e \in Env : Step(st, st', e)
      BY <2>2, NextStep DEF FreedInv
    <3> QED BY <2>1, <3>1 DEF FreedInv, IInv, Step
  <2>3. CASE UNCHANGED st
    BY <2>3 DEF FreedInv, Inv, Gone, Bare, Weak, Known, Timed, Stopped, Held,
       Idle, Waits, Busy
  <2> QED BY <2>2, <2>3
<1> QED BY <1>1, <1>2, PTL DEF Spec

(* interface_do_free leaves no claim on a device and no child behind.       *)
THEOREM NothingOutlivesIt == Spec => []FreedLeavesNothing
<1>1. FreedInv => FreedLeavesNothing
  BY DEF FreedInv, Gone, Bare, FreedLeavesNothing
<1> QED BY <1>1, FreedInductive, PTL

(* The step in which the device or its link is lost ends with the interface *)
(* not UP, whatever fork and the kernel answer.                             *)
THEOREM LossIsAnswered == Spec => LossEndsUp
<1>1. FreedInv /\ [Next]_st =>
        [st.main /\ Ready(st) /\ ~Ready(st') => st'.state # "UP"]_st
  <2> SUFFICES ASSUME FreedInv, Next, st.main, Ready(st), ~Ready(st')
               PROVE  st'.state # "UP"
    OBVIOUS
  <2>1. PICK e \in Env : Step(st, st', e)
    BY NextStep DEF FreedInv
  <2> QED BY <2>1 DEF Step, Fit
<1> QED BY <1>1, FreedInductive, PTL DEF Spec, LossEndsUp

(* Where devices can always be brought up, an interface that is UP has a    *)
(* layer 3 device and a claim of its own on it, whether or not fork fails.  *)
THEOREM UpIsHeld == ClaimOutcomes = {TRUE} => (Spec => []UpHoldsL3)
<1> SUFFICES ASSUME ClaimOutcomes = {TRUE} PROVE Spec => []UpHoldsL3
  OBVIOUS
<1>1. Init => HoldsUp(st)
  BY DEF Init, Blank, HoldsUp
<1>2. FreedInv /\ HoldsUp(st) /\ [Next]_st => HoldsUp(st)'
  <2> SUFFICES ASSUME FreedInv, HoldsUp(st), [Next]_st PROVE HoldsUp(st)'
    OBVIOUS
  <2>1. CASE Next
    <3>1. PICK e \in Env : Step(st, st', e)
      BY <2>1, NextStep DEF FreedInv
    <3>2. e.claim
      BY DEF Env
    <3> QED BY <3>1, <3>2 DEF Step, HoldsUp
  <2>2. CASE UNCHANGED st
    BY <2>2 DEF HoldsUp
  <2> QED BY <2>1, <2>2
<1>3. HoldsUp(st) => UpHoldsL3
  BY DEF HoldsUp, UpHoldsL3
<1> QED BY <1>1, <1>2, <1>3, FreedInductive, PTL DEF Spec

(* Where fork succeeds, a set-up has a child that will report.              *)
THEOREM SetupIsTended == ForkOutcomes = {TRUE} => (Spec => []SetupAttended)
<1> SUFFICES ASSUME ForkOutcomes = {TRUE} PROVE Spec => []SetupAttended
  OBVIOUS
<1>1. Init => Tended(st)
  BY DEF Init, Blank, Tended
<1>2. FreedInv /\ Tended(st) /\ [Next]_st => Tended(st)'
  <2> SUFFICES ASSUME FreedInv, Tended(st), [Next]_st PROVE Tended(st)'
    OBVIOUS
  <2>1. CASE Next
    <3>1. PICK e \in Env : Step(st, st', e)
      BY <2>1, NextStep DEF FreedInv
    <3>2. e.fork
      BY DEF Env
    <3> QED BY <3>1, <3>2 DEF Step, Tended
  <2>2. CASE UNCHANGED st
    BY <2>2 DEF Tended
  <2> QED BY <2>1, <2>2
<1>3. Tended(st) => SetupAttended
  BY DEF Tended, SetupAttended
<1> QED BY <1>1, <1>2, <1>3, FreedInductive, PTL DEF Spec

(* The life InterfaceLifecycle promises: what the users are told, when a    *)
(* pending change is carried out, and who may be removed.                   *)
LEMMA LivedLifecycle ==
  ASSUME FreedInv, FreedInv', Lived(st, st')
  PROVE  [Lifecycle!Next]_(Lifecycle!vars)
<1> DEFINE phase == IF st.alive THEN st.state ELSE "ABSENT"
           End(p) == phase' = p /\ st'.told = IF p = "UP" THEN "UP" ELSE "DOWN"
           Same4  == /\ phase' = phase /\ st'.config = st.config
                     /\ st'.told = st.told /\ st'.dynamic = st.dynamic
<1>1. /\ st.told \in {"UP", "DOWN"} /\ st'.told \in {"UP", "DOWN"}
      /\ st.dynamic \in BOOLEAN /\ st'.dynamic \in BOOLEAN
      /\ st.config \in {"NORMAL", "RELOAD", "REMOVE"}
      /\ st'.config \in {"NORMAL", "RELOAD", "REMOVE"}
      /\ st.state \in {"SETUP", "UP", "TEARDOWN", "DOWN"}
      /\ st'.state \in {"SETUP", "UP", "TEARDOWN", "DOWN"}
      /\ st.alive \in BOOLEAN /\ st'.alive \in BOOLEAN
  BY DEF FreedInv, Inv, Weak, State
<1>2. /\ st.config # "NORMAL" => st.state = "TEARDOWN"
      /\ st'.config # "NORMAL" => st'.state = "TEARDOWN"
      /\ st.told = "UP" <=> st.state = "UP"
      /\ st'.told = "UP" <=> st'.state = "UP"
  BY DEF FreedInv, Inv, Weak, Known, Waits
<1>3. /\ ~st.alive => /\ st.config = "NORMAL" /\ st.dynamic = FALSE
                      /\ st.state = "DOWN"
      /\ ~st'.alive => /\ st'.config = "NORMAL" /\ st'.dynamic = FALSE
                       /\ st'.state = "DOWN"
  BY <1>1 DEF FreedInv, Gone, Bare
<1>4. End(phase')
  BY <1>1, <1>2, <1>3
<1>5. phase' = IF st'.alive THEN st'.state ELSE "ABSENT"
  OBVIOUS
<1> HIDE DEF phase
<1>6. Same4 => UNCHANGED Lifecycle!vars
  BY DEF Lifecycle!vars, phase
<1>7. CASE ~st.alive /\ ~st'.alive
  <2>1. Same4
    BY <1>1, <1>2, <1>3, <1>7 DEF phase
  <2> QED BY <1>6, <2>1
<1>8. CASE /\ ~st.alive /\ st'.alive
           /\ st'.state \in {"DOWN", "SETUP"} /\ st'.config = "NORMAL"
  <2>1. Lifecycle!Appear
    BY <1>1, <1>3, <1>4, <1>5, <1>8 DEF Lifecycle!Appear, Lifecycle!Enter, phase
  <2> QED BY <2>1 DEF Lifecycle!Next
<1>9. CASE /\ st.alive /\ st'.alive /\ st'.config = st.config
           /\ st'.state = "TEARDOWN" <=> st.state = "TEARDOWN"
           /\ \/ st'.dynamic = st.dynamic
              \/ st'.dynamic /\ (st.state = "SETUP" => st'.state # "UP")
  <2>1. phase = st.state /\ phase' = st'.state
    BY <1>5, <1>9 DEF phase
  <2>2. CASE st'.state = st.state /\ st'.dynamic = st.dynamic
    <3>1. Same4
      BY <1>1, <1>2, <1>9, <2>1, <2>2
    <3> QED BY <1>6, <3>1
  <2>3. CASE st'.state = st.state /\ st'.dynamic # st.dynamic
    <3>1. Lifecycle!MarkDynamic
      BY <1>1, <1>2, <1>9, <2>1, <2>3
      DEF Lifecycle!MarkDynamic, Lifecycle!Live, phase
    <3> QED BY <3>1 DEF Lifecycle!Next
  <2>4. CASE st.state = "DOWN" /\ st'.state \in {"SETUP", "UP"}
    <3>1. Lifecycle!Start
      BY <1>1, <1>4, <1>9, <2>1, <2>4
      DEF Lifecycle!Start, Lifecycle!Enter, phase
    <3> QED BY <3>1 DEF Lifecycle!Next
  <2>5. CASE st.state = "SETUP" /\ st'.state = "UP"
    <3>1. Lifecycle!Complete
      BY <1>4, <1>9, <2>1, <2>5
      DEF Lifecycle!Complete, Lifecycle!Enter, phase
    <3> QED BY <3>1 DEF Lifecycle!Next
  <2>6. CASE st.state \in {"SETUP", "UP"} /\ st'.state \in {"DOWN", "SETUP"}
    <3>1. Lifecycle!Fail
      BY <1>1, <1>4, <1>9, <2>1, <2>6
      DEF Lifecycle!Fail, Lifecycle!Ends, Lifecycle!Enter, phase
    <3> QED BY <3>1 DEF Lifecycle!Next
  <2> QED BY <1>1, <1>9, <2>2, <2>3, <2>4, <2>5, <2>6
<1>10. CASE st.alive /\ st'.alive /\ st.state = "TEARDOWN"
            /\ st'.state = "TEARDOWN" /\ st'.config # "NORMAL"
  <2>1. Lifecycle!Postpone
    BY <1>1, <1>2, <1>5, <1>10
    DEF Lifecycle!Postpone, Lifecycle!Request, phase
  <2> QED BY <2>1 DEF Lifecycle!Next
<1>11. CASE /\ st.alive /\ st'.alive /\ st.state \in {"SETUP", "UP"}
            /\ st'.state = "TEARDOWN"
  <2>1. Lifecycle!Stop
    BY <1>1, <1>4, <1>5, <1>11
    DEF Lifecycle!Stop, Lifecycle!Request, Lifecycle!Enter, phase
  <2> QED BY <2>1 DEF Lifecycle!Next
<1>12. CASE /\ st.alive /\ st'.alive
            /\ st.state = "TEARDOWN" /\ st.config # "REMOVE"
            /\ st'.state \in {"DOWN", "SETUP"} /\ st'.config = "NORMAL"
  <2>1. Lifecycle!Finish
    BY <1>1, <1>4, <1>5, <1>12
    DEF Lifecycle!Finish, Lifecycle!Ends, Lifecycle!Enter, phase
  <2> QED BY <2>1 DEF Lifecycle!Next
<1>13. CASE st.alive /\ ~st'.alive /\ st.state = "DOWN"
  <2>1. Lifecycle!Remove
    BY <1>2, <1>3, <1>4, <1>5, <1>13
    DEF Lifecycle!Remove, Lifecycle!Enter, phase
  <2> QED BY <2>1 DEF Lifecycle!Next
<1>14. CASE st.alive /\ ~st'.alive /\ st.state = "TEARDOWN"
            /\ (st.dynamic \/ st.config = "REMOVE")
  <2>1. Lifecycle!Finish
    BY <1>1, <1>3, <1>4, <1>5, <1>14
    DEF Lifecycle!Finish, Lifecycle!Ends, Lifecycle!Enter, phase
  <2> QED BY <2>1 DEF Lifecycle!Next
<1>15. CASE st.alive /\ ~st'.alive /\ st.dynamic /\ st.state \in {"SETUP", "UP"}
  <2>1. Lifecycle!Fail
    BY <1>1, <1>2, <1>3, <1>4, <1>5, <1>15
    DEF Lifecycle!Fail, Lifecycle!Ends, Lifecycle!Enter, phase
  <2> QED BY <2>1 DEF Lifecycle!Next
<1> QED
  BY <1>1, <1>7, <1>8, <1>9, <1>10, <1>11, <1>12, <1>13, <1>14, <1>15 DEF Lived

THEOREM LeadsItsLife == Spec => Lifecycle!Spec
<1>1. Init => Lifecycle!Init
  BY DEF Init, Blank, Lifecycle!Init
<1>2. FreedInv /\ FreedInv' /\ [Next]_st => [Lifecycle!Next]_(Lifecycle!vars)
  <2> SUFFICES ASSUME FreedInv, FreedInv', [Next]_st
               PROVE  [Lifecycle!Next]_(Lifecycle!vars)
    OBVIOUS
  <2>1. CASE Next
    <3>1. PICK e \in Env : Step(st, st', e)
      BY <2>1, NextStep DEF FreedInv
    <3> QED BY <3>1, LivedLifecycle DEF Step
  <2>2. CASE UNCHANGED st
    BY <2>2 DEF Lifecycle!vars
  <2> QED BY <2>1, <2>2
<1> QED BY <1>1, <1>2, FreedInductive, PTL DEF Spec, Lifecycle!Spec

=============================================================================
