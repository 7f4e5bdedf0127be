------------------------ MODULE InterfaceShellProofs ------------------------
(***************************************************************************)
(* The safety invariants of InterfaceShell, proved for every set of        *)
(* protocols and whatever fork and the kernel answer.                      *)
(*                                                                         *)
(* The handlers are compositions of operators on states, so the proof has  *)
(* one lemma per operator, about the state t it returns.  Inv is what      *)
(* holds between callbacks; inside a handler less may hold, and Weak is    *)
(* what the operators that take an interface down start from.              *)
(***************************************************************************)
EXTENDS InterfaceShell, TLAPS

Envs == [fork : BOOLEAN, claim : BOOLEAN, init : BOOLEAN]

Known(s)   == s.told = "UP" <=> s.state = "UP"
Timed(s)   == s.tdtimer <=> Busy(s)
Held(s)    == s.state = "TEARDOWN" => Busy(s)
Stopped(s) == ~s.available => s.state \notin {"SETUP", "UP"}
Idle(s)    == s.state = "UP" =>
                s.sm = "S_IDLE" \/ (s.sm = "S_TEARDOWN" /\ s.l3 = "tun")
Waits(s)   == s.config # "NORMAL" => s.state = "TEARDOWN"

Weak(s) == s \in State /\ Known(s) /\ Timed(s) /\ Stopped(s)
Inv(s)  == Weak(s) /\ Held(s) /\ Idle(s) /\ Waits(s)

(* The fields Inv speaks of. *)
Same(s, t) ==
  /\ t.state = s.state /\ t.told = s.told /\ t.config = s.config
  /\ t.available = s.available /\ t.l3 = s.l3
  /\ t.sm = s.sm /\ t.tdtimer = s.tdtimer

(* An operator that does not bring the interface UP, nor touches the        *)
(* handler of one that stays UP.                                            *)
Keeps(s, t) == t.state = "UP" => s.state = "UP" /\ t.sm = s.sm

LEMMA SameInv ==
  ASSUME NEW s, Inv(s), NEW t \in State, Same(s, t)
  PROVE  Inv(t) /\ Keeps(s, t)
BY DEF Inv, Weak, Known, Timed, Held, Stopped, Idle, Waits, Same, Busy, Keeps

-----------------------------------------------------------------------------
(* Leaving SETUP and UP. *)

(* Giving up a claim changes nothing but the claims and `enabled`. *)
LEMMA ReleaseFrame ==
  ASSUME NEW s \in State, NEW u, NEW t, t = Release(s, u)
  PROVE  t \in State /\ Same(s, t)
BY ZenonT(60) DEF Release, State, Same

(* A teardown command leaves the handler waiting, with its timer armed, and *)
(* the interface as it was.                                                 *)
LEMMA TeardownFrame ==
  ASSUME NEW s \in State, NEW e \in Envs, Timed(s),
         NEW t, t = ShellTeardown(s, e)
  PROVE  /\ t \in State /\ Busy(t) /\ t.tdtimer
         /\ t.state = s.state /\ t.told = s.told /\ t.config = s.config
         /\ t.available = s.available /\ t.l3 = s.l3
BY ZenonT(60) DEF ShellTeardown, StartScript, State, Envs, Busy, Timed

LEMMA LeaveFrame ==
  ASSUME NEW s \in State, Known(s), NEW state \in {"DOWN", "TEARDOWN"},
         NEW t, t = Leave(s, state)
  PROVE  /\ t \in State /\ t.state = state /\ t.told = "DOWN"
         /\ t.config = s.config /\ t.available = s.available
         /\ t.l3 = s.l3 /\ t.sm = s.sm /\ t.tdtimer = s.tdtimer
BY ZenonT(60) DEF Leave, State, Known

LEMMA MarkDownDown ==
  ASSUME NEW s, Weak(s), NEW t, t = MarkDown(s)
  PROVE  /\ Weak(t) /\ t.state = "DOWN"
         /\ t.config = s.config /\ t.sm = s.sm /\ t.available = s.available
<1>1. CASE s.state = "DOWN"
  BY <1>1 DEF MarkDown
<1>2. CASE s.state # "DOWN"
  <2>1. PICK l : l = Leave(s, "DOWN")
    OBVIOUS
  <2>2. PICK q : q = [l EXCEPT !.linkup = FALSE]
    OBVIOUS
  <2>3. /\ l \in State /\ l.state = "DOWN" /\ l.told = "DOWN"
        /\ l.config = s.config /\ l.available = s.available
        /\ l.sm = s.sm /\ l.tdtimer = s.tdtimer
    BY <2>1, LeaveFrame DEF Weak
  <2>4. q \in State /\ Same(l, q)
    BY <2>2, <2>3 DEF State, Same
  <2>5. t = Release(q, "l3_dev")
    BY <1>2, <2>1, <2>2 DEF MarkDown
  <2>6. t \in State /\ Same(q, t)
    BY <2>4, <2>5, ReleaseFrame
  <2>. QED
    BY <2>3, <2>4, <2>6 DEF Weak, Known, Timed, Stopped, Busy, Same
<1>. QED BY <1>1, <1>2

(* Taking an interface down needs nothing of `available`: that may just     *)
(* have become false.                                                       *)
LEMMA SetDownStops ==
  ASSUME NEW s \in State, Known(s), Timed(s), Held(s), NEW force \in BOOLEAN,
         NEW e \in Envs, NEW t, t = SetDown(s, force, e)
  PROVE  /\ Weak(t) /\ Held(t) /\ Idle(t) /\ t.config = s.config
         /\ t.state = IF s.state = "DOWN" THEN "DOWN" ELSE "TEARDOWN"
<1>1. CASE s.state \in {"UP", "SETUP"}
  <2>1. PICK l : l = Leave(s, "TEARDOWN")
    OBVIOUS
  <2>2. PICK q : q = ShellTeardown(l, e)
    OBVIOUS
  <2>3. /\ l \in State /\ l.state = "TEARDOWN" /\ l.told = "DOWN"
        /\ l.config = s.config /\ Timed(l)
    BY <2>1, LeaveFrame DEF Timed, Busy
  <2>4. /\ q \in State /\ Busy(q) /\ q.tdtimer /\ q.state = "TEARDOWN"
        /\ q.told = "DOWN" /\ q.config = s.config
    BY <2>2, <2>3, TeardownFrame
  <2>5. t \in State /\ Same(q, t)
    <3>1. CASE force
      <4>1. t = Release(q, "l3_dev")
        BY <1>1, <2>1, <2>2, <3>1 DEF SetDown
      <4>. QED BY <2>4, <4>1, ReleaseFrame
    <3>2. CASE ~force
      <4>1. t = q
        BY <1>1, <2>1, <2>2, <3>2 DEF SetDown
      <4>. QED BY <2>4, <4>1 DEF Same
    <3>. QED BY <3>1, <3>2
  <2>. QED
    BY <1>1, <2>4, <2>5 DEF Weak, Known, Timed, Stopped, Held, Idle, Busy, Same
<1>2. CASE s.state = "DOWN"
  <2>1. t = Release(s, "main_dev")
    BY <1>2 DEF SetDown
  <2>2. t \in State /\ Same(s, t)
    BY <2>1, ReleaseFrame
  <2>. QED
    BY <1>2, <2>2 DEF Weak, Known, Timed, Stopped, Held, Idle, Busy, Same
<1>3. CASE s.state = "TEARDOWN"
  <2>1. t = s
    BY <1>3 DEF SetDown
  <2>. QED BY <1>3, <2>1 DEF Weak, Stopped, Held, Idle
<1>. QED BY <1>1, <1>2, <1>3 DEF State

-----------------------------------------------------------------------------
(* Entering SETUP. *)

LEMMA StartSetupInv ==
  ASSUME NEW s, Inv(s), s.state = "DOWN", s.available, NEW e \in Envs,
         NEW t, t = StartSetup(s, e)
  PROVE  Inv(t) /\ t.state # "UP"
<1>1. PICK q : q = [s EXCEPT !.state = "SETUP"]
  OBVIOUS
<1>2. PICK r : r = ShellSetup(q, e)
  OBVIOUS
<1>3. /\ q \in State /\ q.state = "SETUP" /\ q.told = "DOWN"
      /\ q.config = "NORMAL" /\ q.available /\ Timed(q)
  BY <1>1 DEF Inv, Weak, Known, Waits, Timed, Busy, State
<1>4. /\ r \in State /\ r.state = "SETUP" /\ r.told = "DOWN"
      /\ r.config = "NORMAL" /\ r.available /\ Timed(r)
  BY <1>2, <1>3 DEF ShellSetup, StartScript, State, Envs, Timed, Busy
<1>5. Weak(r)
  BY <1>4 DEF Weak, Known, Stopped
<1>6. CASE SetupAccepted(s, e)
  <2>1. t = r
    BY <1>1, <1>2, <1>6 DEF StartSetup
  <2>. QED BY <2>1, <1>4, <1>5 DEF Inv, Held, Idle, Waits
<1>7. CASE ~SetupAccepted(s, e)
  <2>1. t = MarkDown(r)
    BY <1>1, <1>2, <1>7 DEF StartSetup
  <2>2. Weak(t) /\ t.state = "DOWN" /\ t.config = "NORMAL"
    BY <2>1, <1>4, <1>5, MarkDownDown
  <2>. QED BY <2>2 DEF Inv, Held, Idle, Waits
<1>. QED BY <1>6, <1>7

LEMMA CheckStateInv ==
  ASSUME NEW s, Inv(s), NEW e \in Envs, NEW t, t = CheckState(s, e)
  PROVE  Inv(t) /\ Keeps(s, t)
<1>1. CASE s.state \in {"UP", "SETUP"} /\ ~(s.enabled /\ LinkOk(s))
  <2>1. PICK q : q = ShellTeardown(s, e)
    OBVIOUS
  <2>2. /\ q \in State /\ Busy(q) /\ q.tdtimer /\ q.state = s.state
        /\ q.told = s.told /\ q.config = s.config /\ q.available = s.available
    BY <2>1, TeardownFrame DEF Inv, Weak
  <2>3. Weak(q)
    BY <2>2 DEF Inv, Weak, Known, Timed, Stopped
  <2>4. t = MarkDown(q)
    BY <1>1, <2>1 DEF CheckState
  <2>5. Weak(t) /\ t.state = "DOWN" /\ t.config = s.config
    BY <2>2, <2>3, <2>4, MarkDownDown
  <2>. QED BY <1>1, <2>5 DEF Inv, Held, Idle, Waits, Keeps
<1>2. CASE /\ s.state = "DOWN" /\ s.available /\ s.autostart
           /\ s.enabled /\ LinkOk(s) /\ ~e.init
  <2>1. t = StartSetup(s, e)
    BY <1>2 DEF CheckState
  <2>. QED BY <1>2, <2>1, StartSetupInv DEF Keeps
<1>3. CASE t = s
  BY <1>3, SameInv DEF Inv, Weak, Same
<1>. QED BY <1>1, <1>2, <1>3 DEF CheckState

LEMMA SetEnabledInv ==
  ASSUME NEW s, Inv(s), NEW v \in BOOLEAN, NEW e \in Envs,
         NEW t, t = SetEnabled(s, v, e)
  PROVE  Inv(t) /\ Keeps(s, t)
<1>1. CASE s.enabled = v
  BY <1>1, SameInv DEF SetEnabled, Inv, Weak, Same
<1>2. CASE s.enabled # v
  <2>1. PICK q : q = [s EXCEPT !.enabled = v]
    OBVIOUS
  <2>2. q \in State /\ Same(s, q)
    BY <2>1 DEF Inv, Weak, State, Same
  <2>3. Inv(q) /\ Keeps(s, q)
    BY <2>2, SameInv
  <2>4. t = CheckState(q, e)
    BY <1>2, <2>1 DEF SetEnabled
  <2>. QED BY <2>3, <2>4, CheckStateInv DEF Keeps
<1>. QED BY <1>1, <1>2

LEMMA SetLinkStateInv ==
  ASSUME NEW s, Inv(s), NEW v \in BOOLEAN, NEW e \in Envs,
         NEW t, t = SetLinkState(s, v, e)
  PROVE  Inv(t) /\ Keeps(s, t)
<1>1. CASE s.link = v
  BY <1>1, SameInv DEF SetLinkState, Inv, Weak, Same
<1>2. CASE s.link # v
  <2>1. PICK q : q = [s EXCEPT !.link = v]
    OBVIOUS
  <2>2. q \in State /\ Same(s, q)
    BY <2>1 DEF Inv, Weak, State, Same
  <2>3. Inv(q) /\ Keeps(s, q)
    BY <2>2, SameInv
  <2>4. PICK r : r = CheckState(q, e)
    OBVIOUS
  <2>5. Inv(r) /\ Keeps(s, r)
    BY <2>3, <2>4, CheckStateInv DEF Keeps
  <2>6. t = r \/ t = [r EXCEPT !.linkup = TRUE]
    BY <1>2, <2>1, <2>4 DEF SetLinkState
  <2>7. CASE t = r
    BY <2>5, <2>7
  <2>8. CASE t = [r EXCEPT !.linkup = TRUE]
    <3>1. t \in State /\ Same(r, t)
      BY <2>5, <2>8, ZenonT(60) DEF Inv, Weak, State, Same
    <3>. QED BY <2>5, <3>1, SameInv DEF Keeps
  <2>. QED BY <2>6, <2>7, <2>8
<1>. QED BY <1>1, <1>2

LEMMA ClaimInv ==
  ASSUME NEW s, Inv(s), NEW u \in {"main_dev", "l3_dev", "other"},
         NEW e \in Envs, NEW t, t = Claim(s, u, e)
  PROVE  Inv(t) /\ Keeps(s, t)
<1>1. PICK q : q = [s EXCEPT !.claimed = @ \union {u}]
  OBVIOUS
<1>2. q \in State /\ Same(s, q)
  BY <1>1 DEF Inv, Weak, State, Same
<1>3. Inv(q) /\ Keeps(s, q)
  BY <1>2, SameInv
<1>4. CASE t = s
  BY <1>4, SameInv DEF Inv, Weak, Same
<1>5. CASE t = q
  BY <1>3, <1>5
<1>6. CASE t = SetEnabled(q, TRUE, e)
  BY <1>3, <1>6, SetEnabledInv, ZenonT(60) DEF Keeps
<1>. QED BY <1>1, <1>4, <1>5, <1>6 DEF Claim

LEMMA InterfaceSetUpInv ==
  ASSUME NEW s, Inv(s), NEW e \in Envs, NEW t, t = InterfaceSetUp(s, e)
  PROVE  Inv(t) /\ Keeps(s, t)
<1>1. PICK q : q = [s EXCEPT !.autostart = TRUE]
  OBVIOUS
<1>2. q \in State /\ Same(s, q)
  BY <1>1 DEF Inv, Weak, State, Same
<1>3. Inv(q) /\ Keeps(s, q)
  BY <1>2, SameInv
<1>4. CASE t = q
  BY <1>3, <1>4
<1>5. CASE q.state = "DOWN" /\ q.available /\ t = StartSetup(q, e)
  BY <1>3, <1>5, StartSetupInv DEF Keeps
<1>6. CASE t = CheckState(Claim(q, "main_dev", e), e)
  <2>1. PICK r : r = Claim(q, "main_dev", e)
    OBVIOUS
  <2>2. Inv(r) /\ Keeps(s, r)
    BY <1>3, <2>1, ClaimInv, ZenonT(60) DEF Keeps
  <2>. QED BY <1>6, <2>1, <2>2, CheckStateInv DEF Keeps
<1>. QED BY <1>1, <1>4, <1>5, <1>6 DEF InterfaceSetUp

LEMMA SetAvailableInv ==
  ASSUME NEW s, Inv(s), NEW v \in BOOLEAN, NEW e \in Envs,
         NEW t, t = SetAvailable(s, v, e)
  PROVE  Inv(t) /\ Keeps(s, t)
<1>1. PICK q : q = [s EXCEPT !.available = v]
  OBVIOUS
<1>2. CASE s.available = v
  BY <1>2, SameInv DEF SetAvailable, Inv, Weak, Same
<1>3. CASE s.available # v /\ v
  <2>1. /\ q \in State /\ q.state = s.state /\ q.told = s.told
        /\ q.config = s.config /\ q.sm = s.sm /\ q.l3 = s.l3
        /\ q.tdtimer = s.tdtimer /\ q.available
    BY <1>1, <1>3 DEF Inv, Weak, State
  <2>2. Inv(q) /\ Keeps(s, q)
    BY <2>1 DEF Inv, Weak, Known, Timed, Held, Stopped, Idle, Waits, Busy, Keeps
  <2>3. t = q \/ t = InterfaceSetUp(q, e)
    BY <1>1, <1>3 DEF SetAvailable
  <2>. QED BY <2>2, <2>3, InterfaceSetUpInv DEF Keeps
<1>4. CASE s.available # v /\ ~v
  <2>1. /\ q \in State /\ q.state = s.state /\ q.told = s.told
        /\ q.config = s.config /\ q.sm = s.sm /\ q.tdtimer = s.tdtimer
    BY <1>1 DEF Inv, Weak, State
  <2>2. Known(q) /\ Timed(q) /\ Held(q)
    BY <2>1 DEF Inv, Weak, Known, Timed, Held, Busy
  <2>3. t = SetDown(q, TRUE, e)
    BY <1>1, <1>4 DEF SetAvailable
  <2>4. /\ Weak(t) /\ Held(t) /\ Idle(t) /\ t.config = q.config
        /\ t.state = IF q.state = "DOWN" THEN "DOWN" ELSE "TEARDOWN"
    BY <2>1, <2>2, <2>3, SetDownStops
  <2>. QED BY <2>1, <2>4 DEF Inv, Waits, Keeps
<1>. QED BY <1>2, <1>3, <1>4

-----------------------------------------------------------------------------
(* Configuration changes. *)

LEMMA DetachedDown ==
  ASSUME NEW s \in State, s.told = "DOWN", NEW t, t = Detached(s)
  PROVE  /\ Weak(t) /\ Held(t) /\ Idle(t)
         /\ t.state = "DOWN" /\ t.config = s.config
<1>1. PICK q : q = Release(s, "l3_dev")
  OBVIOUS
<1>2. PICK r : r = Release(q, "main_dev")
  OBVIOUS
<1>3. q \in State /\ Same(s, q)
  BY <1>1, ReleaseFrame
<1>4. r \in State /\ Same(q, r)
  BY <1>2, <1>3, ReleaseFrame
<1>5. PICK a : a = [r EXCEPT !.state = "DOWN", !.available = FALSE]
  OBVIOUS
<1>6. PICK b : b = [a EXCEPT !.link = FALSE, !.main = FALSE]
  OBVIOUS
<1>7. PICK c : c = [b EXCEPT !.l3 = "none", !.sm = "S_IDLE"]
  OBVIOUS
<1>8. PICK d : d = [c EXCEPT !.script = FALSE, !.task = FALSE]
  OBVIOUS
<1>9. PICK f : f = [d EXCEPT !.renew = FALSE, !.tdtimer = FALSE]
  OBVIOUS
<1>10. t = [f EXCEPT !.chktimer = FALSE]
  BY <1>1, <1>2, <1>5, <1>6, <1>7, <1>8, <1>9 DEF Detached
<1>11. /\ a \in State /\ a.state = "DOWN" /\ a.told = r.told
      /\ a.config = r.config
  BY <1>4, <1>5, ZenonT(60) DEF State
<1>12. /\ b \in State /\ b.state = "DOWN" /\ b.told = r.told
      /\ b.config = r.config
  BY <1>11, <1>6, ZenonT(60) DEF State
<1>13. /\ c \in State /\ c.state = "DOWN" /\ c.told = r.told
      /\ c.config = r.config /\ c.sm = "S_IDLE"
  BY <1>12, <1>7, ZenonT(60) DEF State
<1>14. /\ d \in State /\ d.state = "DOWN" /\ d.told = r.told
      /\ d.config = r.config /\ d.sm = "S_IDLE"
  BY <1>13, <1>8, ZenonT(60) DEF State
<1>15. /\ f \in State /\ f.state = "DOWN" /\ f.told = r.told
      /\ f.config = r.config /\ f.sm = "S_IDLE" /\ ~f.tdtimer
  BY <1>14, <1>9, ZenonT(60) DEF State
<1>16. /\ t \in State /\ t.state = "DOWN" /\ t.told = r.told
       /\ t.config = r.config /\ t.sm = "S_IDLE" /\ ~t.tdtimer
  BY <1>15, <1>10, ZenonT(60) DEF State
<1>. QED
  BY <1>3, <1>4, <1>16
  DEF Weak, Known, Timed, Stopped, Held, Idle, Busy, Same

LEMMA DoFreeInv ==
  ASSUME NEW s \in State, s.told = "DOWN", NEW t, t = DoFree(s)
  PROVE  Inv(t) /\ t.state = "DOWN"
<1>1. PICK q : q = Detached(s)
  OBVIOUS
<1>2. Weak(q) /\ q.state = "DOWN"
  BY <1>1, DetachedDown
<1>3. PICK a : a = [q EXCEPT !.alive = FALSE, !.dynamic = FALSE]
  OBVIOUS
<1>4. PICK b : b = [a EXCEPT !.handler = {}, !.proto = {}]
  OBVIOUS
<1>5. PICK c : c = [b EXCEPT !.config = "NORMAL", !.autostart = FALSE]
  OBVIOUS
<1>6. PICK d : d = [c EXCEPT !.cfgauto = FALSE, !.enabled = FALSE]
  OBVIOUS
<1>7. t = [d EXCEPT !.force = FALSE]
  BY <1>1, <1>3, <1>4, <1>5, <1>6 DEF DoFree
<1>8. /\ a \in State /\ a.state = q.state /\ a.told = q.told
      /\ a.sm = q.sm /\ a.tdtimer = q.tdtimer
  BY <1>2, <1>3, ZenonT(60) DEF Weak, State
<1>9. /\ b \in State /\ b.state = q.state /\ b.told = q.told
      /\ b.sm = q.sm /\ b.tdtimer = q.tdtimer
  BY <1>8, <1>4 DEF State
<1>10. /\ c \in State /\ c.state = q.state /\ c.told = q.told
      /\ c.sm = q.sm /\ c.tdtimer = q.tdtimer /\ c.config = "NORMAL"
  BY <1>9, <1>5, ZenonT(60) DEF State
<1>11. /\ d \in State /\ d.state = q.state /\ d.told = q.told
      /\ d.sm = q.sm /\ d.tdtimer = q.tdtimer /\ d.config = "NORMAL"
  BY <1>10, <1>6, ZenonT(60) DEF State
<1>12. /\ t \in State /\ t.state = q.state /\ t.told = q.told
      /\ t.sm = q.sm /\ t.tdtimer = q.tdtimer /\ t.config = "NORMAL"
  BY <1>11, <1>7, ZenonT(60) DEF State
<1>. QED
  BY <1>2, <1>12
  DEF Inv, Weak, Known, Timed, Stopped, Held, Idle, Waits, Busy

(* Binding a device, or finding it there already, may start the interface   *)
(* but does not bring it up.                                                *)
LEMMA AttachInv ==
  ASSUME NEW s, Inv(s), s.state # "UP", NEW e \in Envs,
         NEW t, t = Attach(s, e)
  PROVE  Inv(t) /\ t.state # "UP"
<1>1. PICK new : new = Bound(s)
  OBVIOUS
<1>2. PICK add : add = AnnounceAdd(new, e)
  OBVIOUS
<1>3. PICK up : up = AnnounceUp(add, e)
  OBVIOUS
<1>4. PICK lnk : lnk = AnnounceLink(up, e)
  OBVIOUS
<1>5. PICK l3 : l3 = BindL3(lnk)
  OBVIOUS
<1>6. t = l3 \/ t = SetAvailable(l3, TRUE, e)
  BY <1>1, <1>2, <1>3, <1>4, <1>5 DEF Attach
<1>7. new \in State /\ Same(s, new)
  BY <1>1, ZenonT(60) DEF Bound, Inv, Weak, State, Same
<1>8. Inv(new) /\ new.state # "UP"
  BY <1>7, SameInv DEF Same
<1>9. Inv(add) /\ add.state # "UP"
  BY <1>2, <1>8, SetAvailableInv DEF AnnounceAdd, Keeps
<1>10. Inv(up) /\ up.state # "UP"
  BY <1>3, <1>9, SetEnabledInv DEF AnnounceUp, Keeps
<1>11. Inv(lnk) /\ lnk.state # "UP"
  BY <1>4, <1>10, SetLinkStateInv DEF AnnounceLink, Keeps
<1>12. Inv(l3) /\ l3.state # "UP"
  <2>1. CASE l3 = lnk
    BY <1>11, <2>1
  <2>2. CASE l3 = [lnk EXCEPT !.l3 = "main"]
    <3>1. /\ l3 \in State /\ l3.state = lnk.state /\ l3.told = lnk.told
          /\ l3.config = lnk.config /\ l3.available = lnk.available
          /\ l3.sm = lnk.sm /\ l3.tdtimer = lnk.tdtimer
      BY <1>11, <2>2 DEF Inv, Weak, State
    <3>. QED
      BY <1>11, <3>1
      DEF Inv, Weak, Known, Timed, Stopped, Held, Idle, Waits, Busy
  <2>. QED BY <1>5, <2>1, <2>2 DEF BindL3
<1>. QED BY <1>6, <1>12, SetAvailableInv DEF Keeps

LEMMA HandleConfigChangeInv ==
  ASSUME NEW s, Weak(s), s.state = "DOWN", NEW e \in Envs,
         NEW t, t = HandleConfigChange(s, e)
  PROVE  Inv(t) /\ t.state # "UP"
<1>1. PICK n : n = [s EXCEPT !.config = "NORMAL"]
  OBVIOUS
<1>2. PICK d : d = Detached(n)
  OBVIOUS
<1>3. PICK r : r = IF s.config = "RELOAD" THEN Attach(d, e) ELSE n
  OBVIOUS
<1>4. /\ n \in State /\ n.state = "DOWN" /\ n.told = "DOWN"
      /\ n.config = "NORMAL" /\ n.available = s.available
      /\ n.sm = s.sm /\ n.tdtimer = s.tdtimer
  BY <1>1 DEF Weak, Known, State
<1>5. Inv(n)
  BY <1>4
  DEF Inv, Weak, Known, Timed, Stopped, Held, Idle, Waits, Busy
<1>6. Inv(d) /\ d.state = "DOWN"
  BY <1>2, <1>4, DetachedDown DEF Inv, Waits
<1>7. Inv(r) /\ r.state # "UP"
  BY <1>3, <1>4, <1>5, <1>6, AttachInv
<1>8. r \in State /\ r.told = "DOWN"
  BY <1>7 DEF Inv, Weak, Known, State
<1>9. t = DoFree(n) \/ t = InterfaceSetUp(r, e) \/ t = DoFree(r) \/ t = r
  BY <1>1, <1>2, <1>3 DEF HandleConfigChange, Resume
<1>10. CASE t = DoFree(n)
  BY <1>4, <1>10, DoFreeInv
<1>11. CASE t = InterfaceSetUp(r, e)
  BY <1>7, <1>11, InterfaceSetUpInv DEF Keeps
<1>12. CASE t = DoFree(r)
  BY <1>8, <1>12, DoFreeInv
<1>. QED BY <1>7, <1>9, <1>10, <1>11, <1>12

LEMMA SetConfigStateInv ==
  ASSUME NEW s, Inv(s), NEW c \in {"RELOAD", "REMOVE"}, NEW e \in Envs,
         NEW t, t = SetConfigState(s, c, e)
  PROVE  Inv(t) /\ t.state # "UP"
<1>1. PICK q : q = [s EXCEPT !.config = c]
  OBVIOUS
<1>2. /\ q \in State /\ q.state = s.state /\ q.told = s.told
      /\ q.available = s.available /\ q.sm = s.sm /\ q.tdtimer = s.tdtimer
  BY <1>1 DEF Inv, Weak, State
<1>3. Weak(q) /\ Held(q)
  BY <1>2 DEF Inv, Weak, Known, Timed, Stopped, Held, Busy
<1>4. CASE q.state = "DOWN"
  <2>1. t = HandleConfigChange(q, e)
    BY <1>1, <1>4 DEF SetConfigState
  <2>. QED BY <1>3, <1>4, <2>1, HandleConfigChangeInv
<1>5. CASE q.state # "DOWN"
  <2>1. t = SetDown(q, FALSE, e)
    BY <1>1, <1>5 DEF SetConfigState
  <2>2. Weak(t) /\ Held(t) /\ Idle(t) /\ t.state = "TEARDOWN"
    BY <1>3, <1>5, <2>1, SetDownStops DEF Weak
  <2>. QED BY <2>2 DEF Inv, Waits
<1>. QED BY <1>4, <1>5

-----------------------------------------------------------------------------
(* The handler's events. *)

LEMMA ProtoDownInv ==
  ASSUME NEW s, Weak(s), Waits(s), NEW e \in Envs, NEW t, t = ProtoDown(s, e)
  PROVE  Inv(t)
<1>1. CASE s.state = "DOWN"
  BY <1>1 DEF ProtoDown, Inv, Held, Idle
<1>2. CASE s.state # "DOWN"
  <2>1. PICK m : m = MarkDown(s)
    OBVIOUS
  <2>2. PICK r : r = Release(m, "main_dev")
    OBVIOUS
  <2>3. PICK q : q = [r EXCEPT !.l3 = "none"]
    OBVIOUS
  <2>4. Weak(m) /\ m.state = "DOWN"
    BY <2>1, MarkDownDown
  <2>5. r \in State /\ Same(m, r)
    BY <2>2, <2>4, ReleaseFrame DEF Weak
  <2>6. /\ q \in State /\ q.state = r.state /\ q.told = r.told
        /\ q.available = r.available /\ q.sm = r.sm /\ q.tdtimer = r.tdtimer
    BY <2>3, <2>5 DEF State
  <2>7. Weak(q) /\ q.state = "DOWN"
    BY <2>4, <2>5, <2>6 DEF Weak, Known, Timed, Stopped, Busy, Same
  <2>8. t = HandleConfigChange(q, e)
    BY <1>2, <2>1, <2>2, <2>3 DEF ProtoDown
  <2>. QED BY <2>7, <2>8, HandleConfigChangeInv
<1>. QED BY <1>1, <1>2

LEMMA ProtoLinkLostInv ==
  ASSUME NEW s, Inv(s), NEW t, t = ProtoLinkLost(s)
  PROVE  Inv(t) /\ t.state # "UP" /\ t.sm = s.sm
<1>1. CASE s.state = "UP"
  <2>1. PICK m : m = MarkDown(s)
    OBVIOUS
  <2>2. /\ Weak(m) /\ m.state = "DOWN" /\ m.config = s.config
        /\ m.sm = s.sm /\ m.available = s.available
    BY <2>1, MarkDownDown DEF Inv
  <2>3. t = [m EXCEPT !.state = "SETUP"]
    BY <1>1, <2>1 DEF ProtoLinkLost
  <2>4. /\ t \in State /\ t.state = "SETUP" /\ t.told = m.told
        /\ t.config = m.config /\ t.available = m.available
        /\ t.sm = m.sm /\ t.tdtimer = m.tdtimer
    BY <2>2, <2>3 DEF Weak, State
  <2>. QED
    BY <1>1, <2>2, <2>4
    DEF Inv, Weak, Known, Timed, Stopped, Held, Idle, Waits, Busy
<1>2. CASE s.state # "UP"
  BY <1>2 DEF ProtoLinkLost
<1>. QED BY <1>1, <1>2

(* A teardown may only start behind the back of an interface that is UP     *)
(* over a layer 3 device of its own.                                        *)
LEMMA TeardownInv ==
  ASSUME NEW s, Weak(s), Waits(s), Idle(s),
         s.state = "UP" => s.l3 = "tun", NEW e \in Envs,
         NEW t, t = ShellTeardown(s, e)
  PROVE  Inv(t)
<1>1. /\ t \in State /\ Busy(t) /\ t.tdtimer
      /\ t.state = s.state /\ t.told = s.told /\ t.config = s.config
      /\ t.available = s.available /\ t.l3 = s.l3
  BY TeardownFrame DEF Weak
<1>2. s.sm \in {"S_IDLE", "S_TEARDOWN"} => t.sm = "S_TEARDOWN"
  BY DEF ShellTeardown, StartScript, Weak, State
<1>. QED
  BY <1>1, <1>2 DEF Inv, Weak, Known, Timed, Stopped, Held, Idle, Waits

LEMMA ShellRenewInv ==
  ASSUME NEW s, Inv(s), NEW e \in Envs, NEW t, t = ShellRenew(s, e)
  PROVE  Inv(t) /\ Keeps(s, t)
<1>1. CASE t = s
  BY <1>1 DEF Keeps
<1>2. CASE t = [s EXCEPT !.renew = TRUE]
  <2>1. t \in State /\ Same(s, t)
    BY <1>2, ZenonT(60) DEF Inv, Weak, State, Same
  <2>. QED BY <2>1, SameInv
<1>3. CASE t = [[s EXCEPT !.renew = FALSE] EXCEPT !.script = e.fork]
  <2>1. t \in State /\ Same(s, t)
    BY <1>3, ZenonT(60) DEF Inv, Weak, State, Envs, Same
  <2>. QED BY <2>1, SameInv
<1>. QED BY <1>1, <1>2, <1>3 DEF ShellRenew, StartScript

LEMMA ScriptDoneInv ==
  ASSUME NEW s, Inv(s), NEW e \in Envs, NEW t, t = ScriptDone(s, e)
  PROVE  Inv(t)
<1>1. PICK q : q = CASE s.renew -> ShellRenew(s, e)
                     [] /\ ~s.renew /\ "NO_TASK" \notin s.proto
                        /\ ~s.task /\ s.sm = "S_SETUP" -> ShellTeardown(s, e)
                     [] OTHER -> s
  OBVIOUS
<1>2. Inv(q)
  <2>1. CASE q = ShellRenew(s, e)
    BY <2>1, ShellRenewInv
  <2>2. CASE s.sm = "S_SETUP" /\ q = ShellTeardown(s, e)
    BY <2>2, TeardownInv DEF Inv, Idle
  <2>3. CASE q = s
    BY <2>3
  <2>. QED BY <1>1, <2>1, <2>2, <2>3
<1>3. t = q \/ t = [q EXCEPT !.chktimer = TRUE]
  BY <1>1 DEF ScriptDone
<1>4. CASE t = [q EXCEPT !.chktimer = TRUE]
  <2>1. t \in State /\ Same(q, t)
    BY <1>2, <1>4, ZenonT(60) DEF Inv, Weak, State, Same
  <2>. QED BY <1>2, <2>1, SameInv
<1>. QED BY <1>2, <1>3, <1>4

LEMMA ShellIdleFrame ==
  ASSUME NEW s \in State, NEW t, t = ShellIdle(s)
  PROVE  /\ t \in State /\ Timed(t) /\ t.sm = "S_IDLE"
         /\ t.state = s.state /\ t.told = s.told /\ t.config = s.config
         /\ t.available = s.available /\ t.l3 = s.l3
<1>1. PICK q : q = [s EXCEPT !.sm = "S_IDLE"]
  OBVIOUS
<1>2. t = [q EXCEPT !.tdtimer = FALSE, !.chktimer = FALSE]
  BY <1>1 DEF ShellIdle
<1>3. /\ q \in State /\ q.sm = "S_IDLE" /\ q.state = s.state
      /\ q.told = s.told /\ q.config = s.config
      /\ q.available = s.available /\ q.l3 = s.l3
  BY <1>1 DEF State
<1>4. t \in State /\ ~t.tdtimer
  BY <1>2, <1>3, ZenonT(60) DEF State
<1>5. /\ t.sm = "S_IDLE" /\ t.state = s.state
      /\ t.told = s.told /\ t.config = s.config
      /\ t.available = s.available /\ t.l3 = s.l3
  BY <1>2, <1>3 DEF State
<1>. QED BY <1>4, <1>5 DEF Timed, Busy

(* A child's exit, or the timer that has just gone off and killed them. *)
LEMMA TaskFinishInv ==
  ASSUME NEW s \in State, Known(s), Stopped(s), Held(s), Idle(s), Waits(s),
         Timed(s) \/ (Busy(s) /\ ~s.script /\ ~s.task),
         NEW who \in {"script", "task", "timer"}, NEW e \in Envs,
         NEW t, t = TaskFinish(s, who, e)
  PROVE  Inv(t)
<1>1. PICK q : q = ShellIdle(s)
  OBVIOUS
<1>2. /\ Weak(q) /\ Waits(q) /\ Idle(q) /\ q.sm = "S_IDLE"
      /\ q.state = s.state
  <2>1. /\ q \in State /\ Timed(q) /\ q.sm = "S_IDLE"
        /\ q.state = s.state /\ q.told = s.told /\ q.config = s.config
        /\ q.available = s.available /\ q.l3 = s.l3
    BY <1>1, ShellIdleFrame
  <2>. QED BY <2>1 DEF Weak, Known, Stopped, Idle, Waits
<1>3. CASE s.sm = "S_SETUP_ABORT"
  <2>1. CASE s.script \/ s.task
    BY <1>3, <2>1 DEF TaskFinish, Inv, Weak
  <2>2. CASE ~(s.script \/ s.task)
    <3>1. t = ShellTeardown(q, e)
      BY <1>1, <1>3, <2>2 DEF TaskFinish
    <3>2. q.state # "UP"
      BY <1>2, <1>3 DEF Idle
    <3>. QED BY <1>2, <3>1, <3>2, TeardownInv
  <2>. QED BY <2>1, <2>2
<1>4. CASE s.sm = "S_TEARDOWN"
  <2>1. CASE s.script \/ s.task
    BY <1>4, <2>1 DEF TaskFinish, Inv, Weak
  <2>2. CASE ~(s.script \/ s.task)
    <3>1. t = ProtoDown(q, e)
      BY <1>1, <1>4, <2>2 DEF TaskFinish
    <3>. QED BY <1>2, <3>1, ProtoDownInv
  <2>. QED BY <2>1, <2>2
<1>5. CASE ~Busy(s)
  <2>1. Inv(s)
    BY <1>5 DEF Inv, Weak
  <2>2. CASE s.sm = "S_IDLE" /\ who = "task"
    <3>1. PICK r : r = ProtoLinkLost(s)
      OBVIOUS
    <3>2. Inv(r) /\ r.state # "UP"
      BY <2>1, <3>1, ProtoLinkLostInv
    <3>3. t = ShellTeardown(r, e)
      BY <2>2, <3>1 DEF TaskFinish
    <3>. QED BY <3>2, <3>3, TeardownInv DEF Inv
  <2>3. CASE s.sm = "S_SETUP" /\ who = "task"
    <3>1. t = ShellTeardown(s, e)
      BY <2>3 DEF TaskFinish
    <3>2. s.state # "UP"
      BY <2>3 DEF Idle
    <3>. QED BY <2>1, <3>1, <3>2, TeardownInv DEF Inv
  <2>4. CASE s.sm \in {"S_IDLE", "S_SETUP"} /\ who = "script"
    <3>1. t = ScriptDone(s, e)
      BY <2>4 DEF TaskFinish
    <3>. QED BY <2>1, <3>1, ScriptDoneInv
  <2>5. CASE who = "timer"
    <3>1. s.sm # "S_SETUP_ABORT" /\ s.sm # "S_TEARDOWN"
      BY <1>5 DEF Busy
    <3>2. t = s
      BY <2>5, <3>1 DEF TaskFinish
    <3>. QED BY <2>1, <3>2
  <2>. QED BY <1>5, <2>2, <2>3, <2>4, <2>5 DEF Busy, State
<1>. QED BY <1>3, <1>4, <1>5 DEF Busy

(* A layer 3 device is exchanged only while the handler is not tearing      *)
(* down: an interface UP over "tun" with a teardown on its way must not     *)
(* find itself on the main device.                                          *)
LEMMA SetL3DevInv ==
  ASSUME NEW s, Inv(s), ~Busy(s), NEW d \in {"main", "tun"}, NEW e \in Envs,
         NEW t, t = SetL3Dev(s, d, e)
  PROVE  Inv(t) /\ Keeps(s, t)
<1>1. PICK r : r = [s EXCEPT !.claimed = @ \ {"l3_dev"}]
  OBVIOUS
<1>2. PICK q :
        q = IF Active(s) /\ ~Active(r) THEN SetEnabled(r, FALSE, e) ELSE r
  OBVIOUS
<1>3. PICK b : b = [q EXCEPT !.l3 = d]
  OBVIOUS
<1>4. r \in State /\ Same(s, r)
  BY <1>1 DEF Inv, Weak, State, Same
<1>5. Inv(r) /\ Keeps(s, r)
  BY <1>4, SameInv
<1>6. Inv(q) /\ Keeps(s, q)
  BY <1>2, <1>5, SetEnabledInv DEF Keeps
<1>7. /\ b \in State /\ b.state = q.state /\ b.told = q.told
      /\ b.config = q.config /\ b.available = q.available
      /\ b.sm = q.sm /\ b.tdtimer = q.tdtimer
  BY <1>3, <1>6 DEF Inv, Weak, State
<1>8. Inv(b) /\ Keeps(s, b)
  BY <1>6, <1>7
  DEF Inv, Weak, Known, Timed, Stopped, Held, Idle, Waits, Busy, Keeps
<1>9. t = s \/ t = Claim(b, "l3_dev", e) \/ t = b
  BY <1>1, <1>2, <1>3 DEF SetL3Dev
<1>10. CASE t = Claim(b, "l3_dev", e)
  BY <1>8, <1>10, ClaimInv, SMTT(30) DEF Keeps
<1>11. CASE t = s
  BY <1>11 DEF Keeps
<1>. QED BY <1>8, <1>9, <1>10, <1>11

LEMMA DevicePresentInv ==
  ASSUME NEW s, Inv(s), NEW v \in BOOLEAN, NEW e \in Envs,
         NEW t, t = DevicePresent(s, v, e)
  PROVE  Inv(t) /\ Keeps(s, t)
<1>1. PICK q : q = [s EXCEPT !.present = v]
  OBVIOUS
<1>2. q \in State /\ Same(s, q)
  BY <1>1 DEF Inv, Weak, State, Same
<1>3. Inv(q) /\ Keeps(s, q)
  BY <1>2, SameInv
<1>4. t = q \/ t = SetAvailable(q, v, e)
  BY <1>1 DEF DevicePresent
<1>. QED BY <1>3, <1>4, SetAvailableInv DEF Keeps

(* Only here does the interface come UP: the handler is idle from then on.  *)
LEMMA LinkUpInv ==
  ASSUME NEW s, Inv(s), ~Busy(s), NEW d \in {"main", "tun"},
         NEW keep \in BOOLEAN, NEW e \in Envs, NEW t, t = LinkUp(s, d, keep, e)
  PROVE  Inv(t)
<1>1. PICK b : b = SetL3Dev(s, d, e)
  OBVIOUS
<1>2. PICK c : c = Claim(b, "l3_dev", e)
  OBVIOUS
<1>3. PICK p : p = IF d = "main" THEN DevicePresent(c, TRUE, e) ELSE c
  OBVIOUS
<1>4. PICK k : k = IF keep THEN s ELSE p
  OBVIOUS
<1>5. Inv(b)
  BY <1>1, SetL3DevInv
<1>6. Inv(c)
  BY <1>2, <1>5, ClaimInv
<1>7. Inv(p)
  BY <1>3, <1>6, DevicePresentInv
<1>8. Inv(k)
  BY <1>4, <1>7
<1>9. \/ t = b \/ t = k
      \/ ~Busy(k) /\ t = [ProtoUp(k) EXCEPT !.sm = "S_IDLE"]
  BY <1>1, <1>2, <1>3, <1>4 DEF LinkUp
<1>10. CASE ~Busy(k) /\ t = [ProtoUp(k) EXCEPT !.sm = "S_IDLE"]
  <2>1. PICK u : u = ProtoUp(k)
    OBVIOUS
  <2>2. /\ u \in State /\ u.config = k.config /\ u.available = k.available
        /\ u.sm = k.sm /\ u.tdtimer = k.tdtimer /\ Known(u)
        /\ u.state = IF k.state = "SETUP" THEN "UP" ELSE k.state
    BY <1>8, <2>1, ZenonT(60) DEF ProtoUp, Inv, Weak, State, Known
  <2>3. t = [u EXCEPT !.sm = "S_IDLE"]
    BY <1>10, <2>1
  <2>4. /\ t \in State /\ t.config = u.config /\ t.available = u.available
        /\ t.sm = "S_IDLE" /\ t.tdtimer = u.tdtimer /\ t.told = u.told
        /\ t.state = u.state
    BY <2>2, <2>3 DEF State
  <2>. QED
    BY <1>8, <1>10, <2>2, <2>4
    DEF Inv, Weak, Known, Timed, Stopped, Held, Idle, Waits, Busy
<1>. QED BY <1>5, <1>8, <1>9, <1>10

-----------------------------------------------------------------------------
(* The configuration's callbacks. *)

LEMMA EnvEnvs ==
  ASSUME NEW e \in Env
  PROVE  e \in Envs /\ Loading(e) \in Envs
BY ConstantsAssumption DEF Env, Envs, Loading

LEMMA StartPendingInv ==
  ASSUME NEW s, Inv(s), NEW e \in Envs, NEW t, t = StartPending(s, e)
  PROVE  Inv(t)
BY InterfaceSetUpInv DEF StartPending

LEMMA SetDynamicInv ==
  ASSUME NEW s, Inv(s), NEW t, t = SetDynamic(s)
  PROVE  Inv(t)
<1>1. CASE t = [s EXCEPT !.dynamic = TRUE, !.autostart = TRUE]
  <2>1. t \in State /\ Same(s, t)
    BY <1>1, ZenonT(60) DEF Inv, Weak, State, Same
  <2>. QED BY <2>1, SameInv
<1>. QED BY <1>1 DEF SetDynamic

LEMMA NewInv ==
  ASSUME NEW s \in State, NEW h \in Protocols, NEW a \in BOOLEAN,
         NEW f \in Links, NEW t, t = New(s, h, a, f)
  PROVE  Inv(t) /\ t.state = "DOWN"
<1>1. PICK b : b = Blank(s.present, s.carrier)
  OBVIOUS
<1>2. PICK c : c = [b EXCEPT !.alive = TRUE, !.claimed = s.claimed]
  OBVIOUS
<1>3. PICK d : d = [c EXCEPT !.autostart = a, !.cfgauto = a]
  OBVIOUS
<1>4. t = [d EXCEPT !.force = f, !.handler = h]
  BY <1>1, <1>2, <1>3 DEF New
<1>5. f \in BOOLEAN /\ h \in SUBSET AllFlags
  BY ConstantsAssumption
<1>6. /\ b \in State /\ b.state = "DOWN" /\ b.told = "DOWN"
      /\ b.config = "NORMAL" /\ b.sm = "S_IDLE" /\ ~b.tdtimer
  BY <1>1 DEF Blank, State
<1>7. /\ c \in State /\ c.state = "DOWN" /\ c.told = "DOWN"
      /\ c.config = "NORMAL" /\ c.sm = "S_IDLE" /\ ~c.tdtimer
  BY <1>2, <1>6 DEF State
<1>8. /\ d \in State /\ d.state = "DOWN" /\ d.told = "DOWN"
      /\ d.config = "NORMAL" /\ d.sm = "S_IDLE" /\ ~d.tdtimer
  BY <1>3, <1>7, ZenonT(60) DEF State
<1>9. t \in State
  BY <1>4, <1>5, <1>8, ZenonT(60) DEF State
<1>10. /\ t.state = "DOWN" /\ t.told = "DOWN"
      /\ t.config = "NORMAL" /\ t.sm = "S_IDLE" /\ ~t.tdtimer
  BY <1>4, <1>5, <1>8 DEF State
<1>. QED
  BY <1>9, <1>10 DEF Inv, Weak, Known, Timed, Stopped, Held, Idle, Waits, Busy

LEMMA ChangeConfigInv ==
  ASSUME NEW s, Inv(s), NEW h \in Protocols, NEW a \in BOOLEAN,
         NEW f \in Links, NEW changed \in BOOLEAN, NEW e \in Envs,
         NEW t, t = ChangeConfig(s, h, a, f, changed, e)
  PROVE  Inv(t)
<1>1. PICK q : q = [s EXCEPT !.autostart = IF s.cfgauto # a THEN a ELSE @,
                             !.cfgauto = a]
  OBVIOUS
<1>2. PICK r : r = [q EXCEPT !.force = f, !.handler = h]
  OBVIOUS
<1>3. f \in BOOLEAN /\ h \in SUBSET AllFlags
  BY ConstantsAssumption
<1>4. q \in State /\ Same(s, q)
  <2>1. PICK v : v = IF s.cfgauto # a THEN a ELSE s.autostart
    OBVIOUS
  <2>2. v \in BOOLEAN
    BY <2>1 DEF Inv, Weak, State
  <2>3. q = [s EXCEPT !.autostart = v, !.cfgauto = a]
    BY <1>1, <2>1
  <2>. QED BY <2>2, <2>3, ZenonT(60) DEF Inv, Weak, State, Same
<1>5. r \in State /\ Same(q, r)
  BY <1>2, <1>3, <1>4, ZenonT(60) DEF State, Same
<1>6. Inv(r)
  BY <1>4, <1>5, SameInv
<1>7. t = SetConfigState(r, "RELOAD", e) \/ t = CheckState(r, e) \/ t = r
  BY <1>1, <1>2 DEF ChangeConfig
<1>. QED BY <1>6, <1>7, SetConfigStateInv, CheckStateInv

LEMMA ConfigurationInv ==
  ASSUME Inv(st), NEW e \in Env, Configuration(e)
  PROVE  Inv(st')
<1>0. e \in Envs /\ Loading(e) \in Envs
  BY EnvEnvs
<1>1. CASE Create(e)
  <2>1. PICK d \in Origins, h \in Protocols, a \in BOOLEAN, f \in Links :
          st' = IF d THEN SetDynamic(Attach(New(st, h, a, f), e))
                ELSE StartPending(Attach(New(st, h, a, f), Loading(e)), e)
    BY <1>1 DEF Create
  <2>2. PICK n : n = New(st, h, a, f)
    OBVIOUS
  <2>3. PICK b, c : b = Attach(n, e) /\ c = Attach(n, Loading(e))
    OBVIOUS
  <2>4. Inv(n) /\ n.state # "UP"
    BY <2>2, NewInv DEF Inv, Weak
  <2>5. Inv(b) /\ Inv(c)
    BY <1>0, <2>3, <2>4, AttachInv
  <2>6. st' = SetDynamic(b) \/ st' = StartPending(c, e)
    BY <2>1, <2>2, <2>3
  <2>. QED BY <1>0, <2>5, <2>6, SetDynamicInv, StartPendingInv
<1>2. CASE ReloadConfig(e)
  <2>1. PICK d \in Origins, h \in Protocols, a \in BOOLEAN,
             changed \in BOOLEAN, f \in Links :
          st' = IF d THEN SetDynamic(ChangeConfig(st, h, a, f, changed, e))
                ELSE StartPending(ChangeConfig(st, h, a, f, changed, Loading(e)), e)
    BY <1>2 DEF ReloadConfig
  <2>2. PICK b, c : /\ b = ChangeConfig(st, h, a, f, changed, e)
                    /\ c = ChangeConfig(st, h, a, f, changed, Loading(e))
    OBVIOUS
  <2>3. Inv(b) /\ Inv(c)
    BY <1>0, <2>2, ChangeConfigInv
  <2>4. st' = SetDynamic(b) \/ st' = StartPending(c, e)
    BY <2>1, <2>2
  <2>. QED BY <1>0, <2>3, <2>4, SetDynamicInv, StartPendingInv
<1>3. CASE RemoveInterface(e)
  BY <1>0, <1>3, SetConfigStateInv DEF RemoveInterface
<1>4. CASE IfUp(e)
  BY <1>0, <1>4, InterfaceSetUpInv DEF IfUp
<1>5. CASE IfDown(e)
  <2>1. PICK all \in BOOLEAN :
          st' = SetDown([st EXCEPT !.autostart = @ /\ all], FALSE, e)
    BY <1>5 DEF IfDown
  <2>2. PICK q : q = [st EXCEPT !.autostart = @ /\ all]
    OBVIOUS
  <2>3. q \in State /\ Same(st, q)
    BY <2>2 DEF Inv, Weak, State, Same
  <2>4. Inv(q)
    BY <2>3, SameInv
  <2>5. st' = SetDown(q, FALSE, e)
    BY <2>1, <2>2
  <2>6. /\ Weak(st') /\ Held(st') /\ Idle(st') /\ st'.config = q.config
        /\ st'.state = IF q.state = "DOWN" THEN "DOWN" ELSE "TEARDOWN"
    BY <1>0, <2>4, <2>5, SetDownStops DEF Inv, Weak
  <2>. QED BY <2>4, <2>6 DEF Inv, Waits
<1>. QED BY <1>1, <1>2, <1>3, <1>4, <1>5 DEF Configuration

-----------------------------------------------------------------------------
(* The device's callbacks. *)

LEMMA DeviceEventsInv ==
  ASSUME Inv(st), NEW e \in Env, DeviceEvents(e)
  PROVE  Inv(st')
<1>0. e \in Envs
  BY EnvEnvs
<1>1. CASE SetPresent(e)
  <2>1. (~st.present) \in BOOLEAN
    OBVIOUS
  <2>. QED BY <1>0, <1>1, <2>1, DevicePresentInv DEF SetPresent
<1>2. CASE SetCarrier(e)
  <2>1. PICK q : q = [st EXCEPT !.carrier = ~@]
    OBVIOUS
  <2>2. q \in State /\ Same(st, q)
    BY <2>1, ZenonT(60) DEF Inv, Weak, State, Same
  <2>3. Inv(q)
    BY <2>2, SameInv
  <2>4. q.carrier \in BOOLEAN
    BY <2>2 DEF State
  <2>5. st' = SetLinkState(q, q.carrier, e) \/ st' = q
    BY <1>2, <2>1 DEF SetCarrier
  <2>. QED BY <1>0, <2>3, <2>4, <2>5, SetLinkStateInv
<1>3. CASE OtherClaims(e)
  BY <1>0, <1>3, ClaimInv DEF OtherClaims
<1>4. CASE OtherReleases(e)
  <2>1. PICK q : q = [st EXCEPT !.claimed = @ \ {"other"}]
    OBVIOUS
  <2>2. q \in State /\ Same(st, q)
    BY <2>1 DEF Inv, Weak, State, Same
  <2>3. Inv(q)
    BY <2>2, SameInv
  <2>4. st' = SetEnabled(q, FALSE, e) \/ st' = q
    BY <1>4, <2>1 DEF OtherReleases
  <2>. QED BY <1>0, <2>3, <2>4, SetEnabledInv
<1>5. CASE TopoChange(e)
  BY <1>0, <1>5, ShellRenewInv DEF TopoChange
<1>6. CASE L3LinkDown(e)
  BY <1>0, <1>6, TeardownInv DEF L3LinkDown, Inv
<1>. QED BY <1>1, <1>2, <1>3, <1>4, <1>5, <1>6 DEF DeviceEvents

-----------------------------------------------------------------------------
(* The handler's callbacks. *)

LEMMA ChildEventsInv ==
  ASSUME Inv(st), NEW e \in Env,
         ScriptExits(e) \/ TaskExits(e) \/ TeardownTimeout(e) \/ CheckupTimeout(e)
  PROVE  Inv(st')
<1>0. e \in Envs
  BY EnvEnvs
<1>1. CASE ScriptExits(e)
  <2>1. PICK q : q = [st EXCEPT !.script = FALSE]
    OBVIOUS
  <2>2. q \in State /\ Same(st, q)
    BY <2>1 DEF Inv, Weak, State, Same
  <2>3. Inv(q)
    BY <2>2, SameInv
  <2>4. st' = TaskFinish(q, "script", e)
    BY <1>1, <2>1 DEF ScriptExits
  <2>. QED BY <1>0, <2>3, <2>4, TaskFinishInv DEF Inv, Weak
<1>2. CASE TaskExits(e)
  <2>1. PICK q : q = [st EXCEPT !.task = FALSE]
    OBVIOUS
  <2>2. q \in State /\ Same(st, q)
    BY <2>1 DEF Inv, Weak, State, Same
  <2>3. Inv(q)
    BY <2>2, SameInv
  <2>4. st' = TaskFinish(q, "task", e)
    BY <1>2, <2>1 DEF TaskExits
  <2>. QED BY <1>0, <2>3, <2>4, TaskFinishInv DEF Inv, Weak
<1>3. CASE TeardownTimeout(e)
  <2>1. PICK r : r = [st EXCEPT !.tdtimer = FALSE]
    OBVIOUS
  <2>2. PICK q : q = [r EXCEPT !.script = FALSE, !.task = FALSE]
    OBVIOUS
  <2>3. Busy(st)
    BY <1>3 DEF TeardownTimeout, Inv, Weak, Timed
  <2>4. /\ r \in State /\ r.state = st.state /\ r.told = st.told
        /\ r.config = st.config /\ r.available = st.available
        /\ r.sm = st.sm /\ r.l3 = st.l3
    BY <2>1 DEF Inv, Weak, State
  <2>5. /\ q \in State /\ q.state = r.state /\ q.told = r.told
        /\ q.config = r.config /\ q.available = r.available
        /\ q.sm = r.sm /\ q.l3 = r.l3 /\ ~q.script /\ ~q.task
    BY <2>2, <2>4, ZenonT(60) DEF State
  <2>6. /\ Known(q) /\ Stopped(q) /\ Held(q) /\ Idle(q) /\ Waits(q)
        /\ Busy(q)
    BY <2>3, <2>4, <2>5
    DEF Inv, Weak, Known, Stopped, Held, Idle, Waits, Busy
  <2>7. st' = TaskFinish(q, "timer", e)
    BY <1>3, <2>1, <2>2 DEF TeardownTimeout
  <2>. QED BY <1>0, <2>5, <2>6, <2>7, TaskFinishInv
<1>4. CASE CheckupTimeout(e)
  <2>1. PICK q : q = [st EXCEPT !.chktimer = FALSE]
    OBVIOUS
  <2>2. q \in State /\ Same(st, q)
    BY <2>1 DEF Inv, Weak, State, Same
  <2>3. Inv(q)
    BY <2>2, SameInv
  <2>4. st' = q \/ (q.state # "UP" /\ st' = ShellTeardown(q, e))
    BY <1>4, <2>1 DEF CheckupTimeout
  <2>. QED BY <1>0, <2>3, <2>4, TeardownInv DEF Inv
<1>. QED BY <1>1, <1>2, <1>3, <1>4

LEMMA NotificationsInv ==
  ASSUME Inv(st), NEW e \in Env,
         \/ NotifyLinkUp(e) \/ NotifyLinkDown \/ NotifyRunCommand(e)
         \/ NotifyBlockRestart \/ NotifyAvailable(e) \/ NotifySetupFailed(e)
  PROVE  Inv(st')
<1>0. e \in Envs
  BY EnvEnvs
<1>1. CASE NotifyLinkUp(e)
  <2>1. PICK d \in IF st.main THEN {"main", "tun"} ELSE {"tun"},
             keep \in BOOLEAN :
          st' = LinkUp(st, d, keep /\ st.state = "UP" /\ st.l3 # "none", e)
    BY <1>1 DEF NotifyLinkUp
  <2>2. PICK k : k = (keep /\ st.state = "UP" /\ st.l3 # "none")
    OBVIOUS
  <2>3. k \in BOOLEAN /\ d \in {"main", "tun"} /\ ~Busy(st)
    BY <1>1, <2>1, <2>2 DEF NotifyLinkUp
  <2>4. st' = LinkUp(st, d, k, e)
    BY <2>1, <2>2
  <2>. QED BY <1>0, <2>3, <2>4, LinkUpInv
<1>2. CASE NotifyLinkDown
  BY <1>2, ProtoLinkLostInv DEF NotifyLinkDown
<1>3. CASE NotifyRunCommand(e)
  <2>1. st' \in State /\ Same(st, st')
    BY <1>0, <1>3 DEF NotifyRunCommand, Inv, Weak, State, Envs, Same
  <2>. QED BY <2>1, SameInv
<1>4. CASE NotifyBlockRestart
  <2>1. st' \in State /\ Same(st, st')
    BY <1>4 DEF NotifyBlockRestart, Inv, Weak, State, Same
  <2>. QED BY <2>1, SameInv
<1>5. CASE NotifyAvailable(e)
  BY <1>0, <1>5, SetAvailableInv DEF NotifyAvailable
<1>6. CASE NotifySetupFailed(e)
  <2>1. PICK q : q = IF st.sm = "S_IDLE" THEN ProtoLinkLost(st) ELSE st
    OBVIOUS
  <2>2. st' = ShellTeardown(q, e)
    BY <1>6, <2>1 DEF NotifySetupFailed
  <2>3. Inv(q) /\ q.state # "UP"
    <3>1. CASE st.sm = "S_IDLE"
      BY <2>1, <3>1, ProtoLinkLostInv
    <3>2. CASE st.sm # "S_IDLE"
      BY <1>6, <2>1, <3>2 DEF NotifySetupFailed, Inv, Weak, State, Idle, Busy
    <3>. QED BY <3>1, <3>2
  <2>. QED BY <1>0, <2>2, <2>3, TeardownInv DEF Inv
<1>. QED BY <1>1, <1>2, <1>3, <1>4, <1>5, <1>6

-----------------------------------------------------------------------------
(* The theorems. *)

IInv == Inv(st)

LEMMA InitInv ==
  ASSUME Init PROVE IInv
BY DEF Init, IInv, Blank, Inv, Weak, State, Known, Timed, Stopped, Held, Idle,
       Waits, Busy

LEMMA NextInv ==
  ASSUME IInv, [Next]_st PROVE IInv'
<1>1. CASE UNCHANGED st
  BY <1>1 DEF IInv, Inv, Weak, Known, Timed, Stopped, Held, Idle, Waits, Busy
<1>2. CASE Next
  <2>1. PICK e \in Env : Configuration(e) \/ DeviceEvents(e) \/ HandlerEvents(e)
    BY <1>2 DEF Next
  <2>2. Inv(st)
    BY DEF IInv
  <2>3. Inv(st')
    BY <2>1, <2>2, ConfigurationInv, DeviceEventsInv, ChildEventsInv,
       NotificationsInv DEF HandlerEvents
  <2>. QED BY <2>3 DEF IInv
<1>. QED BY <1>1, <1>2

(* Inv is inductive: whatever the callbacks do and in whatever order.       *)
THEOREM InvHolds == Spec => []IInv
<1>. QED BY InitInv, NextInv, PTL DEF Spec

(* The fields of the interface, its handler and its device keep their types *)
(* through every callback.                                                  *)
THEOREM TypeCorrect == Spec => []TypeOK
<1>1. IInv => TypeOK
  BY DEF IInv, Inv, Weak, TypeOK
<1>. QED BY <1>1, InvHolds, PTL

(* No way out of UP is silent and none is announced twice. *)
THEOREM UsersAlwaysKnow == Spec => []UsersKnow
<1>1. IInv => UsersKnow
  BY DEF IInv, Inv, Weak, Known, UsersKnow
<1>. QED BY <1>1, InvHolds, PTL

(* The teardown timer runs exactly while the handler waits for its children. *)
THEOREM TimerGuards == Spec => []TeardownTimerGuards
<1>1. IInv => TeardownTimerGuards
  BY DEF IInv, Inv, Weak, Timed, TeardownTimerGuards
<1>. QED BY <1>1, InvHolds, PTL

(* An interface in IFS_TEARDOWN has a handler that will end it. *)
THEOREM TeardownIsHeld == Spec => []TeardownHasHandler
<1>1. IInv => TeardownHasHandler
  BY DEF IInv, Inv, Held, TeardownHasHandler
<1>. QED BY <1>1, InvHolds, PTL

(* A reload or removal that is pending has a teardown to wait for. *)
THEOREM ChangesWait == Spec => []PendingChangeWaits
<1>1. IInv => PendingChangeWaits
  BY DEF IInv, Inv, Waits, PendingChangeWaits
<1>. QED BY <1>1, InvHolds, PTL

(* An interface that is UP has no setup and no teardown under way. *)
THEOREM UpIsIdle == Spec => []UpMeansIdle
<1>1. IInv => UpMeansIdle
  BY DEF IInv, Inv, Idle, UpMeansIdle
<1>. QED BY <1>1, InvHolds, PTL

(* An interface that is not available is neither UP nor being set up. *)
THEOREM GoneIsStopped == Spec => []UnavailableIsStopped
<1>1. IInv => UnavailableIsStopped
  BY DEF IInv, Inv, Weak, Stopped, UnavailableIsStopped
<1>. QED BY <1>1, InvHolds, PTL

=============================================================================
