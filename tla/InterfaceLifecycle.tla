------------------------- MODULE InterfaceLifecycle -------------------------
(***************************************************************************)
(* What an interface promises to whatever depends on it, whichever         *)
(* protocol drives it: the life it leads through the states of interface.h *)
(* (enum interface_state, "ABSENT" when it does not exist), the events its *)
(* users are sent, and when a configuration change asked for while it runs *)
(* is carried out.  InterfaceShell is shown to implement it.               *)
(***************************************************************************)
VARIABLES
  phase,     \* "ABSENT" or one of enum interface_state
  pending,   \* enum interface_config_state
  told,      \* the last of IFEV_UP and IFEV_DOWN sent to the users
  dynamic    \* it removes itself when it is not set up again

vars == <<phase, pending, told, dynamic>>

Live == {"DOWN", "SETUP", "UP", "TEARDOWN"}
Request == {"RELOAD", "REMOVE"}

(* The users are told of every change into and out of UP, in the same step. *)
Enter(p) == phase' = p /\ told' = IF p = "UP" THEN "UP" ELSE "DOWN"

(* What may follow the end of a run; only a removal asked for, or a dynamic *)
(* interface that is not wanted any more, ends its life.                    *)
Ends(removed) ==
  \/ ~removed /\ \E p \in {"DOWN", "SETUP"} : Enter(p) /\ dynamic' \in BOOLEAN
  \/ (removed \/ dynamic) /\ Enter("ABSENT") /\ dynamic' = FALSE

-----------------------------------------------------------------------------
Init == phase = "ABSENT" /\ pending = "NORMAL" /\ told = "DOWN" /\ dynamic = FALSE

Appear ==
  /\ phase = "ABSENT"
  /\ \E p \in {"DOWN", "SETUP"} : Enter(p)
  /\ dynamic' \in BOOLEAN /\ UNCHANGED pending

(* The handler is asked to set it up, and may be done at once. *)
Start ==
  /\ phase = "DOWN"
  /\ \E p \in {"SETUP", "UP"} : Enter(p)
  /\ dynamic' \in BOOLEAN /\ UNCHANGED pending

Complete == phase = "SETUP" /\ Enter("UP") /\ UNCHANGED <<pending, dynamic>>

(* The link, the device or the handler gives up: nothing is waited for.     *)
Fail == phase \in {"SETUP", "UP"} /\ Ends(FALSE) /\ UNCHANGED pending

(* Taken down in an orderly way, perhaps for the sake of a new configuration *)
Stop ==
  /\ phase \in {"SETUP", "UP"} /\ Enter("TEARDOWN")
  /\ pending' \in Request \union {"NORMAL"} /\ dynamic' \in BOOLEAN

(* A change asked for during the teardown waits for its end. *)
Postpone ==
  /\ phase = "TEARDOWN" /\ pending' \in Request \union {pending}
  /\ dynamic' \in BOOLEAN /\ UNCHANGED <<phase, told>>

Finish ==
  /\ phase = "TEARDOWN" /\ pending' = "NORMAL" /\ Ends(pending = "REMOVE")

Remove ==
  /\ phase = "DOWN" /\ Enter("ABSENT") /\ dynamic' = FALSE /\ UNCHANGED pending

MarkDynamic == phase \in Live /\ dynamic' = TRUE /\ UNCHANGED <<phase, pending, told>>

Next ==
  \/ Appear \/ Start \/ Complete \/ Fail \/ Stop
  \/ Postpone \/ Finish \/ Remove \/ MarkDynamic

Spec == Init /\ [][Next]_vars

(* Every teardown ends, whatever the handler's children do. *)
FairSpec == Spec /\ WF_vars(Finish)

-----------------------------------------------------------------------------
TypeOK ==
  /\ phase \in Live \union {"ABSENT"}
  /\ pending \in Request \union {"NORMAL"}
  /\ told \in {"UP", "DOWN"}
  /\ dynamic \in BOOLEAN
=============================================================================
