---------------------------- MODULE BridgeDevice ----------------------------
(***************************************************************************)
(* A bridge (bridge.c) as a device among devices (device.c): it claims its *)
(* members and is claimed by its users, and each event it broadcasts       *)
(* re-enters it through the users that claim or release it.  A callback of *)
(* uloop is an action; the calls it makes are operators from a state to a  *)
(* state, nested as the C code nests.                                      *)
(***************************************************************************)
EXTENDS Integers, FiniteSets, Sequences

CONSTANTS
  UserOrder,        \* the bridge's users, as they were added
  MemberOrder,      \* the devices that may be its members, by name
  MemberOutcomes,   \* whether a member can fail to be enslaved,
  BridgeOutcomes    \* and the bridge to be created and brought up

Users == {UserOrder[i] : i \in DOMAIN UserOrder}
Members == {MemberOrder[i] : i \in DOMAIN MemberOrder}

ASSUME BridgeAssumption ==
  /\ UserOrder \in Seq(Users) /\ MemberOrder \in Seq(Members)
  /\ MemberOutcomes \in SUBSET BOOLEAN /\ TRUE \in MemberOutcomes
  /\ BridgeOutcomes \in SUBSET BOOLEAN /\ TRUE \in BridgeOutcomes

VARIABLE br

(* struct bridge_state and the struct device in it.  `cfg` is the list of   *)
(* members, `hot` those whose user has `hotplug` set, `kept` those that a   *)
(* reload does not flush (version -1).  `n` is n_present, a count kept      *)
(* beside the members' `present`; `failed` says that n_failed is not 0.     *)
(* `active` is a count kept beside the users' `claimed`.  `kernel` is       *)
(* bst->active, the bridge in the kernel, and `ports` are its ports.  `told`*)
(* holds the users whose last event of ADD and REMOVE was ADD; `netdevs`    *)
(* are the members' devices that are present.                               *)
State ==
  [cfg     : SUBSET Members,
   hot     : SUBSET Members,
   kept    : SUBSET Members,
   netdevs : SUBSET Members,
   present : SUBSET Members,
   n       : 0 .. Cardinality(Members),
   claimed : SUBSET Members,
   ports   : SUBSET Members,
   failed  : BOOLEAN,
   retry   : BOOLEAN,
   kernel  : BOOLEAN,
   force   : BOOLEAN,
   empty   : BOOLEAN,
   sys     : BOOLEAN,
   active  : 0 .. Cardinality(Users),
   users   : SUBSET Users,
   told    : SUBSET Users]

(* What a callback meets: users that claim the bridge when told it is       *)
(* present, users that release it at once when told it is not, members that *)
(* can be enslaved, and whether the bridge can be created and brought up.   *)
Env ==
  [eager  : SUBSET Users,
   prompt : SUBSET Users,
   able   : {ms \in SUBSET Members : FALSE \in MemberOutcomes \/ ms = Members},
   addbr  : BridgeOutcomes,
   up     : BridgeOutcomes]

(* Op on each element of s in order (as FoldLeft, which TLC evaluates more  *)
(* slowly: these folds are most of the work).                               *)
Folded(Op(_, _), b, s) ==
  LET f[i \in 0 .. Len(s)] == IF i = 0 THEN b ELSE Op(f[i - 1], s[i])
  IN f[Len(s)]

ForMembers(Op(_, _), b) == Folded(Op, b, MemberOrder)
ForUsers(Op(_, _), b) == Folded(Op, b, UserOrder)

-----------------------------------------------------------------------------
(* Down: disabling members, the kernel's bridge, users that let go.         *)

DisableMember(b, m) ==
  IF m \notin b.present THEN b
  ELSE [b EXCEPT !.ports = @ \ {m}, !.claimed = @ \ {m}]

DisableInterface(b) == [b EXCEPT !.kernel = FALSE, !.ports = {}]

(* bridge_set_down *)
SetDown(b) ==
  DisableInterface([b EXCEPT !.claimed = @ \ b.present])

(* device_release by each of us. *)
Release(b, us) ==
  LET held == us \intersect b.users
      t    == [b EXCEPT !.users = @ \ held, !.active = @ - Cardinality(held)]
  IN IF held # {} /\ t.active = 0 THEN SetDown(t) ELSE t

(* device_set_present(FALSE): DEV_EVENT_REMOVE to all users. *)
SetAbsent(b, prompt) ==
  IF ~b.sys THEN b
  ELSE Release([b EXCEPT !.sys = FALSE, !.told = {}], prompt)

-----------------------------------------------------------------------------
(* Up.                                                                      *)

(* device_claim of a device that somebody holds already. *)
ClaimMore(b, us) ==
  [b EXCEPT !.users = @ \union us, !.active = @ + Cardinality(us \ b.users)]

(* device_set_present(TRUE) while the device is being brought up: whoever   *)
(* claims it now only counts.                                               *)
SetPresentWhileUp(b, e) ==
  IF b.sys THEN b
  ELSE ClaimMore([b EXCEPT !.sys = TRUE, !.told = Users], e.eager)

(* bridge_enable_member up to its device_set_present. *)
Enslaved(b, m) ==
  [b EXCEPT !.kernel = TRUE, !.claimed = @ \union {m}, !.ports = @ \union {m}]

EnslaveFails(b, m, e) ==
  \/ ~b.kernel /\ ~e.addbr
  \/ m \notin e.able /\ m \notin b.claimed \intersect b.ports

(* Fault: the member stays counted. *)
MemberFailedUncounted(b, m, e) ==
  [b EXCEPT !.failed = TRUE, !.present = @ \ {m}, !.claimed = @ \ {m},
            !.kernel = @ \/ e.addbr]

(* The `error` exit of bridge_enable_member; the bridge may have been made. *)
MemberFailed(b, m, e) ==
  [b EXCEPT !.failed = TRUE, !.present = @ \ {m}, !.n = @ - 1,
            !.claimed = @ \ {m}, !.kernel = @ \/ e.addbr]

EnableMemberWhileUp(b, m, e) ==
  CASE m \notin b.present -> b
    [] m \in b.present /\ EnslaveFails(b, m, e) -> MemberFailed(b, m, e)
    [] OTHER -> SetPresentWhileUp(Enslaved(b, m), e)

CheckRetry(b) == [b EXCEPT !.retry = @ \/ b.failed]

(* bridge_set_up: the state, and whether it succeeds. *)
SetUp(b, e) ==
  LET Enable(c, m) == EnableMemberWhileUp(c, m, e)
      t == CheckRetry(ForMembers(Enable,
             [b EXCEPT !.failed = FALSE, !.kernel = @ \/ b.n = 0]))
  IN CASE b.n = 0 /\ (~b.force \/ (~b.kernel /\ ~e.addbr)) -> [st |-> b, ok |-> FALSE]
       [] OTHER ->
          IF ~t.force /\ t.n = 0
          THEN [st |-> SetAbsent(DisableInterface(t), e.prompt), ok |-> FALSE]
          ELSE [st |-> IF e.up THEN t ELSE SetDown(t), ok |-> e.up]

(* device_claim: a failed claim leaves nobody. *)
Claim(b, u, e) ==
  LET t == ClaimMore(b, {u})
      r == SetUp(t, e)
  IN CASE u \in b.users \/ t.active # 1 -> t
       [] OTHER -> IF r.ok THEN r.st
                   ELSE [r.st EXCEPT !.active = 0, !.users = @ \ {u}]

(* device_set_present(TRUE): DEV_EVENT_ADD to one user after the other,     *)
(* even if the device has gone again meanwhile.                             *)
SetPresent(b, e) ==
  LET Add(c, u) ==
        LET t == [c EXCEPT !.told = @ \union {u}]
        IN IF u \in e.eager THEN Claim(t, u, e) ELSE t
  IN IF b.sys THEN b ELSE ForUsers(Add, [b EXCEPT !.sys = TRUE])

EnableMember(b, m, e) ==
  CASE m \notin b.present -> b
    [] m \in b.present /\ EnslaveFails(b, m, e) -> MemberFailed(b, m, e)
    [] OTHER -> SetPresent(Enslaved(b, m), e)

-----------------------------------------------------------------------------
(* Members come and go.                                                     *)

(* Fault: only the first member of a bridge that is up is enslaved. *)
MemberAddFirst(b, m, e) ==
  LET t == [b EXCEPT !.present = @ \union {m}, !.n = @ + 1]
      s == IF t.n = 1 THEN SetPresent(t, e) ELSE t
  IN IF t.n = 1 /\ s.active > 0 THEN EnableMemberWhileUp(s, m, e) ELSE s

(* bridge_member_cb, DEV_EVENT_ADD *)
MemberAdd(b, m, e) ==
  LET t == [b EXCEPT !.present = @ \union {m}, !.n = @ + 1]
      s == IF t.n = 1 THEN SetPresent(t, e) ELSE t
  IN IF s.active > 0 THEN EnableMemberWhileUp(s, m, e) ELSE s

(* Fault: the member that goes is still counted. *)
RemoveMemberLate(b, m, prompt) ==
  LET t == IF b.active > 0 THEN DisableMember(b, m) ELSE b
      s == [t EXCEPT !.present = @ \ {m}, !.n = @ - 1]
      f == [s EXCEPT !.force = FALSE]
  IN CASE m \notin b.present -> b
       [] m \in b.present /\ b.empty -> s
       [] OTHER -> IF b.n <= 2 THEN SetAbsent(f, prompt) ELSE f

RemoveMember(b, m, prompt) ==
  LET t == IF b.active > 0 THEN DisableMember(b, m) ELSE b
      s == [t EXCEPT !.present = @ \ {m}, !.n = @ - 1]
      f == [s EXCEPT !.force = FALSE]
  IN CASE m \notin b.present -> b
       [] m \in b.present /\ b.empty -> s
       [] OTHER -> IF f.n = 0 THEN SetAbsent(f, prompt) ELSE f

(* bridge_free_member, of a member already taken off the list *)
FreeMember(b, m, prompt) ==
  LET t == RemoveMember([b EXCEPT !.cfg = @ \ {m}, !.hot = @ \ {m},
                                  !.kept = @ \ {m}], m, prompt)
  IN [t EXCEPT !.claimed = @ \ {m}]

(* bridge_create_member: one that is on the list already stays as it is,    *)
(* but for its version.                                                     *)
CreateMember(b, m, hotplug, e) ==
  LET t == [b EXCEPT !.cfg = @ \union {m},
                     !.hot = IF hotplug /\ m \notin b.cfg THEN @ \union {m} ELSE @,
                     !.kept = IF hotplug THEN @ \union {m} ELSE @ \ {m}]
  IN IF m \notin b.cfg /\ m \in b.netdevs THEN MemberAdd(t, m, e) ELSE t

-----------------------------------------------------------------------------
Init ==
  \E empty \in BOOLEAN :
    br = [cfg |-> {}, hot |-> {}, kept |-> {}, netdevs |-> {}, present |-> {},
          n |-> 0, claimed |-> {}, ports |-> {}, failed |-> FALSE,
          retry |-> FALSE, kernel |-> FALSE, force |-> empty, empty |-> empty,
          sys |-> empty, active |-> 0, users |-> {},
          told |-> IF empty THEN Users ELSE {}]

(* The device of a member appears, or vanishes and with it the port. *)
MemberAppears(e) ==
  \E m \in Members \ br.netdevs :
    LET t == [br EXCEPT !.netdevs = @ \union {m}]
    IN br' = IF m \in br.cfg THEN MemberAdd(t, m, e) ELSE t

MemberVanishes(prompt) ==
  \E m \in br.netdevs :
    LET t == [br EXCEPT !.netdevs = @ \ {m}, !.ports = @ \ {m}]
    IN br' = CASE m \notin br.cfg -> t
               [] m \in br.hot -> FreeMember(t, m, prompt)
               [] OTHER -> RemoveMember(t, m, prompt)

HotplugPrepare(e) == br' = SetPresent([br EXCEPT !.force = TRUE], e)

HotplugAdd(e) == \E m \in br.netdevs : br' = CreateMember(br, m, TRUE, e)

HotplugDel(prompt) == \E m \in br.cfg : br' = FreeMember(br, m, prompt)

(* bridge_config_init: the members named, then those no longer named.       *)
ConfigInit(b, names, e) ==
  LET Add(c, m)   == IF m \in names THEN CreateMember(c, m, FALSE, e) ELSE c
      Flush(c, m) == IF m \in c.cfg \ (names \union c.kept)
                     THEN FreeMember(c, m, e.prompt) ELSE c
      t == IF b.empty THEN SetPresent([b EXCEPT !.force = TRUE], e) ELSE b
  IN CheckRetry(ForMembers(Flush, ForMembers(Add, [t EXCEPT !.failed = FALSE])))

(* device_apply_config, DEV_CONFIG_RESTART: a claimed device goes down and  *)
(* up again, and is present again if that succeeds.                         *)
Restart(b, e) ==
  LET t == SetAbsent(b, e.prompt)
      r == SetUp(SetDown(t), e)
  IN CASE ~b.sys -> b
       [] b.sys /\ t.active = 0 -> SetPresent(t, e)
       [] OTHER -> IF r.ok THEN SetPresent(r.st, e) ELSE r.st

(* bridge_reload, of the member list alone or of other options as well. *)
Reload(e) ==
  \E names \in SUBSET Members, empty, restart \in BOOLEAN :
    /\ empty # br.empty => restart
    /\ LET t == ConfigInit([br EXCEPT !.empty = empty], names, e)
       IN br' = IF restart THEN Restart(t, e) ELSE t

(* bridge_retry_members.  It neither asks whether the bridge is claimed nor *)
(* sets the timer again.                                                    *)
RetryMembers(e) ==
  LET Retry(c, m) ==
        IF m \in (c.cfg \intersect c.netdevs) \ c.present
        THEN EnableMember([c EXCEPT !.present = @ \union {m}, !.n = @ + 1], m, e)
        ELSE c
  IN /\ br.retry
     /\ br' = ForMembers(Retry, [br EXCEPT !.retry = FALSE, !.failed = FALSE])

(* A user that has been told of the device claims it, or lets go of it.     *)
UserClaims(e) == \E u \in br.told \ br.users : br' = Claim(br, u, e)
UserReleases  == \E u \in br.users : br' = Release(br, {u})

Arrivals(e) ==
  \/ MemberAppears(e) \/ HotplugPrepare(e) \/ HotplugAdd(e)
  \/ Reload(e) \/ RetryMembers(e) \/ UserClaims(e)

Departures(prompt) == MemberVanishes(prompt) \/ HotplugDel(prompt)

Next ==
  \/ \E e \in Env : Arrivals(e)
  \/ \E prompt \in SUBSET Users : Departures(prompt)
  \/ UserReleases

Spec == Init /\ [][Next]_br

-----------------------------------------------------------------------------
(* Every field keeps to the C type it stands for; no count leaves its range. *)
TypeOK == br \in State

(* n_present and `active` are kept by hand on a dozen paths, some of them    *)
(* re-entered by the callbacks they call; they agree with the members that   *)
(* are present and the users that hold a claim (device.c asserts of one of   *)
(* them that it is not negative).  A member counted as present is on the     *)
(* list and its device is there, as bridge_member_cb asserts.                *)
CountsAgree ==
  /\ TypeOK /\ br.n = Cardinality(br.present) /\ br.active = Cardinality(br.users)
  /\ br.present \subseteq br.cfg \intersect br.netdevs

(* A bridge with a member that is present, or that is to be up without one,  *)
(* is announced to its users (given that it can be created and brought up).  *)
Announced == br.n > 0 \/ br.force => br.sys

(* While somebody holds a claim on the bridge each member that is present    *)
(* has been claimed and is a port of the bridge in the kernel, whichever of  *)
(* them came first (under the same condition: a restart that fails leaves    *)
(* a bridge that is claimed and down).                                       *)
ActiveMembersArePorts ==
  br.active > 0 => br.present \subseteq br.ports \intersect br.claimed

=============================================================================
