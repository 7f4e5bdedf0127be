---------------------------- MODULE HotplugQueue ----------------------------
(***************************************************************************)
(* The queue of hotplug events (interface-event.c).  Every interface event *)
(* but IFEV_LINK_UP becomes a run of the hotplug script, one at a time for *)
(* all interfaces.  An interface has at most one event waiting, so events  *)
(* that come while scripts run overwrite each other, and are dropped when  *)
(* the interface is freed; the properties say what the scripts know of an  *)
(* interface all the same.                                                 *)
(***************************************************************************)
EXTENDS Naturals, Sequences, Functions

CONSTANTS
  Ifaces,        \* the names interfaces are created under
  None,          \* the NULL pointer
  ForkOutcomes   \* whether the fork of run_cmd can fail

ASSUME HotplugAssumption ==
  None \notin Ifaces /\ ForkOutcomes \in SUBSET BOOLEAN /\ TRUE \in ForkOutcomes

VARIABLES
  alive,        \* the interfaces that exist
  up,           \* those in IFS_UP
  current,      \* the interface whose event is being handled
  current_ev,   \* that event
  task,         \* a hotplug script is running (task.pending)
  pending,      \* the interfaces with an event waiting, first in first out
  hotplug_ev    \* the event each interface has waiting, or had

(* What the scripts know, for the properties.  To them an interface is its  *)
(* name: what they were last told of one outlives it, and its creation      *)
(* tells them nothing.                                                      *)
VARIABLES
  reported,     \* the state each name was last reported in
  news,         \* the interfaces with something unreported
  lost,         \* names whose last report failed because fork did
  dropped       \* names whose interface was freed with its ifdown waiting,
                \* and of which the scripts have been told nothing since

told == <<reported, news, lost, dropped>>
queue == <<current, current_ev, task, pending, hotplug_ev>>
vars == <<alive, up, queue, told>>

Event == {"UP", "DOWN", "UPDATE"}

TypeOK ==
  /\ alive \in SUBSET Ifaces /\ up \in SUBSET alive
  /\ current \in Ifaces \union {None} /\ current_ev \in Event
  /\ task \in BOOLEAN
  /\ pending \in Seq(Ifaces) /\ hotplug_ev \in [Ifaces -> Event]
  /\ reported \in [Ifaces -> {"UP", "DOWN"}]
  /\ news \in SUBSET Ifaces /\ lost \in SUBSET Ifaces
  /\ dropped \in SUBSET Ifaces

Init ==
  /\ alive = {} /\ up = {}
  /\ current = None /\ current_ev = "UP" /\ task = FALSE
  /\ pending = <<>> /\ hotplug_ev = [i \in Ifaces |-> "UP"]
  /\ reported = [i \in Ifaces |-> "DOWN"]
  /\ news = {} /\ lost = {} /\ dropped = {}

-----------------------------------------------------------------------------
(* call_hotplug: fork fails for the first n events waiting in q, each time  *)
(* completing the "task" and going on to the next, which is run.            *)
AllFail(q, ev, unreported) ==
  /\ current' = None /\ task' = FALSE /\ pending' = <<>>
  /\ current_ev' = IF q = <<>> THEN current_ev ELSE ev[q[Len(q)]]
  /\ lost' = lost \union Range(q) /\ news' = unreported \ Range(q)
  /\ UNCHANGED <<reported, dropped>>

RunAfter(n, q, ev, unreported) ==
  LET failed == {q[k] : k \in 1 .. n}
      i == q[n + 1]
  IN /\ current' = i /\ current_ev' = ev[i] /\ task' = TRUE
     /\ pending' = SubSeq(q, n + 2, Len(q))
     /\ lost' = (lost \union failed) \ {i} /\ dropped' = dropped \ {i}
     /\ news' = unreported \ (failed \union {i})
     /\ reported' =
          [reported EXCEPT ![i] = IF ev[i] = "DOWN" THEN "DOWN" ELSE "UP"]

CallHotplug(q, ev, unreported) ==
  /\ hotplug_ev' = ev
  /\ \/ /\ q = <<>> \/ FALSE \in ForkOutcomes
        /\ AllFail(q, ev, unreported)
     \/ \E n \in 0 .. Len(q) - 1 :
          /\ n = 0 \/ FALSE \in ForkOutcomes
          /\ RunAfter(n, q, ev, unreported)

Waiting(i) == i \in Range(pending)

(* Faults: an update overwrites whatever waits; nothing does so while an    *)
(* event of the same interface is handled.                                  *)
OverwritesAlways(i, ev) == Waiting(i)

OverwritesOthers(i, ev) ==
  Waiting(i) /\ current # i /\ ~(hotplug_ev[i] = "UP" /\ ev = "UPDATE")

(* The waiting event gives way to a new one, unless that is an update: the  *)
(* script finds the details of an interface being reported UP anyway.       *)
Overwrites(i, ev) ==
  /\ Waiting(i)
  /\ IF current = i THEN ev # "UPDATE"
     ELSE ~(hotplug_ev[i] = "UP" /\ ev = "UPDATE")

(* Fault: an update is not worth a run of its own. *)
JoinsUnlessSame(i, ev) == ~Waiting(i) /\ (current = i => ev # current_ev)

(* What is being handled already need not be queued again, but an update.   *)
Joins(i, ev) ==
  ~Waiting(i) /\ (current = i => ev # current_ev \/ ev = "UPDATE")

(* q without i, which is in it once. *)
Remove(q, i) ==
  LET at == CHOOSE k \in DOMAIN q : q[k] = i
  IN IF i \notin Range(q) THEN q
     ELSE [k \in 1 .. Len(q) - 1 |-> IF k < at THEN q[k] ELSE q[k + 1]]

(* Fault: an overwritten event goes to the end of the queue. *)
QueueEventMoves(i, ev) ==
  LET q   == IF Joins(i, ev) \/ Overwrites(i, ev)
             THEN Append(Remove(pending, i), i) ELSE pending
      hev == IF Joins(i, ev) \/ Overwrites(i, ev)
             THEN [hotplug_ev EXCEPT ![i] = ev] ELSE hotplug_ev
  IN IF ~task /\ current = None
     THEN CallHotplug(q, hev, news \union {i})
     ELSE /\ pending' = q /\ hotplug_ev' = hev /\ news' = news \union {i}
          /\ UNCHANGED <<current, current_ev, task, reported, lost, dropped>>

(* interface_queue_event: at once if nothing runs, else by the task's end.  *)
QueueEvent(i, ev) ==
  LET q   == IF Joins(i, ev) THEN Append(pending, i) ELSE pending
      hev == IF Joins(i, ev) \/ Overwrites(i, ev)
             THEN [hotplug_ev EXCEPT ![i] = ev] ELSE hotplug_ev
  IN IF ~task /\ current = None
     THEN CallHotplug(q, hev, news \union {i})
     ELSE /\ pending' = q /\ hotplug_ev' = hev /\ news' = news \union {i}
          /\ UNCHANGED <<current, current_ev, task, reported, lost, dropped>>

(* interface_dequeue_event: a script that runs for i is left to end.        *)
DequeueEvent(i) ==
  /\ current' = IF current = i THEN None ELSE current
  /\ pending' = Remove(pending, i)
  /\ UNCHANGED <<current_ev, task, hotplug_ev>>

-----------------------------------------------------------------------------
(* The interfaces, as far as their events go (interface.c): IFEV_UP and     *)
(* IFEV_DOWN alternate, IFEV_UPDATE is sent only while UP and IFEV_FREE     *)
(* only by an interface that is DOWN.                                       *)
Create(i) ==
  /\ i \notin alive /\ alive' = alive \union {i}
  /\ UNCHANGED <<up, queue, told>>

InterfaceUp(i) ==
  /\ i \in alive \ up /\ up' = up \union {i}
  /\ QueueEvent(i, "UP") /\ UNCHANGED alive

InterfaceUpdate(i) ==
  /\ i \in up /\ QueueEvent(i, "UPDATE") /\ UNCHANGED <<alive, up>>

InterfaceDown(i) ==
  /\ i \in up /\ up' = up \ {i}
  /\ QueueEvent(i, "DOWN") /\ UNCHANGED alive

InterfaceFree(i) ==
  /\ i \in alive \ up /\ alive' = alive \ {i}
  /\ DequeueEvent(i) /\ news' = news \ {i}
  /\ dropped' = IF Waiting(i) THEN dropped \union {i} ELSE dropped
  /\ UNCHANGED <<up, reported, lost>>

(* The script ends; its interface may be gone by then. *)
TaskComplete ==
  task /\ CallHotplug(pending, hotplug_ev, news) /\ UNCHANGED <<alive, up>>

Next ==
  \/ TaskComplete
  \/ \E i \in Ifaces : \/ Create(i) \/ InterfaceUp(i) \/ InterfaceUpdate(i)
                       \/ InterfaceDown(i) \/ InterfaceFree(i)

Spec == Init /\ [][Next]_vars

(* Every script ends (netifd sets it no time limit), and uloop reports it.  *)
FairSpec == Spec /\ WF_vars(TaskComplete)

-----------------------------------------------------------------------------
(* Events wait only for a script that runs: its end starts the next, even   *)
(* when the interface it ran for is gone (`current` reset by IFEV_FREE).    *)
QueueIsServed == pending # <<>> \/ current # None => task

(* The queue and `current` point to interfaces that exist, each queued once *)
(* (its hotplug_list links it into one list): IFEV_FREE leaves nothing.     *)
NoStaleEntry ==
  /\ Range(pending) \subseteq alive
  /\ current \in alive \union {None}
  /\ IsInjective(pending)

(* Nothing that happened to an interface that exists since its last script  *)
(* started is forgotten: whatever was overwritten or left out, an event is  *)
(* waiting.                                                                 *)
NothingForgotten == news \subseteq Range(pending)

(* The event that waits is the right one: a script never learns of a state  *)
(* the interface has left, and learns of UP before any update.              *)
QueuedEventIsCurrent ==
  \A i \in Range(pending) :
    IF i \in up
    THEN /\ hotplug_ev[i] \in {"UP", "UPDATE"}
         /\ hotplug_ev[i] = "UPDATE" => reported[i] = "UP" \/ i \in lost
    ELSE hotplug_ev[i] = "DOWN"

(* Once nothing waits the scripts know which interfaces are UP, and of all  *)
(* others that they are not, save those whose script could not be started.  *)
(* IFEV_FREE drops an ifdown that waits: the scripts then take for UP what  *)
(* is gone, and what is created again under its name, but no longer than    *)
(* until that comes UP.                                                     *)
ScriptsLearnState ==
  \A i \in Ifaces \ (Range(pending) \union lost) :
    IF i \in up THEN reported[i] = "UP"
    ELSE reported[i] = "DOWN" \/ i \in dropped

(* However often its state changes, an interface that waits is reported.    *)
Reported == \A i \in Ifaces : Waiting(i) ~> ~Waiting(i)
=============================================================================
