------------------------- MODULE HotplugQueueProofs -------------------------
(***************************************************************************)
(* The safety invariants of HotplugQueue, proved for every set of          *)
(* interfaces.  Good says of a queue that is about to be served what       *)
(* CallHotplug needs; IInv is the inductive invariant: the queue is good,  *)
(* only waits for a script that runs, and the script that runs for         *)
(* `current` has been told what `reported` says.                           *)
(***************************************************************************)
EXTENDS HotplugQueue, SequenceTheorems, TLAPS

(* The state a script learns from an event. *)
Told(ev) == IF ev = "DOWN" THEN "DOWN" ELSE "UP"

(* The queue q with the events ev, for the interfaces A, U of them UP, of   *)
(* which N have something unreported.                                       *)
Queue(q, ev, A, U, N) ==
  /\ A \subseteq Ifaces /\ U \subseteq A
  /\ q \in Seq(Ifaces) /\ ev \in [Ifaces -> Event]
  /\ IsInjective(q) /\ Range(q) \subseteq A /\ N \subseteq Range(q)

Knowledge(rep, lst, drp) ==
  /\ rep \in [Ifaces -> {"UP", "DOWN"}]
  /\ lst \subseteq Ifaces /\ drp \subseteq Ifaces

(* Those who wait have the right event.  The others have been reported, or  *)
(* they are not UP and their ifdown was dropped.                            *)
EventRight(i, ev, U, rep, lst) ==
  IF i \in U
  THEN /\ ev[i] \in {"UP", "UPDATE"}
       /\ ev[i] = "UPDATE" => rep[i] = "UP" \/ i \in lst
  ELSE ev[i] = "DOWN"
Learned(i, U, rep, drp) ==
  IF i \in U THEN rep[i] = "UP" ELSE rep[i] = "DOWN" \/ i \in drp

Good(q, ev, A, U, N, rep, lst, drp) ==
  /\ Queue(q, ev, A, U, N) /\ Knowledge(rep, lst, drp)
  /\ \A i \in Range(q) : EventRight(i, ev, U, rep, lst)
  /\ \A i \in Ifaces \ (Range(q) \union lst) : Learned(i, U, rep, drp)

Serving ==
  /\ current \in alive \union {None} /\ current_ev \in Event /\ task \in BOOLEAN
  /\ current # None =>
       /\ reported[current] = Told(current_ev)
       /\ current \notin lost /\ current \notin dropped

IInv ==
  /\ Good(pending, hotplug_ev, alive, up, news, reported, lost, dropped)
  /\ Serving /\ QueueIsServed

USE DEF Event

-----------------------------------------------------------------------------
(* What the operators on the queue do. *)

LEMMA RangeIs ==
  ASSUME NEW S, NEW q \in Seq(S)
  PROVE  /\ Range(q) = {q[k] : k \in 1 .. Len(q)}
         /\ Range(q) \subseteq S /\ Len(q) \in Nat /\ DOMAIN q = 1 .. Len(q)
         /\ q = <<>> <=> Len(q) = 0
BY RangeEquality, RangeOfSeq, LenProperties, EmptySeq

LEMMA AppendRange ==
  ASSUME NEW S, NEW q \in Seq(S), NEW i \in S, IsInjective(q), i \notin Range(q)
  PROVE  /\ Append(q, i) \in Seq(S) /\ IsInjective(Append(q, i))
         /\ Range(Append(q, i)) = Range(q) \union {i}
<1> DEFINE p == Append(q, i)
<1>1. /\ p \in Seq(S) /\ Len(p) = Len(q) + 1 /\ p[Len(q) + 1] = i
      /\ \A k \in 1 .. Len(q) : p[k] = q[k]
  BY AppendProperties
<1>2. Range(q) = {q[k] : k \in 1 .. Len(q)} /\ Len(q) \in Nat
      /\ DOMAIN q = 1 .. Len(q)
  BY RangeIs
<1> HIDE DEF p
<1>3. Range(p) = {p[k] : k \in 1 .. Len(q) + 1} /\ DOMAIN p = 1 .. Len(q) + 1
  BY <1>1, RangeIs
<1>4. Range(p) = Range(q) \union {i}
  BY <1>1, <1>2, <1>3
<1>5. IsInjective(p)
  <2> SUFFICES ASSUME NEW a \in 1 .. Len(q) + 1, NEW b \in 1 .. Len(q) + 1,
                      p[a] = p[b]
               PROVE  a = b
    BY <1>3 DEF IsInjective
  <2>1. CASE a \in 1 .. Len(q) /\ b \in 1 .. Len(q)
    BY <2>1, <1>1, <1>2 DEF IsInjective
  <2>2. CASE a = Len(q) + 1 /\ b \in 1 .. Len(q)
    BY <2>2, <1>1, <1>2
  <2>3. CASE b = Len(q) + 1 /\ a \in 1 .. Len(q)
    BY <2>3, <1>1, <1>2
  <2> QED
    BY <2>1, <2>2, <2>3, <1>2
<1> QED
  BY <1>1, <1>4, <1>5 DEF p

LEMMA RemoveRange ==
  ASSUME NEW S, NEW q \in Seq(S), NEW i, IsInjective(q)
  PROVE  /\ Remove(q, i) \in Seq(S) /\ IsInjective(Remove(q, i))
         /\ Range(Remove(q, i)) = Range(q) \ {i}
<1>1. Range(q) = {q[k] : k \in 1 .. Len(q)} /\ Len(q) \in Nat
      /\ DOMAIN q = 1 .. Len(q) /\ \A k \in 1 .. Len(q) : q[k] \in S
  BY RangeIs, ElementOfSeq
<1>2. CASE i \notin Range(q)
  BY <1>2 DEF Remove
<1>3. CASE i \in Range(q)
  <2> DEFINE at == CHOOSE k \in DOMAIN q : q[k] = i
             e(k) == IF k < at THEN q[k] ELSE q[k + 1]
             r == [k \in 1 .. Len(q) - 1 |-> e(k)]
  <2>1. at \in 1 .. Len(q) /\ q[at] = i
    BY <1>1, <1>3
  <2>2. Remove(q, i) = r
    BY <1>3 DEF Remove
  <2> HIDE DEF at
  <2>3. \A k \in 1 .. Len(q) - 1 : e(k) \in S
    BY <2>1, <1>1
  <2>4. Len(q) - 1 \in Nat
    BY <2>1, <1>1
  <2>5. r \in Seq(S) /\ DOMAIN r = 1 .. Len(q) - 1
    BY <2>3, <2>4, SeqDef
  <2>6. Range(r) = {r[k] : k \in 1 .. Len(q) - 1}
    BY <2>5 DEF Range
  <2>7. IsInjective(r)
    <3> SUFFICES ASSUME NEW a \in 1 .. Len(q) - 1, NEW b \in 1 .. Len(q) - 1,
                        e(a) = e(b)
                 PROVE  a = b
      BY <2>5 DEF IsInjective
    <3> QED
      BY <2>1, <1>1 DEF IsInjective
  <2>8. Range(r) = Range(q) \ {i}
    <3>1. ASSUME NEW x \in Range(r) PROVE x \in Range(q) /\ x # i
      <4>1. PICK k \in 1 .. Len(q) - 1 : x = e(k)
        BY <3>1, <2>6
      <4>2. CASE k < at
        BY <4>1, <4>2, <2>1, <1>1 DEF IsInjective
      <4>3. CASE ~(k < at)
        BY <4>1, <4>3, <2>1, <1>1 DEF IsInjective
      <4> QED
        BY <4>2, <4>3
    <3>2. ASSUME NEW x \in Range(q), x # i PROVE x \in Range(r)
      <4>1. PICK k \in 1 .. Len(q) : x = q[k]
        BY <1>1
      <4>2. k # at
        BY <4>1, <3>2, <2>1
      <4>3. CASE k < at
        <5>1. k \in 1 .. Len(q) - 1 /\ e(k) = x
          BY <4>1, <4>3, <2>1, <1>1
        <5> QED
          BY <5>1, <2>6
      <4>4. CASE k > at
        <5>1. k - 1 \in 1 .. Len(q) - 1 /\ e(k - 1) = x
          BY <4>1, <4>4, <2>1, <1>1
        <5> QED
          BY <5>1, <2>6
      <4> QED
        BY <4>2, <4>3, <4>4, <2>1, <1>1
    <3> QED
      BY <3>1, <3>2
  <2> QED
    BY <2>2, <2>5, <2>7, <2>8
<1> QED
  BY <1>2, <1>3

(* Serving the n + 1st: the ones in front of it and it itself leave. *)
FirstOf(q, n) == {q[k] : k \in 1 .. n}
After(q, n)   == SubSeq(q, n + 2, Len(q))

LEMMA ServedRange ==
  ASSUME NEW S, NEW q \in Seq(S), IsInjective(q), NEW n \in 0 .. Len(q) - 1
  PROVE  /\ After(q, n) \in Seq(S) /\ IsInjective(After(q, n))
         /\ Range(q) = FirstOf(q, n) \union {q[n + 1]} \union Range(After(q, n))
         /\ q[n + 1] \in Range(q) /\ q[n + 1] \notin Range(After(q, n))
<1> DEFINE t == After(q, n)
<1>0. t = SubSeq(q, n + 2, Len(q))
  BY DEF After
<1> HIDE DEF t
<1>1. Range(q) = {q[k] : k \in 1 .. Len(q)} /\ Len(q) \in Nat
      /\ DOMAIN q = 1 .. Len(q) /\ \A k \in 1 .. Len(q) : q[k] \in S
  BY RangeIs, ElementOfSeq
<1>2. n + 2 \in Int /\ Len(q) \in Int /\ n \in Nat /\ n + 1 <= Len(q)
      /\ \A k \in n + 2 .. Len(q) : q[k] \in S
  BY <1>1
<1> DEFINE m == Len(q) - n - 1
<1>3. m \in Nat /\ m = Len(q) - (n + 2) + 1 /\ m = Len(q) - n - 1
  BY <1>2
<1> HIDE DEF m
<1>4. t \in Seq(S) /\ Len(t) = m /\ \A k \in 1 .. m : t[k] = q[n + 1 + k]
  <2>1. /\ t \in Seq(S)
        /\ Len(t) = IF n + 2 <= Len(q) THEN m ELSE 0
        /\ \A k \in 1 .. m : t[k] = q[(n + 2) + k - 1]
    BY <1>0, <1>2, <1>3, SubSeqProperties
  <2>2. Len(t) = m
    BY <2>1, <1>2, <1>3
  <2>3. ASSUME NEW k \in 1 .. m PROVE t[k] = q[n + 1 + k]
    <3>1. (n + 2) + k - 1 = n + 1 + k
      BY <1>2, <1>3
    <3> QED
      BY <2>1, <3>1
  <2> QED
    BY <2>1, <2>2, <2>3
<1>5. Range(t) = {t[k] : k \in 1 .. m} /\ DOMAIN t = 1 .. m
  <2>1. Range(t) = {t[k] : k \in 1 .. Len(t)} /\ DOMAIN t = 1 .. Len(t)
    BY ONLY <1>4, RangeIs
  <2> QED
    BY <2>1, <1>4
<1>A. \A a, b \in 1 .. Len(q) : q[a] = q[b] => a = b
  BY <1>1 DEF IsInjective
<1>B. /\ \A k \in 1 .. m : n + 1 + k \in 1 .. Len(q)
      /\ n + 1 \in 1 .. Len(q) /\ \A k \in 1 .. n : k \in 1 .. Len(q)
  BY <1>1, <1>2, <1>3
<1>6. IsInjective(t)
  <2> SUFFICES ASSUME NEW a \in 1 .. m, NEW b \in 1 .. m, t[a] = t[b]
               PROVE  a = b
    BY <1>5 DEF IsInjective
  <2>1. q[n + 1 + a] = q[n + 1 + b]
    BY <1>4
  <2>2. n + 1 + a = n + 1 + b
    BY <2>1, <1>A, <1>B
  <2> QED
    BY <2>2, <1>2, <1>3
<1>7. q[n + 1] \in Range(q) /\ q[n + 1] \notin Range(t)
  <2>1. q[n + 1] \in Range(q)
    BY <1>1, <1>B
  <2>2. ASSUME NEW k \in 1 .. m, t[k] = q[n + 1] PROVE FALSE
    <3>1. n + 1 + k = n + 1
      BY <2>2, <1>4, <1>A, <1>B
    <3> QED
      BY <3>1, <1>2, <1>3
  <2> QED
    BY <2>1, <2>2, <1>5
<1>8. Range(t) \subseteq Range(q)
  BY <1>1, <1>4, <1>5, <1>B
<1>9. {q[k] : k \in 1 .. n} \subseteq Range(q)
  BY <1>1, <1>B
<1>10. ASSUME NEW x \in Range(q), x \notin {q[k] : k \in 1 .. n}, x # q[n + 1]
       PROVE  x \in Range(t)
  <2>1. PICK k \in 1 .. Len(q) : x = q[k]
    BY <1>1
  <2>2. k - (n + 1) \in 1 .. m
    BY <2>1, <1>10, <1>2, <1>3
  <2>3. t[k - (n + 1)] = x
    BY <2>1, <2>2, <1>2, <1>3, <1>4
  <2> QED
    BY <2>2, <2>3, <1>5
<1> QED
  BY <1>4, <1>6, <1>7, <1>8, <1>9, <1>10 DEF FirstOf, t
-----------------------------------------------------------------------------
(* Every step keeps the invariant. *)

(* Serving a good queue, however many forks fail first. *)
LEMMA CallKeeps ==
  ASSUME NEW q, NEW ev, NEW N, current_ev \in Event,
         Good(q, ev, alive', up', N, reported, lost, dropped),
         CallHotplug(q, ev, N)
  PROVE  IInv'
<1>1. Queue(q, ev, alive', up', N) /\ Knowledge(reported, lost, dropped)
  BY DEF Good
<1>2. /\ Range(q) = {q[k] : k \in 1 .. Len(q)} /\ Range(q) \subseteq Ifaces
      /\ Len(q) \in Nat /\ (q # <<>> => Len(q) \in 1 .. Len(q))
  BY <1>1, RangeIs DEF Queue
<1>3. hotplug_ev' = ev
  BY DEF CallHotplug
<1>4. CASE AllFail(q, ev, N)
  <2>1. /\ current' = None /\ task' = FALSE /\ pending' = <<>>
        /\ lost' = lost \union Range(q) /\ news' = N \ Range(q)
        /\ reported' = reported /\ dropped' = dropped
    BY <1>4 DEF AllFail
  <2>2. current_ev' \in Event
    <3>1. CASE q = <<>>
      BY <3>1, <1>4 DEF AllFail
    <3>2. CASE q # <<>>
      BY <3>2, <1>1, <1>2, <1>4, ElementOfSeq DEF AllFail, Queue
    <3> QED
      BY <3>1, <3>2
  <2>3. /\ <<>> \in Seq(Ifaces) /\ Range(<<>>) = {} /\ IsInjective(<<>>)
    BY EmptySeq, RangeIs DEF Range, IsInjective
  <2>4. news' = {}
    BY <2>1, <1>1 DEF Queue
  <2>5. Queue(<<>>, ev, alive', up', {}) /\ Knowledge(reported, lost', dropped')
    BY <2>1, <2>3, <1>1, <1>2 DEF Queue, Knowledge
  <2>6. \A i \in Ifaces \ (Range(<<>>) \union lost') :
           Learned(i, up', reported, dropped)
    BY <2>1, <2>3 DEF Good
  <2>7. Good(<<>>, ev, alive', up', {}, reported, lost', dropped)
    BY <2>1, <2>3, <2>5, <2>6 DEF Good
  <2>8. Good(pending, hotplug_ev, alive, up, news, reported, lost, dropped)'
    BY <2>7, <2>1, <2>4, <1>3
  <2> QED
    BY <2>1, <2>2, <2>8 DEF IInv, Serving, QueueIsServed
<1>5. CASE \E n \in 0 .. Len(q) - 1 : RunAfter(n, q, ev, N)
  <2>1. PICK n \in 0 .. Len(q) - 1 : RunAfter(n, q, ev, N)
    BY <1>5
  <2> DEFINE i == q[n + 1]
             t == After(q, n)
             failed == FirstOf(q, n)
  <2>2. /\ current' = i /\ current_ev' = ev[i] /\ task' = TRUE /\ pending' = t
        /\ lost' = (lost \union failed) \ {i} /\ dropped' = dropped \ {i}
        /\ news' = N \ (failed \union {i})
        /\ reported' = [reported EXCEPT ![i] = Told(ev[i])]
    BY <2>1 DEF RunAfter, Told, After, FirstOf
  <2>3. /\ t \in Seq(Ifaces) /\ IsInjective(t) /\ i \in Range(q)
        /\ Range(q) = failed \union {i} \union Range(t) /\ i \notin Range(t)
    <3>1. q \in Seq(Ifaces) /\ IsInjective(q)
      BY <1>1 DEF Queue
    <3> QED
      BY <3>1, ServedRange
  <2> HIDE DEF i, t, failed
  <2>4. i \in Ifaces /\ i \in alive' /\ ev[i] \in Event
    BY <2>3, <1>1, <1>2 DEF Queue
  <2>5. Queue(t, ev, alive', up', news')
    BY <2>2, <2>3, <1>1 DEF Queue
  <2>6. Knowledge(reported', lost', dropped')
    BY <2>2, <2>3, <2>4, <1>1, <1>2 DEF Knowledge, Told
  <2>7. /\ reported'[i] = Told(ev[i]) /\ i \notin lost' /\ i \notin dropped'
        /\ \A j \in Ifaces \ {i} : reported'[j] = reported[j]
    BY <2>2, <2>4, <1>1 DEF Knowledge
  <2>8. ASSUME NEW j \in Range(t) PROVE EventRight(j, ev, up', reported', lost')
    <3>1. j \in Ifaces \ {i} /\ EventRight(j, ev, up', reported, lost)
      BY <2>3, <1>2 DEF Good
    <3>2. reported'[j] = reported[j] /\ (j \in lost => j \in lost')
      BY <3>1, <2>2, <2>7
    <3> QED
      BY <3>1, <3>2 DEF EventRight
  <2>9. ASSUME NEW j \in Ifaces \ (Range(t) \union lost')
        PROVE  Learned(j, up', reported', dropped')
    <3>1. CASE j = i
      <4>1. EventRight(i, ev, up', reported, lost)
        BY <2>3 DEF Good
      <4> QED
        BY <4>1, <3>1, <2>7 DEF EventRight, Learned, Told
    <3>2. CASE j # i
      <4>1. /\ j \notin Range(q) /\ j \notin lost
            /\ j \in dropped => j \in dropped'
        BY <3>2, <2>2, <2>3
      <4> QED
        BY <4>1, <3>2, <2>7 DEF Good, Learned
    <3> QED
      BY <3>1, <3>2
  <2>10. Good(pending, hotplug_ev, alive, up, news, reported, lost, dropped)'
    BY <2>2, <2>5, <2>6, <2>8, <2>9, <1>3 DEF Good
  <2> QED
    BY <2>2, <2>4, <2>7, <2>10 DEF IInv, Serving, QueueIsServed
<1> QED
  BY <1>4, <1>5 DEF CallHotplug

(* An event of i, which the interface's state agrees with. *)
LEMMA QueueEventKeeps ==
  ASSUME IInv, NEW i \in alive, NEW ev \in Event, QueueEvent(i, ev),
         alive' = alive, up' \subseteq alive,
         \A j \in alive \ {i} : j \in up' <=> j \in up,
         ev = "UP" => i \in up' /\ i \notin up,
         ev = "DOWN" => i \notin up' /\ i \in up,
         ev = "UPDATE" => i \in up' /\ i \in up
  PROVE  IInv'
<1> DEFINE q   == IF Joins(i, ev) THEN Append(pending, i) ELSE pending
           hev == IF Joins(i, ev) \/ Overwrites(i, ev)
                  THEN [hotplug_ev EXCEPT ![i] = ev] ELSE hotplug_ev
<1>1. /\ Queue(pending, hotplug_ev, alive, up, news)
      /\ Knowledge(reported, lost, dropped)
      /\ \A j \in Range(pending) : EventRight(j, hotplug_ev, up, reported, lost)
      /\ \A j \in Ifaces \ (Range(pending) \union lost) :
           Learned(j, up, reported, dropped)
      /\ Serving /\ QueueIsServed
  BY DEF IInv, Good
<1>2. /\ i \in Ifaces /\ pending \in Seq(Ifaces) /\ IsInjective(pending)
      /\ Range(pending) \subseteq alive /\ news \subseteq Range(pending)
      /\ alive \subseteq Ifaces /\ hotplug_ev \in [Ifaces -> Event]
  BY <1>1 DEF Queue
<1>3. Joins(i, ev) \/ i \in Range(pending)
  <2>1. CASE i \in lost \/ i \in Range(pending)
    BY <2>1, <1>1, <1>2, HotplugAssumption DEF Joins, Waiting, Serving
  <2>2. CASE i \notin lost /\ i \notin Range(pending)
    <3>1. IF i \in up THEN reported[i] = "UP"
          ELSE reported[i] = "DOWN" \/ i \in dropped
      BY <2>2, <1>1, <1>2 DEF Learned
    <3>2. current = i => reported[i] = Told(current_ev) /\ i \notin dropped
      BY <1>1, <1>2, HotplugAssumption DEF Serving
    <3> QED
      BY <2>2, <3>1, <3>2 DEF Joins, Waiting, Told
  <2> QED
    BY <2>1, <2>2
<1>4. /\ q \in Seq(Ifaces) /\ IsInjective(q)
      /\ Range(q) = Range(pending) \union {i}
  <2>1. CASE Joins(i, ev)
    BY <2>1, <1>2, AppendRange DEF Joins, Waiting
  <2>2. CASE ~Joins(i, ev)
    BY <2>2, <1>2, <1>3
  <2> QED
    BY <2>1, <2>2
<1>5. /\ hev \in [Ifaces -> Event]
      /\ \A j \in Ifaces \ {i} : hev[j] = hotplug_ev[j]
      /\ Joins(i, ev) \/ Overwrites(i, ev) => hev[i] = ev
      /\ ~(Joins(i, ev) \/ Overwrites(i, ev)) => hev[i] = hotplug_ev[i]
  BY <1>2
<1>6. IF task \/ current # None
      THEN /\ pending' = q /\ hotplug_ev' = hev /\ news' = news \union {i}
           /\ UNCHANGED <<current, current_ev, task, reported, lost, dropped>>
      ELSE CallHotplug(q, hev, news \union {i})
  BY <1>1 DEF QueueEvent, Serving
<1> HIDE DEF q, hev
<1>7. EventRight(i, hev, up', reported, lost)
  <2>1. CASE Joins(i, ev)
    BY <2>1, <1>1, <1>2, <1>5 DEF Joins, Waiting, EventRight, Learned
  <2>2. CASE Overwrites(i, ev)
    <3>1. EventRight(i, hotplug_ev, up, reported, lost)
      BY <2>2, <1>1 DEF Overwrites, Waiting
    <3> QED
      BY <2>2, <3>1, <1>5 DEF Overwrites, EventRight
  <2>3. CASE ~(Joins(i, ev) \/ Overwrites(i, ev))
    <3>1. EventRight(i, hotplug_ev, up, reported, lost) /\ ev = "UPDATE"
      BY <2>3, <1>1, <1>3 DEF Overwrites, Waiting
    <3> QED
      BY <2>3, <3>1, <1>5 DEF EventRight
  <2> QED
    BY <2>1, <2>2, <2>3
<1>8. ASSUME NEW j \in Range(q) PROVE EventRight(j, hev, up', reported, lost)
  <2>1. CASE j = i
    BY <2>1, <1>7
  <2>2. CASE j # i
    BY <2>2, <1>1, <1>2, <1>4, <1>5 DEF EventRight
  <2> QED
    BY <2>1, <2>2
<1>9. ASSUME NEW j \in Ifaces \ (Range(q) \union lost)
      PROVE  Learned(j, up', reported, dropped)
  <2>1. j \in up' <=> j \in up
    BY <1>1, <1>4 DEF Queue
  <2> QED
    BY <2>1, <1>1, <1>4 DEF Learned
<1>10. Queue(q, hev, alive', up', news \union {i})
  BY <1>2, <1>4, <1>5 DEF Queue
<1>11. Good(q, hev, alive', up', news \union {i}, reported, lost, dropped)
  BY <1>1, <1>8, <1>9, <1>10 DEF Good
<1>12. CASE task \/ current # None
  <2>1. task
    BY <1>12, <1>1 DEF QueueIsServed
  <2>2. Good(pending, hotplug_ev, alive, up, news, reported, lost, dropped)'
    BY <1>6, <1>11, <1>12
  <2> QED
    BY <2>1, <2>2, <1>1, <1>6, <1>12 DEF IInv, Serving, QueueIsServed
<1>13. CASE ~(task \/ current # None)
  BY <1>1, <1>6, <1>11, <1>13, CallKeeps DEF Serving
<1> QED
  BY <1>12, <1>13
LEMMA Initially == Init => IInv
<1> SUFFICES ASSUME Init PROVE IInv
  OBVIOUS
<1>1. <<>> \in Seq(Ifaces) /\ Range(<<>>) = {} /\ IsInjective(<<>>)
  BY EmptySeq, RangeIs DEF Range, IsInjective
<1>2. Good(pending, hotplug_ev, alive, up, news, reported, lost, dropped)
  BY <1>1 DEF Init, Good, Queue, Knowledge, Learned
<1> QED
  BY <1>2 DEF Init, IInv, Serving, QueueIsServed

LEMMA CreateKeeps ==
  ASSUME IInv, NEW i \in Ifaces, Create(i)
  PROVE  IInv'
<1>1. /\ Queue(pending, hotplug_ev, alive, up, news)
      /\ Knowledge(reported, lost, dropped)
      /\ \A j \in Range(pending) : EventRight(j, hotplug_ev, up, reported, lost)
      /\ \A j \in Ifaces \ (Range(pending) \union lost) :
           Learned(j, up, reported, dropped)
      /\ Serving /\ QueueIsServed
  BY DEF IInv, Good
<1>2. /\ alive' = alive \union {i}
      /\ UNCHANGED <<up, current, current_ev, task, pending, hotplug_ev>>
      /\ UNCHANGED <<news, reported, lost, dropped>>
  BY DEF Create, queue, told
<1>3. Queue(pending, hotplug_ev, alive, up, news)'
  BY <1>1, <1>2 DEF Queue
<1>4. Good(pending, hotplug_ev, alive, up, news, reported, lost, dropped)'
  BY <1>1, <1>2, <1>3 DEF Good
<1> QED
  BY <1>1, <1>2, <1>4 DEF IInv, Serving, QueueIsServed

LEMMA FreeKeeps ==
  ASSUME IInv, NEW i \in Ifaces, InterfaceFree(i)
  PROVE  IInv'
<1>1. /\ Queue(pending, hotplug_ev, alive, up, news)
      /\ Knowledge(reported, lost, dropped)
      /\ \A j \in Range(pending) : EventRight(j, hotplug_ev, up, reported, lost)
      /\ \A j \in Ifaces \ (Range(pending) \union lost) :
           Learned(j, up, reported, dropped)
      /\ Serving /\ QueueIsServed
  BY DEF IInv, Good
<1>2. /\ alive' = alive \ {i} /\ i \notin up /\ up' = up
      /\ pending' = Remove(pending, i)
      /\ current' = IF current = i THEN None ELSE current
      /\ news' = news \ {i}
      /\ dropped' = IF i \in Range(pending) THEN dropped \union {i} ELSE dropped
      /\ UNCHANGED <<current_ev, task, hotplug_ev, reported, lost>>
  BY DEF InterfaceFree, DequeueEvent, Waiting
<1>3. /\ pending' \in Seq(Ifaces) /\ IsInjective(pending')
      /\ Range(pending') = Range(pending) \ {i}
  BY <1>1, <1>2, RemoveRange DEF Queue
<1>4. Queue(pending, hotplug_ev, alive, up, news)'
  BY <1>1, <1>2, <1>3 DEF Queue
<1>5. Good(pending, hotplug_ev, alive, up, news, reported, lost, dropped)'
  BY <1>1, <1>2, <1>3, <1>4 DEF Good, Knowledge, EventRight, Learned
<1>6. Serving'
  BY <1>1, <1>2 DEF Serving
<1>7. QueueIsServed'
  <2>1. pending' # <<>> => pending # <<>>
    <3>1. pending = <<>> => Range(pending) = {}
      BY DEF Range
    <3>2. Range(pending') = {} => pending' = <<>>
      BY <1>3, RangeIs
    <3> QED
      BY <3>1, <3>2, <1>3
  <2> QED
    BY <2>1, <1>1, <1>2 DEF QueueIsServed
<1> QED
  BY <1>5, <1>6, <1>7 DEF IInv

LEMMA NextKeeps == IInv /\ [Next]_vars => IInv'
<1> SUFFICES ASSUME IInv, [Next]_vars PROVE IInv'
  OBVIOUS
<1>1. up \subseteq alive /\ alive \subseteq Ifaces
  BY DEF IInv, Good, Queue
<1>2. ASSUME NEW i \in Ifaces, Create(i) PROVE IInv'
  BY <1>2, CreateKeeps
<1>3. ASSUME NEW i \in Ifaces, InterfaceUp(i) PROVE IInv'
  BY <1>1, <1>3, QueueEventKeeps DEF InterfaceUp
<1>4. ASSUME NEW i \in Ifaces, InterfaceUpdate(i) PROVE IInv'
  BY <1>1, <1>4, QueueEventKeeps DEF InterfaceUpdate
<1>5. ASSUME NEW i \in Ifaces, InterfaceDown(i) PROVE IInv'
  BY <1>1, <1>5, QueueEventKeeps DEF InterfaceDown
<1>6. ASSUME NEW i \in Ifaces, InterfaceFree(i) PROVE IInv'
  BY <1>6, FreeKeeps
<1>7. CASE TaskComplete
  <2>1. Good(pending, hotplug_ev, alive', up', news, reported, lost, dropped)
    BY <1>7 DEF TaskComplete, IInv
  <2> QED
    BY <2>1, <1>7, CallKeeps DEF TaskComplete, IInv, Serving
<1>8. CASE UNCHANGED vars
  BY <1>8 DEF vars, queue, told, IInv, Good, Queue, Knowledge, Serving,
              QueueIsServed, EventRight, Learned
<1> QED
  BY <1>2, <1>3, <1>4, <1>5, <1>6, <1>7, <1>8 DEF Next

(* The queue is good, and served, in every reachable state: interface_event *)
(* callbacks, script exits and forks that fail included.                    *)
THEOREM IInvHolds == Spec => []IInv
BY Initially, NextKeeps, PTL DEF Spec

-----------------------------------------------------------------------------
(* The variables keep their types; no event but those of interface_event.   *)
THEOREM TypeCorrect == Spec => []TypeOK
<1>1. IInv => TypeOK
  BY DEF IInv, Good, Queue, Knowledge, Serving, TypeOK
<1> QED
  BY <1>1, IInvHolds, PTL

(* An event waits only for a script that runs, whose end (task_complete)    *)
(* serves the next, also when IFEV_FREE has reset `current`.                *)
THEOREM Served == Spec => []QueueIsServed
<1>1. IInv => QueueIsServed
  BY DEF IInv
<1> QED
  BY <1>1, IInvHolds, PTL

(* interface_dequeue_event leaves no interface that is freed in the queue,  *)
(* and no interface is ever queued twice.                                   *)
THEOREM NoneStale == Spec => []NoStaleEntry
<1>1. IInv => NoStaleEntry
  BY DEF IInv, Good, Queue, Serving, NoStaleEntry
<1> QED
  BY <1>1, IInvHolds, PTL

(* Whatever interface_queue_event leaves out or overwrites, an event waits. *)
THEOREM NoneForgotten == Spec => []NothingForgotten
<1>1. IInv => NothingForgotten
  BY DEF IInv, Good, Queue, NothingForgotten
<1> QED
  BY <1>1, IInvHolds, PTL

(* The event that waits agrees with the state of its interface.             *)
THEOREM EventsCurrent == Spec => []QueuedEventIsCurrent
<1>1. IInv => QueuedEventIsCurrent
  BY DEF IInv, Good, EventRight, QueuedEventIsCurrent
<1> QED
  BY <1>1, IInvHolds, PTL

(* The scripts know which interfaces without a waiting event are UP.  What  *)
(* they take for UP although it is DOWN or gone had its ifdown dropped by   *)
(* interface_dequeue_event, or the fork of run_cmd failed.                  *)
THEOREM ScriptsKnow == Spec => []ScriptsLearnState
<1>1. IInv => ScriptsLearnState
  BY DEF IInv, Good, Learned, ScriptsLearnState
<1> QED
  BY <1>1, IInvHolds, PTL
=============================================================================
