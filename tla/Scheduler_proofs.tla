--------------------------- MODULE Scheduler_proofs ---------------------------
(***************************************************************************)
(* Scheduler: its type invariant and GroupWithinBounds, for every set of   *)
(* specs, every bound and views of every age.                              *)
(*                                                                         *)
(* GroupWithinBounds is not inductive: it counts the instances that are    *)
(* left and does not say which ones a pass may still take.  The invariant  *)
(* DrainInv says it of each instance by itself: one that was drained, or   *)
(* is on the list of the running pass, has enough instances of its spec    *)
(* after it.  A pass over a stale view sees a prefix of the log, and takes *)
(* the oldest instances of the prefix: what the prefix holds after one of  *)
(* them the log holds as well.                                             *)
(***************************************************************************)
EXTENDS Scheduler, FiniteSetTheorems, NaturalsInduction, TLAPS

----------------------------------------------------------------------------
(* The inductive invariant.                                                *)

\* The instances of its spec that were allocated after instance i.
Later(i) == {j \in Allocated(log[i].spec) : j > i}

\* Instance i may go: with those allocated after it alone the spec has its floor.
Dispensable(i) ==
    /\ i \in 1 .. Len(log) /\ log[i].kind = "allocated"
    /\ Cardinality(Later(i)) >= floor[log[i].spec]

\* So may every instance that was drained or that the pass is going to drain.
DrainInv ==
    /\ \A k \in 1 .. Len(log) : log[k].kind = "draining" => Dispensable(log[k].inst)
    /\ \A i \in pass.old \cup pass.excess : Dispensable(i)

\* The floor is at most what is wanted, and what the pass has read; a spec that has instances
\* and is not the one of the pass was replaced.
WantInv ==
    /\ floor[want] <= Clamped(replicas)
    /\ pass.spec # want => floor[pass.spec] = 0
    /\ \A s \in Specs : Allocated(s) # {} /\ s # pass.spec => floor[s] = 0
    /\ pass.phase # "idle" => floor[pass.spec] <= pass.replicas

\* While no pass has read a stale view, there is room for what the pass still allocates.
RoomInv ==
    /\ pass.replicas <= MaxReplicas
    /\ pass.phase # "work" => pass.create = 0
    /\ ~stale => \A s \in Specs :
         Cardinality(Allocated(s)) + (IF s = pass.spec THEN pass.create ELSE 0) <= MaxReplicas

SchedulerInv == TypeOK /\ DrainInv /\ WantInv /\ RoomInv

----------------------------------------------------------------------------
\* Facts about the operators.

\* A set of positions that is not empty has a greatest element.
LEMMA GreatestPosition ==
    ASSUME NEW n \in Nat, NEW S \in SUBSET (1 .. n), S # {}
    PROVE  \E m \in S : \A k \in S : k <= m
<1>1. PICK T : T = {d \in Nat : n - d \in S}
  OBVIOUS
<1>2. \A k \in S : n - k \in T
  <2>1. \A k \in S : k \in Nat /\ n - k \in Nat /\ n - (n - k) = k
    OBVIOUS
  <2>2. QED
    BY <1>1, <2>1
<1>3. T \in SUBSET Nat /\ T # {}
  BY <1>1, <1>2
<1>4. PICK d \in T : \A k \in T : ~(<<k, d>> \in OpToRel(<, Nat))
  BY <1>3, NatLessThanWellFounded, WFMin
<1>5. d \in Nat /\ \A k \in T : k \in Nat /\ ~(k < d)
  BY <1>3, <1>4 DEF OpToRel
<1>6. n - d \in S
  BY <1>1
<1>7. \A k \in S : n - k \in Nat /\ n - k >= d /\ k \in Nat
  BY <1>2, <1>5
<1>8. \A k \in S : k <= n - d
  BY <1>5, <1>7
<1>9. QED
  BY <1>6, <1>8

\* The instances of a prefix of the log are finitely many positions.
LEMMA InstancesFinite ==
    ASSUME TypeOK, NEW n \in 0 .. Len(log), NEW s \in Specs
    PROVE  /\ AllocatedIn(n, s) \subseteq Allocated(s)
           /\ AllocatedIn(n, s) \subseteq Nat
           /\ IsFiniteSet(AllocatedIn(n, s)) /\ Cardinality(AllocatedIn(n, s)) \in Nat
<1>1. /\ AllocatedIn(n, s) \subseteq 1 .. Len(log)
      /\ AllocatedIn(n, s) \subseteq Allocated(s)
  BY DEF AllocatedIn, Allocated, TypeOK
<1>2. Len(log) \in Nat /\ Len(log) \in Int /\ 1 \in Int
  BY DEF TypeOK
<1>3. IsFiniteSet(1 .. Len(log))
  BY <1>2, FS_Interval
<1>4. IsFiniteSet(AllocatedIn(n, s)) /\ Cardinality(AllocatedIn(n, s)) \in Nat
  BY <1>1, <1>3, FS_Subset, FS_CardinalityType
<1>5. 1 .. Len(log) \subseteq Nat
  BY <1>2
<1>6. QED
  BY <1>1, <1>4, <1>5

LEMMA AllocatedFinite ==
    ASSUME TypeOK, NEW s \in Specs
    PROVE  /\ Allocated(s) \subseteq 1 .. Len(log)
           /\ IsFiniteSet(Allocated(s)) /\ Cardinality(Allocated(s)) \in Nat
<1>1. Len(log) \in 0 .. Len(log)
  BY DEF TypeOK
<1>2. Allocated(s) \subseteq 1 .. Len(log)
  BY DEF Allocated, AllocatedIn
<1>3. QED
  BY <1>1, <1>2, InstancesFinite DEF Allocated

\* A subset of a spec's instances has no more elements than the spec has instances.
LEMMA SubsetCounts ==
    ASSUME NEW S, NEW T, IsFiniteSet(S), T \subseteq S
    PROVE  /\ IsFiniteSet(T) /\ Cardinality(T) \in Nat /\ Cardinality(S) \in Nat
           /\ Cardinality(T) <= Cardinality(S)
  BY FS_Subset, FS_CardinalityType

\* The oldest-first surplus leaves n instances after each one it takes.
LEMMA SurplusLeavesEnough ==
    ASSUME NEW M \in SUBSET Nat, IsFiniteSet(M), NEW n \in Nat,
           NEW i \in Oldest(M, Cardinality(M) - n)
    PROVE  i \in M /\ Cardinality({j \in M : j > i}) >= n
<1>1. PICK B, A : B = {j \in M : j < i} /\ A = {j \in M : j > i}
  OBVIOUS
<1>2. i \in M /\ Cardinality(B) < Cardinality(M) - n
  BY <1>1 DEF Oldest
<1>3. /\ IsFiniteSet(A) /\ Cardinality(A) \in Nat
      /\ IsFiniteSet(B) /\ Cardinality(B) \in Nat /\ Cardinality(M) \in Nat
  BY <1>1, SubsetCounts
<1>4. /\ IsFiniteSet(B \cup {i})
      /\ Cardinality(B \cup {i}) = Cardinality(B) + 1
  <2>1. i \notin B
    BY <1>1, <1>2
  <2>2. QED
    BY <1>3, <2>1, FS_AddElement
<1>5. M = (B \cup {i}) \cup A /\ (B \cup {i}) \cap A = {}
  <2>1. \A j \in M : j < i \/ j = i \/ j > i
    BY <1>2
  <2>2. \A j \in M : ~(j < i /\ j > i) /\ ~(j = i /\ j > i)
    BY <1>2
  <2>3. QED
    BY <1>1, <1>2, <2>1, <2>2
<1>6. Cardinality(M) = Cardinality(B \cup {i}) + Cardinality(A)
  BY <1>3, <1>4, <1>5, FS_Union, FS_EmptySet
<1>7. QED
  BY <1>1, <1>2, <1>3, <1>4, <1>6

\* Replica counts stay between zero and MaxReplicas.
LEMMA ClampedRange ==
    ASSUME NEW n \in 0 .. MaxReplicas
    PROVE  Clamped(n) \in 0 .. MaxReplicas
  BY SchedulerAssumption DEF Clamped, Lower

LEMMA LowerRange ==
    ASSUME NEW m \in 0 .. MaxReplicas, NEW n \in 0 .. MaxReplicas
    PROVE  Lower(m, n) \in 0 .. MaxReplicas /\ Lower(m, n) <= m /\ Lower(m, n) <= n
  BY SchedulerAssumption DEF Lower

\* What appending an event to the log gives.
LEMMA AppendFacts ==
    ASSUME NEW l \in Seq(Event), NEW ev \in Event
    PROVE  /\ Append(l, ev) \in Seq(Event)
           /\ Len(Append(l, ev)) = Len(l) + 1
           /\ \A i \in 1 .. Len(l) : Append(l, ev)[i] = l[i]
           /\ Append(l, ev)[Len(l) + 1] = ev
  OBVIOUS

\* The log only grows, and no floor rises: what every step does to the instances.
Grows ==
    /\ Len(log) <= Len(log)'
    /\ \A i \in 1 .. Len(log) : log'[i] = log[i]
    /\ \A s \in Specs : floor'[s] <= floor[s]

\* An instance that may go may go for good.
LEMMA StaysDispensable ==
    ASSUME TypeOK, TypeOK', Grows, NEW i \in Nat, Dispensable(i)
    PROVE  Dispensable(i)'
<1>0. /\ log \in Seq(Event) /\ Len(log) \in Nat /\ Len(log)' \in Nat
      /\ i \in 1 .. Len(log) /\ log[i].kind = "allocated"
  <2>1. log \in Seq(Event) /\ log' \in Seq(Event)
    BY DEF TypeOK, Event
  <2>2. QED
    BY <2>1 DEF Dispensable
<1>1. PICK s \in Specs : s = log[i].spec
  <2>1. log[i] \in Event
    BY <1>0
  <2>2. QED
    BY <2>1 DEF Event
<1>2. i \in 1 .. Len(log)' /\ log'[i] = log[i] /\ log'[i].kind = "allocated"
  BY <1>0 DEF Grows
<1>3. PICK L, K : L = Later(i) /\ K = {j \in Allocated(s)' : j > i}
  OBVIOUS
<1>4. L \subseteq K
  <2>1. \A j \in 1 .. Len(log) : j \in 1 .. Len(log)' /\ log'[j] = log[j]
    BY <1>0 DEF Grows
  <2>2. Allocated(s) \subseteq Allocated(s)'
    BY <2>1 DEF Allocated, AllocatedIn
  <2>3. QED
    BY <1>1, <1>3, <2>2 DEF Later
<1>5. IsFiniteSet(K)
  <2>1. K \subseteq 1 .. Len(log)'
    BY <1>3 DEF Allocated, AllocatedIn
  <2>2. IsFiniteSet(1 .. Len(log)')
    BY <1>0, FS_Interval
  <2>3. QED
    BY <2>1, <2>2, SubsetCounts
<1>6. Cardinality(L) <= Cardinality(K) /\ Cardinality(L) \in Nat /\ Cardinality(K) \in Nat
  BY <1>4, <1>5, SubsetCounts
<1>7. floor[s] <= Cardinality(L) /\ floor'[s] <= floor[s] /\ floor[s] \in Nat /\ floor'[s] \in Nat
  BY <1>1, <1>3, SchedulerAssumption DEF Dispensable, Grows, TypeOK
<1>8. floor'[s] <= Cardinality(K)
  BY <1>6, <1>7
<1>9. K = Later(i)'
  BY <1>1, <1>2, <1>3 DEF Later
<1>10. QED
  BY <1>1, <1>2, <1>8, <1>9 DEF Dispensable

----------------------------------------------------------------------------
\* Type correctness.

\* An idle pass of a spec is a pass.
LEMMA IdlePassType ==
    ASSUME NEW s \in Specs
    PROVE  /\ IdlePass(s) \in Pass /\ IdlePass(s).phase = "idle" /\ IdlePass(s).spec = s
           /\ IdlePass(s).replicas = 0 /\ IdlePass(s).create = 0
           /\ IdlePass(s).old = {} /\ IdlePass(s).excess = {}
  BY DEF IdlePass, Pass

\* What GetInstances computes from the view has the types of the fields of a pass.
LEMMA PartitionType ==
    ASSUME TypeOK, NEW n \in Nat, NEW s \in Specs
    PROVE  /\ Missing(Matching(s), n) \in Nat
           /\ Drainable(Old(s)) \in SUBSET Nat
           /\ Surplus(Matching(s), n) \in SUBSET Nat
<1>1. applied \in 0 .. Len(log)
  BY DEF TypeOK
<1>2. \A t \in Specs : AllocatedIn(applied, t) \subseteq Nat
                       /\ Cardinality(AllocatedIn(applied, t)) \in Nat
  BY <1>1, InstancesFinite
<1>3. Missing(Matching(s), n) \in Nat
  BY <1>2 DEF Missing, Matching
<1>4. Drainable(Old(s)) \in SUBSET Nat
  BY <1>2 DEF Drainable, Old
<1>5. Surplus(Matching(s), n) \in SUBSET Nat
  BY <1>2 DEF Surplus, Drainable, Oldest, Matching
<1>6. QED
  BY <1>3, <1>4, <1>5

\* What the event of an append leaves of the other variables' types.
LEMMA AppendType ==
    ASSUME TypeOK, NEW ev \in Event, log' = Append(log, ev)
    PROVE  /\ log' \in Seq(Event) /\ Len(log') = Len(log) + 1
           /\ \A i \in 1 .. Len(log) : log'[i] = log[i]
           /\ log'[Len(log) + 1] = ev
           /\ applied \in 0 .. Len(log')
<1>1. log \in Seq(Event) /\ applied \in 0 .. Len(log)
  BY DEF TypeOK
<1>2. PICK l : l = log'
  OBVIOUS
<1>3. /\ l \in Seq(Event) /\ Len(l) = Len(log) + 1
      /\ \A i \in 1 .. Len(log) : l[i] = log[i]
      /\ l[Len(log) + 1] = ev
  BY <1>1, <1>2, AppendFacts
<1>4. applied \in 0 .. Len(l)
  BY <1>1, <1>3
<1>5. QED
  BY <1>2, <1>3, <1>4

LEMMA TypeInit == Init => TypeOK
<1>1. SUFFICES ASSUME Init PROVE TypeOK
  OBVIOUS
<1>2. /\ want \in Specs /\ replicas \in 0 .. MaxReplicas /\ changes \in 0 .. MaxChanges
      /\ failures \in 0 .. MaxFailures
  BY <1>1, SchedulerAssumption DEF Init
<1>3. log \in Seq(Event) /\ applied \in 0 .. Len(log)
  BY <1>1 DEF Init
<1>4. pass \in Pass
  BY <1>1, <1>2, IdlePassType DEF Init
<1>5. floor \in [Specs -> 0 .. MaxReplicas]
  <2>1. Clamped(replicas) \in 0 .. MaxReplicas /\ MaxReplicas \in 0 .. MaxReplicas
    BY <1>2, ClampedRange, SchedulerAssumption
  <2>2. QED
    BY <1>1, <2>1 DEF Init
<1>6. stale \in BOOLEAN
  BY <1>1 DEF Init
<1>7. QED
  BY <1>2, <1>3, <1>4, <1>5, <1>6 DEF TypeOK

\* Steps that leave the events alone.
QuietStep ==
    \/ GetGroup \/ GetInstances \/ AllocateFails \/ EndPass \/ AbandonPass \/ Project
    \/ \E i \in pass.old \cup pass.excess : DrainFails(i)
    \/ \E s \in Specs : DeploySpec(s)
    \/ \E n \in 0 .. MaxReplicas : ScaleTo(n)

LEMMA TypeQuiet ==
    ASSUME TypeOK, QuietStep
    PROVE  /\ TypeOK' /\ log' = log
           /\ \A s \in Specs : floor'[s] <= floor[s]
<1>0. /\ want \in Specs /\ replicas \in 0 .. MaxReplicas /\ changes \in 0 .. MaxChanges
      /\ log \in Seq(Event) /\ applied \in 0 .. Len(log) /\ pass \in Pass
      /\ failures \in 0 .. MaxFailures /\ floor \in [Specs -> 0 .. MaxReplicas]
      /\ stale \in BOOLEAN
  BY DEF TypeOK
<1>1. \A s \in Specs : floor[s] \in 0 .. MaxReplicas /\ floor[s] <= floor[s]
  BY <1>0, SchedulerAssumption
<1>2. CASE GetGroup
  <2>1. pass' \in Pass
    <3>1. Clamped(replicas) \in Nat
      BY <1>0, ClampedRange, SchedulerAssumption
    <3>2. PICK r : r = IdlePass(want)
      OBVIOUS
    <3>3. r \in Pass
      BY <1>0, <3>2, IdlePassType
    <3>4. pass' = [r EXCEPT !.phase = "group", !.replicas = Clamped(replicas)]
      BY <1>2, <3>2 DEF GetGroup
    <3>5. QED
      BY <3>1, <3>3, <3>4 DEF Pass
  <2>2. QED
    BY <1>0, <1>1, <1>2, <2>1 DEF GetGroup, TypeOK
<1>3. CASE GetInstances
  <2>1. pass' \in Pass
    <3>1. pass.spec \in Specs /\ pass.replicas \in Nat
      BY <1>0 DEF Pass
    <3>2. PICK m, o, x : /\ m = Missing(Matching(pass.spec), pass.replicas)
                         /\ o = Drainable(Old(pass.spec))
                         /\ x = Surplus(Matching(pass.spec), pass.replicas)
      OBVIOUS
    <3>3. m \in Nat /\ o \in SUBSET Nat /\ x \in SUBSET Nat
      BY <3>1, <3>2, PartitionType
    <3>4. pass' = [pass EXCEPT !.phase = "work", !.create = m, !.old = o, !.excess = x]
      BY <1>3, <3>2 DEF GetInstances
    <3>5. QED
      BY <1>0, <3>3, <3>4 DEF Pass
  <2>2. QED
    BY <1>0, <1>1, <1>3, <2>1 DEF GetInstances, TypeOK
<1>4. CASE AllocateFails
  <2>1. pass' \in Pass
    <3>1. pass.create \in Nat /\ pass.create - 1 \in Nat
      BY <1>0, <1>4 DEF AllocateFails, Pass
    <3>2. pass' = [pass EXCEPT !.create = pass.create - 1]
      BY <1>4 DEF AllocateFails
    <3>3. QED
      BY <1>0, <3>1, <3>2 DEF Pass
  <2>2. failures' \in 0 .. MaxFailures
    BY <1>0, <1>4, SchedulerAssumption DEF AllocateFails
  <2>3. QED
    BY <1>0, <1>1, <1>4, <2>1, <2>2 DEF AllocateFails, TypeOK
<1>5. CASE EndPass
  <2>1. pass' \in Pass
    BY <1>0, <1>5, IdlePassType DEF EndPass, Pass
  <2>2. QED
    BY <1>0, <1>1, <1>5, <2>1 DEF EndPass, TypeOK
<1>6. CASE AbandonPass
  <2>1. pass' \in Pass
    BY <1>0, <1>6, IdlePassType DEF AbandonPass, Pass
  <2>2. failures' \in 0 .. MaxFailures
    BY <1>0, <1>6, SchedulerAssumption DEF AbandonPass
  <2>3. QED
    BY <1>0, <1>1, <1>6, <2>1, <2>2 DEF AbandonPass, TypeOK
<1>7. CASE Project
  <2>1. applied' \in 0 .. Len(log)
    BY <1>0, <1>7 DEF Project
  <2>2. QED
    BY <1>0, <1>1, <1>7, <2>1 DEF Project, TypeOK
<1>8. ASSUME NEW i \in pass.old \cup pass.excess, DrainFails(i)
      PROVE  /\ TypeOK' /\ log' = log /\ \A s \in Specs : floor'[s] <= floor[s]
  <2>1. pass' \in Pass
    BY <1>0, <1>8 DEF DrainFails, Handled, Pass
  <2>2. failures' \in 0 .. MaxFailures
    BY <1>0, <1>8, SchedulerAssumption DEF DrainFails
  <2>3. QED
    BY <1>0, <1>1, <1>8, <2>1, <2>2 DEF DrainFails, TypeOK
<1>9. ASSUME NEW s \in Specs, DeploySpec(s)
      PROVE  /\ TypeOK' /\ log' = log /\ \A t \in Specs : floor'[t] <= floor[t]
  <2>1. PICK n : n = Lower(floor[s], Clamped(replicas))
    OBVIOUS
  <2>2. n \in 0 .. MaxReplicas /\ n <= floor[s] /\ 0 \in 0 .. MaxReplicas
    BY <1>0, <1>1, <2>1, ClampedRange, LowerRange, SchedulerAssumption, SMTT(30)
  <2>3. s # want /\ floor' = [floor EXCEPT ![want] = 0, ![s] = n]
    BY <1>0, <1>9, <2>1 DEF DeploySpec
  <2>4. floor' \in [Specs -> 0 .. MaxReplicas]
    BY <1>0, <2>2, <2>3
  <2>5. \A t \in Specs : floor'[t] <= floor[t]
    BY <1>0, <1>1, <2>2, <2>3, SchedulerAssumption
  <2>6. changes' \in 0 .. MaxChanges
    BY <1>0, <1>9, SchedulerAssumption DEF DeploySpec
  <2>7. QED
    BY <1>0, <1>9, <2>4, <2>5, <2>6 DEF DeploySpec, TypeOK
<1>10. ASSUME NEW m \in 0 .. MaxReplicas, ScaleTo(m)
       PROVE  /\ TypeOK' /\ log' = log /\ \A t \in Specs : floor'[t] <= floor[t]
  <2>1. PICK n : n = Lower(floor[want], Clamped(m))
    OBVIOUS
  <2>2. n \in 0 .. MaxReplicas /\ n <= floor[want]
    BY <1>0, <1>1, <2>1, ClampedRange, LowerRange
  <2>3. floor' = [floor EXCEPT ![want] = n]
    BY <1>10, <2>1 DEF ScaleTo
  <2>4. floor' \in [Specs -> 0 .. MaxReplicas]
    BY <1>0, <2>2, <2>3
  <2>5. \A t \in Specs : floor'[t] <= floor[t]
    BY <1>0, <1>1, <2>2, <2>3
  <2>6. changes' \in 0 .. MaxChanges
    BY <1>0, <1>10, SchedulerAssumption DEF ScaleTo
  <2>7. QED
    BY <1>0, <1>10, <2>4, <2>5, <2>6 DEF ScaleTo, TypeOK
<1>11. QED
  BY <1>2, <1>3, <1>4, <1>5, <1>6, <1>7, <1>8, <1>9, <1>10 DEF QuietStep

----------------------------------------------------------------------------
\* The steps that leave the events alone.

\* The instances are a function of the log.
LEMMA SameInstances ==
    ASSUME log' = log
    PROVE  \A s : Allocated(s)' = Allocated(s)
  BY DEF Allocated, AllocatedIn

\* What the list of the pass loses needs no argument.
LEMMA DrainKept ==
    ASSUME SchedulerInv, TypeOK', log' = log,
           \A s \in Specs : floor'[s] <= floor[s],
           \A i \in pass'.old \cup pass'.excess : i \in Nat /\ Dispensable(i)
    PROVE  DrainInv'
<1>1. Grows
  <2>1. Len(log) \in Nat
    BY DEF SchedulerInv, TypeOK
  <2>2. QED
    BY <2>1 DEF Grows
<1>2. TypeOK
  BY DEF SchedulerInv
<1>3. \A i \in pass'.old \cup pass'.excess : Dispensable(i)'
  BY <1>1, <1>2, StaysDispensable
<1>4. ASSUME NEW k \in 1 .. Len(log), log[k].kind = "draining"
      PROVE  Dispensable(log[k].inst)'
  <2>1. log[k] \in Event
    BY <1>2 DEF TypeOK
  <2>2. PICK i : i = log[k].inst
    OBVIOUS
  <2>3. i \in Nat /\ Dispensable(i)
    BY <1>4, <2>1, <2>2 DEF SchedulerInv, DrainInv, Event
  <2>4. Dispensable(i)'
    BY <1>1, <1>2, <2>3, StaysDispensable
  <2>5. log'[k].inst = i
    BY <2>2
  <2>6. QED
    BY <2>2, <2>4
<1>5. QED
  BY <1>3, <1>4 DEF DrainInv

\* The facts of the invariant in the form the steps use.
LEMMA PassFacts ==
    ASSUME SchedulerInv
    PROVE  /\ want \in Specs /\ pass \in Pass /\ pass.spec \in Specs
           /\ pass.replicas \in Nat /\ pass.create \in Nat
           /\ pass.old \in SUBSET Nat /\ pass.excess \in SUBSET Nat
           /\ replicas \in 0 .. MaxReplicas /\ Clamped(replicas) \in 0 .. MaxReplicas
           /\ floor \in [Specs -> 0 .. MaxReplicas]
           /\ \A s \in Specs : floor[s] \in Nat
           /\ \A s \in Specs : Cardinality(Allocated(s)) \in Nat
<1>1. TypeOK
  BY DEF SchedulerInv
<1>2. \A s \in Specs : Cardinality(Allocated(s)) \in Nat
  BY <1>1, AllocatedFinite
<1>3. /\ want \in Specs /\ pass \in Pass /\ replicas \in 0 .. MaxReplicas
      /\ floor \in [Specs -> 0 .. MaxReplicas]
  BY <1>1 DEF TypeOK
<1>4. \A s \in Specs : floor[s] \in Nat
  BY <1>3, SchedulerAssumption
<1>5. QED
  BY <1>2, <1>3, <1>4, ClampedRange DEF Pass

\* A pass that ends or is abandoned leaves nothing behind that could be wrong.
LEMMA PassDropped ==
    ASSUME SchedulerInv, TypeOK', pass' = IdlePass(pass.spec),
           UNCHANGED <<want, replicas, log, floor, stale>>
    PROVE  SchedulerInv'
<1>1. /\ pass'.phase = "idle" /\ pass'.spec = pass.spec /\ pass'.replicas = 0
      /\ pass'.create = 0 /\ pass'.old = {} /\ pass'.excess = {}
  BY PassFacts, IdlePassType
<1>2. DrainInv'
  BY <1>1, PassFacts, DrainKept
<1>3. WantInv'
  BY <1>1, SameInstances DEF SchedulerInv, WantInv, Clamped, Lower
<1>4. RoomInv'
  <2>1. 0 <= MaxReplicas
    BY SchedulerAssumption
  <2>2. ASSUME ~stale, NEW s \in Specs
        PROVE  Cardinality(Allocated(s)) <= MaxReplicas
    <3>1. /\ Cardinality(Allocated(s)) + (IF s = pass.spec THEN pass.create ELSE 0) <= MaxReplicas
          /\ pass.create \in Nat /\ Cardinality(Allocated(s)) \in Nat
      BY <2>2, PassFacts DEF SchedulerInv, RoomInv
    <3>2. QED
      BY <3>1, SchedulerAssumption
  <2>3. \A s \in Specs : Cardinality(Allocated(s)) + 0 = Cardinality(Allocated(s))
    BY PassFacts
  <2>4. QED
    BY <1>1, <2>1, <2>2, <2>3, SameInstances DEF RoomInv
<1>5. QED
  BY <1>2, <1>3, <1>4 DEF SchedulerInv

\* get_all_groups: the pass takes over the wanted spec.
LEMMA GetGroupKeeps ==
    ASSUME SchedulerInv, TypeOK', GetGroup
    PROVE  SchedulerInv'
<1>1. /\ pass'.phase = "group" /\ pass'.spec = want /\ pass'.replicas = Clamped(replicas)
      /\ pass'.create = 0 /\ pass'.old = {} /\ pass'.excess = {}
  BY DEF GetGroup, IdlePass
<1>2. UNCHANGED <<want, replicas, log, floor, stale>>
  BY DEF GetGroup
<1>3. DrainInv'
  BY <1>1, <1>2, PassFacts, DrainKept
<1>4. WantInv'
  <2>1. Clamped(replicas)' = Clamped(replicas)
    BY <1>2 DEF Clamped, Lower
  <2>2. ASSUME NEW s \in Specs, Allocated(s) # {}, s # want
        PROVE  floor[s] = 0
    BY <2>2 DEF SchedulerInv, WantInv
  <2>3. QED
    BY <1>1, <1>2, <2>1, <2>2, SameInstances DEF SchedulerInv, WantInv
<1>5. RoomInv'
  <2>1. Clamped(replicas) <= MaxReplicas
    BY PassFacts
  <2>2. ASSUME ~stale, NEW s \in Specs
        PROVE  Cardinality(Allocated(s)) <= MaxReplicas
    <3>1. /\ Cardinality(Allocated(s)) + (IF s = pass.spec THEN pass.create ELSE 0) <= MaxReplicas
          /\ pass.create \in Nat /\ Cardinality(Allocated(s)) \in Nat
      BY <2>2, PassFacts DEF SchedulerInv, RoomInv
    <3>2. QED
      BY <3>1, SchedulerAssumption
  <2>3. \A s \in Specs : Cardinality(Allocated(s)) + 0 = Cardinality(Allocated(s))
    BY PassFacts
  <2>4. QED
    BY <1>1, <1>2, <2>1, <2>2, <2>3, SameInstances DEF RoomInv
<1>6. QED
  BY <1>3, <1>4, <1>5 DEF SchedulerInv

\* reconcile_group: what the pass decides to drain may go, however old its view is, and
\* over an up to date view it allocates no more than is missing.
LEMMA GetInstancesKeeps ==
    ASSUME SchedulerInv, TypeOK', GetInstances
    PROVE  SchedulerInv'
<1>1. PICK s, n, m, o, x :
        /\ s = pass.spec /\ n = pass.replicas /\ m = Missing(Matching(s), n)
        /\ o = Drainable(Old(s)) /\ x = Surplus(Matching(s), n)
  OBVIOUS
<1>2. /\ pass.phase = "group"
      /\ pass' = [pass EXCEPT !.phase = "work", !.create = m, !.old = o, !.excess = x]
      /\ stale' = (stale \/ applied < Len(log))
      /\ UNCHANGED <<want, replicas, changes, log, applied, failures, floor>>
  BY <1>1 DEF GetInstances
<1>3. /\ pass'.phase = "work" /\ pass'.spec = s /\ pass'.replicas = n
      /\ pass'.create = m /\ pass'.old = o /\ pass'.excess = x
  BY <1>1, <1>2, PassFacts DEF Pass
<1>4. s \in Specs /\ n \in Nat /\ floor[s] <= n /\ TypeOK /\ applied \in 0 .. Len(log)
  BY <1>1, <1>2, PassFacts DEF SchedulerInv, WantInv, TypeOK
<1>5. ASSUME NEW i \in o PROVE i \in Nat /\ Dispensable(i)
  <2>1. PICK t \in Specs \ {s} : i \in AllocatedIn(applied, t)
    BY <1>1, <1>5 DEF Drainable, Old
  <2>2. i \in Allocated(t) /\ i \in Nat
    BY <1>4, <2>1, InstancesFinite
  <2>3. floor[t] = 0
    BY <1>1, <2>1, <2>2 DEF SchedulerInv, WantInv
  <2>4. i \in 1 .. Len(log) /\ log[i].kind = "allocated" /\ log[i].spec = t
    BY <2>2 DEF Allocated, AllocatedIn
  <2>5. Cardinality(Later(i)) \in Nat
    BY <1>4, <2>1, <2>4, AllocatedFinite, SubsetCounts DEF Later
  <2>6. QED
    BY <2>2, <2>3, <2>4, <2>5 DEF Dispensable
<1>6. ASSUME NEW i \in x PROVE i \in Nat /\ Dispensable(i)
  <2>1. PICK M : M = Matching(s)
    OBVIOUS
  <2>2. M \subseteq Allocated(s) /\ M \in SUBSET Nat /\ IsFiniteSet(M)
    BY <1>4, <2>1, InstancesFinite DEF Matching
  <2>3. i \in Oldest(M, Cardinality(M) - n)
    BY <1>1, <1>6, <2>1 DEF Surplus, Drainable
  <2>4. i \in M /\ Cardinality({j \in M : j > i}) >= n
    BY <1>4, <2>2, <2>3, SurplusLeavesEnough
  <2>5. i \in 1 .. Len(log) /\ log[i].kind = "allocated" /\ log[i].spec = s
    BY <2>2, <2>4 DEF Allocated, AllocatedIn
  <2>6. PICK L, K : L = Later(i) /\ K = {j \in M : j > i}
    OBVIOUS
  <2>7. K \subseteq L
    BY <2>2, <2>5, <2>6 DEF Later
  <2>8. IsFiniteSet(L)
    <3>1. L \subseteq Allocated(s)
      BY <2>5, <2>6 DEF Later
    <3>2. IsFiniteSet(Allocated(s))
      BY <1>4, AllocatedFinite
    <3>3. QED
      BY <3>1, <3>2, SubsetCounts
  <2>9. Cardinality(K) <= Cardinality(L) /\ Cardinality(K) \in Nat /\ Cardinality(L) \in Nat
    BY <2>7, <2>8, SubsetCounts
  <2>10. floor[s] <= Cardinality(L)
    <3>1. floor[s] \in Nat /\ Cardinality(K) >= n
      BY <1>4, <2>4, <2>6, PassFacts
    <3>2. QED
      BY <1>4, <2>9, <3>1
  <2>11. QED
    BY <2>2, <2>4, <2>5, <2>6, <2>10, <2>9, <1>4, PassFacts DEF Dispensable
<1>7. DrainInv'
  <2>1. \A t \in Specs : floor'[t] <= floor[t]
    BY <1>2, PassFacts
  <2>2. \A i \in pass'.old \cup pass'.excess : i \in Nat /\ Dispensable(i)
    BY <1>3, <1>5, <1>6
  <2>3. QED
    BY <1>2, <2>1, <2>2, DrainKept
<1>8. WantInv'
  <2>1. Clamped(replicas)' = Clamped(replicas)
    BY <1>2 DEF Clamped, Lower
  <2>2. QED
    BY <1>1, <1>2, <1>3, <1>4, <2>1, SameInstances DEF SchedulerInv, WantInv
<1>9. RoomInv'
  <2>1. n <= MaxReplicas
    BY <1>1 DEF SchedulerInv, RoomInv
  <2>2. ASSUME ~stale', NEW t \in Specs
        PROVE  Cardinality(Allocated(t)) + (IF t = s THEN m ELSE 0) <= MaxReplicas
    <3>1. ~stale /\ ~(applied < Len(log))
      BY <1>2, <2>2
    <3>2. applied = Len(log)
      <4>1. Len(log) \in Nat /\ applied \in 0 .. Len(log)
        BY <1>4 DEF TypeOK
      <4>2. QED
        BY <3>1, <4>1
    <3>3. m = Missing(Allocated(s), n)
      BY <1>1, <3>2 DEF Matching, Allocated
    <3>4. Cardinality(Allocated(t)) <= MaxReplicas /\ Cardinality(Allocated(t)) \in Nat
      <4>1. /\ Cardinality(Allocated(t)) + (IF t = pass.spec THEN pass.create ELSE 0) <= MaxReplicas
            /\ pass.create \in Nat /\ Cardinality(Allocated(t)) \in Nat
        BY <3>1, PassFacts DEF SchedulerInv, RoomInv
      <4>2. QED
        BY <4>1, SchedulerAssumption
    <3>5. CASE t = s
      BY <1>4, <2>1, <3>3, <3>4, <3>5, SchedulerAssumption DEF Missing
    <3>6. CASE t # s
      BY <3>4, <3>6
    <3>7. QED
      BY <3>5, <3>6
  <2>3. QED
    BY <1>2, <1>3, <2>1, <2>2, SameInstances DEF RoomInv
<1>10. QED
  BY <1>7, <1>8, <1>9 DEF SchedulerInv

\* An item of the pass is done with, or has failed: nothing is added to its lists.
LEMMA PassShrinks ==
    ASSUME SchedulerInv, TypeOK',
           pass.phase = "work", pass'.phase = "work",
           pass'.spec = pass.spec, pass'.replicas = pass.replicas,
           pass'.create <= pass.create,
           pass'.old \subseteq pass.old, pass'.excess \subseteq pass.excess,
           UNCHANGED <<want, replicas, log, floor, stale>>
    PROVE  SchedulerInv'
<1>1. DrainInv'
  <2>1. \A t \in Specs : floor'[t] <= floor[t]
    BY PassFacts
  <2>2. \A i \in pass'.old \cup pass'.excess : i \in Nat /\ Dispensable(i)
    BY PassFacts DEF SchedulerInv, DrainInv
  <2>3. QED
    BY <2>1, <2>2, DrainKept
<1>2. WantInv'
  <2>1. Clamped(replicas)' = Clamped(replicas)
    BY DEF Clamped, Lower
  <2>2. QED
    BY <2>1, SameInstances DEF SchedulerInv, WantInv
<1>3. RoomInv'
  <2>1. pass'.create \in Nat
    BY DEF TypeOK, Pass
  <2>2. ASSUME ~stale, NEW t \in Specs
        PROVE  Cardinality(Allocated(t)) + (IF t = pass.spec THEN pass'.create ELSE 0) <= MaxReplicas
    <3>1. /\ Cardinality(Allocated(t)) + (IF t = pass.spec THEN pass.create ELSE 0) <= MaxReplicas
          /\ pass.create \in Nat /\ Cardinality(Allocated(t)) \in Nat
      BY <2>2, PassFacts DEF SchedulerInv, RoomInv
    <3>2. QED
      BY <2>1, <3>1, SchedulerAssumption
  <2>3. QED
    BY <2>2, SameInstances DEF SchedulerInv, RoomInv
<1>4. QED
  BY <1>1, <1>2, <1>3 DEF SchedulerInv

\* A new spec is wanted: the floor of the one it replaces is gone.
LEMMA DeployKeeps ==
    ASSUME SchedulerInv, TypeOK', NEW s \in Specs, DeploySpec(s),
           \A t \in Specs : floor'[t] <= floor[t]
    PROVE  SchedulerInv'
<1>1. /\ s # want /\ want' = s
      /\ floor' = [floor EXCEPT ![want] = 0, ![s] = Lower(floor[s], Clamped(replicas))]
      /\ UNCHANGED <<replicas, log, applied, pass, failures, stale>>
  BY PassFacts DEF DeploySpec
<1>2. /\ floor'[want] = 0 /\ floor'[s] <= Clamped(replicas)
      /\ \A t \in Specs : floor[t] = 0 => floor'[t] = 0
  <2>1. floor[s] \in 0 .. MaxReplicas /\ Clamped(replicas) \in 0 .. MaxReplicas
    BY PassFacts
  <2>2. /\ Lower(floor[s], Clamped(replicas)) <= Clamped(replicas)
        /\ Lower(floor[s], Clamped(replicas)) \in 0 .. MaxReplicas
    BY <2>1, LowerRange
  <2>3. floor'[want] = 0 /\ floor'[s] <= Clamped(replicas)
    BY <1>1, <2>2, PassFacts
  <2>4. \A t \in Specs : floor'[t] \in Nat
    BY SchedulerAssumption DEF TypeOK
  <2>5. \A t \in Specs : floor[t] = 0 => floor'[t] = 0
    BY <2>4, PassFacts
  <2>6. QED
    BY <2>3, <2>5
<1>3. DrainInv'
  BY <1>1, PassFacts, DrainKept DEF SchedulerInv, DrainInv
<1>4. WantInv'
  <2>1. Clamped(replicas)' = Clamped(replicas)
    BY <1>1 DEF Clamped, Lower
  <2>2. pass.spec # s => floor'[pass.spec] = 0
    BY <1>2, PassFacts DEF SchedulerInv, WantInv
  <2>3. \A t \in Specs : Allocated(t) # {} /\ t # pass.spec => floor'[t] = 0
    BY <1>2 DEF SchedulerInv, WantInv
  <2>4. pass.phase # "idle" => floor'[pass.spec] <= pass.replicas
    <3>0. \A t \in Specs : floor'[t] \in Nat
      BY SchedulerAssumption DEF TypeOK
    <3>1. /\ floor'[pass.spec] <= floor[pass.spec]
          /\ floor'[pass.spec] \in Nat /\ floor[pass.spec] \in Nat /\ pass.replicas \in Nat
      BY <3>0, PassFacts
    <3>2. pass.phase # "idle" => floor[pass.spec] <= pass.replicas
      BY DEF SchedulerInv, WantInv
    <3>3. QED
      BY <3>1, <3>2
  <2>5. QED
    BY <1>1, <1>2, <2>1, <2>2, <2>3, <2>4, SameInstances DEF WantInv
<1>5. RoomInv'
  BY <1>1, SameInstances DEF SchedulerInv, RoomInv
<1>6. QED
  BY <1>3, <1>4, <1>5 DEF SchedulerInv

\* The wanted spec is scaled: its floor follows downwards.
LEMMA ScaleKeeps ==
    ASSUME SchedulerInv, TypeOK', NEW n \in 0 .. MaxReplicas, ScaleTo(n),
           \A t \in Specs : floor'[t] <= floor[t]
    PROVE  SchedulerInv'
<1>1. /\ replicas' = n
      /\ floor' = [floor EXCEPT ![want] = Lower(floor[want], Clamped(n))]
      /\ UNCHANGED <<want, log, applied, pass, failures, stale>>
  BY DEF ScaleTo
<1>2. /\ floor'[want] <= Clamped(n)
      /\ \A t \in Specs : floor[t] = 0 => floor'[t] = 0
  <2>1. floor[want] \in 0 .. MaxReplicas /\ Clamped(n) \in 0 .. MaxReplicas
    BY PassFacts, ClampedRange
  <2>2. Lower(floor[want], Clamped(n)) <= Clamped(n)
    BY <2>1, LowerRange
  <2>3. floor'[want] <= Clamped(n)
    BY <1>1, <2>2, PassFacts
  <2>4. \A t \in Specs : floor'[t] \in Nat
    BY SchedulerAssumption DEF TypeOK
  <2>5. \A t \in Specs : floor[t] = 0 => floor'[t] = 0
    BY <2>4, PassFacts
  <2>6. QED
    BY <2>3, <2>5
<1>3. DrainInv'
  BY <1>1, PassFacts, DrainKept DEF SchedulerInv, DrainInv
<1>4. WantInv'
  <2>1. Clamped(replicas)' = Clamped(n)
    BY <1>1 DEF Clamped, Lower
  <2>2. pass.spec # want => floor'[pass.spec] = 0
    BY <1>2, PassFacts DEF SchedulerInv, WantInv
  <2>3. \A t \in Specs : Allocated(t) # {} /\ t # pass.spec => floor'[t] = 0
    BY <1>2 DEF SchedulerInv, WantInv
  <2>4. pass.phase # "idle" => floor'[pass.spec] <= pass.replicas
    <3>0. \A t \in Specs : floor'[t] \in Nat
      BY SchedulerAssumption DEF TypeOK
    <3>1. /\ floor'[pass.spec] <= floor[pass.spec]
          /\ floor'[pass.spec] \in Nat /\ floor[pass.spec] \in Nat /\ pass.replicas \in Nat
      BY <3>0, PassFacts
    <3>2. pass.phase # "idle" => floor[pass.spec] <= pass.replicas
      BY DEF SchedulerInv, WantInv
    <3>3. QED
      BY <3>1, <3>2
  <2>5. QED
    BY <1>1, <1>2, <2>1, <2>2, <2>3, <2>4, SameInstances DEF WantInv
<1>5. RoomInv'
  BY <1>1, SameInstances DEF SchedulerInv, RoomInv
<1>6. QED
  BY <1>3, <1>4, <1>5 DEF SchedulerInv

\* A pass changes the events by allocating and draining alone.
LEMMA QuietKeeps ==
    ASSUME SchedulerInv, QuietStep
    PROVE  SchedulerInv'
<1>1. /\ TypeOK' /\ log' = log /\ pass \in Pass
      /\ \A s \in Specs : floor'[s] <= floor[s]
  BY TypeQuiet, PassFacts DEF SchedulerInv
<1>2. CASE GetGroup
  BY <1>1, <1>2, GetGroupKeeps
<1>3. CASE GetInstances
  BY <1>1, <1>3, GetInstancesKeeps
<1>4. CASE AllocateFails
  <2>1. /\ pass.phase = "work" /\ pass' = [pass EXCEPT !.create = pass.create - 1]
        /\ UNCHANGED <<want, replicas, log, floor, stale>>
    BY <1>4 DEF AllocateFails
  <2>2. /\ pass'.phase = "work" /\ pass'.spec = pass.spec /\ pass'.replicas = pass.replicas
        /\ pass'.create = pass.create - 1
        /\ pass'.old = pass.old /\ pass'.excess = pass.excess
    BY <1>1, <2>1 DEF Pass
  <2>3. pass'.create <= pass.create
    BY <2>2, PassFacts
  <2>4. QED
    BY <1>1, <2>1, <2>2, <2>3, PassShrinks
<1>5. CASE EndPass
  BY <1>1, <1>5, PassDropped DEF EndPass
<1>6. CASE AbandonPass
  BY <1>1, <1>6, PassDropped DEF AbandonPass
<1>7. CASE Project
  <2>1. UNCHANGED <<want, replicas, log, pass, floor, stale>>
    BY <1>7 DEF Project
  <2>2. DrainInv'
    BY <1>1, <2>1, PassFacts, DrainKept DEF SchedulerInv, DrainInv
  <2>3. WantInv' /\ RoomInv'
    BY <2>1, SameInstances DEF SchedulerInv, WantInv, RoomInv, Clamped, Lower
  <2>4. QED
    BY <1>1, <2>2, <2>3 DEF SchedulerInv
<1>8. ASSUME NEW i \in pass.old \cup pass.excess, DrainFails(i)
      PROVE  SchedulerInv'
  <2>1. /\ pass.phase = "work"
        /\ pass' = [pass EXCEPT !.old = pass.old \ {i}, !.excess = pass.excess \ {i}]
        /\ UNCHANGED <<want, replicas, log, floor, stale>>
    BY <1>8 DEF DrainFails, NextToDrain, Handled
  <2>2. /\ pass'.phase = "work" /\ pass'.spec = pass.spec /\ pass'.replicas = pass.replicas
        /\ pass'.create = pass.create
        /\ pass'.old = pass.old \ {i} /\ pass'.excess = pass.excess \ {i}
    BY <1>1, <2>1 DEF Pass
  <2>3. pass'.create <= pass.create
    BY <2>2, PassFacts
  <2>4. QED
    BY <1>1, <2>1, <2>2, <2>3, PassShrinks
<1>9. ASSUME NEW s \in Specs, DeploySpec(s)
      PROVE  SchedulerInv'
  BY <1>1, <1>9, DeployKeeps
<1>10. ASSUME NEW n \in 0 .. MaxReplicas, ScaleTo(n)
       PROVE  SchedulerInv'
  BY <1>1, <1>10, ScaleKeeps
<1>11. QED
  BY <1>2, <1>3, <1>4, <1>5, <1>6, <1>7, <1>8, <1>9, <1>10 DEF QuietStep

----------------------------------------------------------------------------
\* The steps that append an event.

\* What an appended event does to the instances of a spec.
LEMMA AppendInstances ==
    ASSUME TypeOK, NEW ev \in Event, log' = Append(log, ev), NEW s \in Specs
    PROVE  /\ ev.kind = "allocated" /\ ev.spec = s =>
                /\ Allocated(s)' = Allocated(s) \cup {Len(log) + 1}
                /\ Cardinality(Allocated(s)') = Cardinality(Allocated(s)) + 1
           /\ ev.kind # "allocated" \/ ev.spec # s => Allocated(s)' = Allocated(s)
<1>1. Len(log) \in Nat
  BY DEF TypeOK
<1>2. PICK l, n : l = log' /\ n = Len(log)
  OBVIOUS
<1>3. /\ Len(l) = n + 1 /\ n \in Nat
      /\ \A i \in 1 .. n : l[i] = log[i]
      /\ l[n + 1] = ev
  BY <1>1, <1>2, AppendType
<1>4. Allocated(s)' = {i \in 1 .. n + 1 : l[i].kind = "allocated" /\ l[i].spec = s}
  BY <1>2, <1>3 DEF Allocated, AllocatedIn
<1>5. Allocated(s) = {i \in 1 .. n : l[i].kind = "allocated" /\ l[i].spec = s}
  BY <1>2, <1>3 DEF Allocated, AllocatedIn
<1>6. 1 .. n + 1 = (1 .. n) \cup {n + 1}
  BY <1>3
<1>7. /\ ev.kind = "allocated" /\ ev.spec = s => Allocated(s)' = Allocated(s) \cup {n + 1}
      /\ ev.kind # "allocated" \/ ev.spec # s => Allocated(s)' = Allocated(s)
  BY <1>3, <1>4, <1>5, <1>6
<1>8. n + 1 \notin Allocated(s)
  BY <1>3, <1>5
<1>9. Cardinality(Allocated(s) \cup {n + 1}) = Cardinality(Allocated(s)) + 1
  BY <1>8, AllocatedFinite, FS_AddElement
<1>10. QED
  BY <1>2, <1>7, <1>9

\* After an append what was drained, or listed to be, may still go; the new event has to
\* be argued for when it is a drain.
LEMMA DrainAppended ==
    ASSUME SchedulerInv, TypeOK', NEW ev \in Event, log' = Append(log, ev), floor' = floor,
           pass'.old \subseteq pass.old, pass'.excess \subseteq pass.excess,
           ev.kind = "draining" => Dispensable(ev.inst)
    PROVE  DrainInv'
<1>1. TypeOK /\ Len(log) \in Nat
  BY DEF SchedulerInv, TypeOK
<1>2. PICK l, n : l = log' /\ n = Len(log)
  OBVIOUS
<1>3. /\ Len(l) = n + 1 /\ n \in Nat
      /\ \A i \in 1 .. n : l[i] = log[i]
      /\ l[n + 1] = ev
  BY <1>1, <1>2, AppendType
<1>4. Grows
  <2>1. Len(log)' = n + 1 /\ n <= n + 1
    BY <1>2, <1>3
  <2>2. \A s \in Specs : floor'[s] <= floor[s]
    BY PassFacts
  <2>3. QED
    BY <1>2, <1>3, <2>1, <2>2 DEF Grows
<1>5. \A i \in Nat : Dispensable(i) => Dispensable(i)'
  BY <1>1, <1>4, StaysDispensable
<1>6. \A i \in pass'.old \cup pass'.excess : Dispensable(i)'
  BY <1>5, PassFacts DEF SchedulerInv, DrainInv
<1>7. ASSUME NEW k \in 1 .. n + 1, l[k].kind = "draining"
      PROVE  Dispensable(l[k].inst)'
  <2>1. CASE k = n + 1
    <3>1. PICK i : i = ev.inst
      OBVIOUS
    <3>2. i \in Nat /\ Dispensable(i)
      BY <1>3, <1>7, <2>1, <3>1 DEF Event
    <3>3. Dispensable(i)'
      BY <1>5, <3>2
    <3>4. i = l[k].inst
      BY <1>3, <2>1, <3>1
    <3>5. QED
      BY <3>3, <3>4
  <2>2. CASE k \in 1 .. n
    <3>1. PICK i : i = log[k].inst
      OBVIOUS
    <3>2. log[k] \in Event
      BY <1>1, <1>2, <2>2, SMTT(30) DEF TypeOK
    <3>3. i \in Nat /\ Dispensable(i)
      BY <1>2, <1>3, <1>7, <2>2, <3>1, <3>2 DEF SchedulerInv, DrainInv, Event
    <3>4. Dispensable(i)'
      BY <1>5, <3>3
    <3>5. i = l[k].inst
      BY <1>3, <2>2, <3>1
    <3>6. QED
      BY <3>4, <3>5
  <2>3. QED
    BY <1>3, <2>1, <2>2
<1>8. QED
  BY <1>2, <1>3, <1>6, <1>7 DEF DrainInv

\* allocate_instance takes one of the places the pass has counted.
LEMMA AllocateKeeps ==
    ASSUME SchedulerInv, AllocateInstance
    PROVE  SchedulerInv'
<1>1. PICK ev, s : /\ ev = [kind |-> "allocated", inst |-> Len(log) + 1, spec |-> pass.spec]
                   /\ s = pass.spec
  OBVIOUS
<1>2. /\ pass.phase = "work" /\ pass.create > 0 /\ log' = Append(log, ev)
      /\ pass' = [pass EXCEPT !.create = pass.create - 1]
      /\ UNCHANGED <<want, replicas, changes, applied, failures, floor, stale>>
  BY <1>1 DEF AllocateInstance, Append1
<1>3. TypeOK /\ Len(log) \in Nat /\ s \in Specs
  BY <1>1, PassFacts DEF SchedulerInv, TypeOK
<1>4. ev \in Event /\ ev.kind = "allocated" /\ ev.spec = s
  BY <1>1, <1>3 DEF Event
<1>5. /\ pass'.phase = "work" /\ pass'.spec = s /\ pass'.replicas = pass.replicas
      /\ pass'.create = pass.create - 1 /\ pass.create - 1 \in Nat
      /\ pass'.old = pass.old /\ pass'.excess = pass.excess /\ pass' \in Pass
  <2>1. pass.create - 1 \in Nat
    BY <1>2, PassFacts
  <2>2. QED
    BY <1>1, <1>2, <2>1, PassFacts DEF Pass
<1>6. TypeOK'
  <2>1. log' \in Seq(Event) /\ applied \in 0 .. Len(log')
    BY <1>2, <1>3, <1>4, AppendType
  <2>2. QED
    BY <1>2, <1>3, <1>5, <2>1 DEF TypeOK
<1>7. DrainInv'
  BY <1>2, <1>4, <1>5, <1>6, DrainAppended
<1>8. \A t \in Specs : t # s => Allocated(t)' = Allocated(t)
  BY <1>2, <1>3, <1>4, AppendInstances
<1>9. WantInv'
  <2>1. Clamped(replicas)' = Clamped(replicas)
    BY <1>2 DEF Clamped, Lower
  <2>2. QED
    BY <1>1, <1>2, <1>5, <1>8, <2>1 DEF SchedulerInv, WantInv
<1>10. RoomInv'
  <2>1. PICK c : c = pass.create
    OBVIOUS
  <2>2. ASSUME ~stale, NEW t \in Specs
        PROVE  Cardinality(Allocated(t)') + (IF t = s THEN c - 1 ELSE 0) <= MaxReplicas
    <3>1. Cardinality(Allocated(t)) + (IF t = s THEN c ELSE 0) <= MaxReplicas
      BY <1>1, <2>1, <2>2 DEF SchedulerInv, RoomInv
    <3>2. Cardinality(Allocated(t)) \in Nat /\ c \in Nat
      BY <2>1, PassFacts
    <3>3. CASE t = s
      <4>1. Cardinality(Allocated(t)') = Cardinality(Allocated(t)) + 1
        BY <1>2, <1>3, <1>4, <3>3, AppendInstances
      <4>2. QED
        BY <3>1, <3>2, <3>3, <4>1, SchedulerAssumption
    <3>4. CASE t # s
      BY <1>8, <3>1, <3>4
    <3>5. QED
      BY <3>3, <3>4
  <2>3. QED
    BY <1>2, <1>5, <2>1, <2>2 DEF SchedulerInv, RoomInv
<1>11. QED
  BY <1>6, <1>7, <1>9, <1>10 DEF SchedulerInv

\* drain_instance drains an instance of the list, and adds no instance to any spec.
LEMMA DrainInstanceKeeps ==
    ASSUME SchedulerInv, NEW i \in pass.old \cup pass.excess, DrainInstance(i)
    PROVE  SchedulerInv'
<1>1. PICK ev : ev = [kind |-> "draining", inst |-> i, spec |-> log[i].spec]
  OBVIOUS
<1>2. /\ pass.phase = "work" /\ log' = Append(log, ev)
      /\ pass' = [pass EXCEPT !.old = pass.old \ {i}, !.excess = pass.excess \ {i}]
      /\ UNCHANGED <<want, replicas, changes, applied, failures, floor, stale>>
  BY <1>1 DEF DrainInstance, NextToDrain, Handled, Append1
<1>3. TypeOK /\ log \in Seq(Event) /\ i \in Nat /\ Dispensable(i)
  BY PassFacts DEF SchedulerInv, DrainInv, TypeOK
<1>4. ev \in Event /\ ev.kind = "draining" /\ ev.inst = i
  <2>1. log[i] \in Event
    BY <1>3 DEF Dispensable
  <2>2. QED
    BY <1>1, <1>3, <2>1 DEF Event
<1>5. /\ pass'.phase = "work" /\ pass'.spec = pass.spec /\ pass'.replicas = pass.replicas
      /\ pass'.create = pass.create /\ pass' \in Pass
      /\ pass'.old = pass.old \ {i} /\ pass'.excess = pass.excess \ {i}
  BY <1>2, PassFacts DEF Pass
<1>6. TypeOK'
  <2>1. log' \in Seq(Event) /\ applied \in 0 .. Len(log')
    BY <1>2, <1>3, <1>4, AppendType
  <2>2. QED
    BY <1>2, <1>3, <1>5, <2>1 DEF TypeOK
<1>7. DrainInv'
  BY <1>2, <1>3, <1>4, <1>5, <1>6, DrainAppended
<1>8. \A t \in Specs : Allocated(t)' = Allocated(t)
  BY <1>2, <1>3, <1>4, AppendInstances
<1>9. WantInv'
  <2>1. Clamped(replicas)' = Clamped(replicas)
    BY <1>2 DEF Clamped, Lower
  <2>2. QED
    BY <1>2, <1>5, <1>8, <2>1 DEF SchedulerInv, WantInv
<1>10. RoomInv'
  BY <1>2, <1>5, <1>8 DEF SchedulerInv, RoomInv
<1>11. QED
  BY <1>6, <1>7, <1>9, <1>10 DEF SchedulerInv

----------------------------------------------------------------------------
\* The theorems.

LEMMA InvariantInit == Init => SchedulerInv
<1>1. SUFFICES ASSUME Init PROVE SchedulerInv
  OBVIOUS
<1>2. TypeOK
  BY <1>1, TypeInit
<1>3. /\ log = <<>> /\ want \in Specs /\ replicas \in 0 .. MaxReplicas
      /\ floor = [s \in Specs |-> IF s = want THEN Clamped(replicas) ELSE MaxReplicas]
  BY <1>1 DEF Init
<1>4. /\ pass.phase = "idle" /\ pass.spec = want /\ pass.replicas = 0
      /\ pass.create = 0 /\ pass.old = {} /\ pass.excess = {}
  BY <1>1, <1>3, IdlePassType DEF Init
<1>5. 1 .. Len(log) = {} /\ \A s \in Specs : Allocated(s) = {}
  BY <1>3 DEF Allocated, AllocatedIn
<1>6. DrainInv
  BY <1>4, <1>5 DEF DrainInv
<1>7. WantInv
  <2>1. floor[want] = Clamped(replicas) /\ Clamped(replicas) \in 0 .. MaxReplicas
    BY <1>3, ClampedRange
  <2>2. floor[want] <= Clamped(replicas)
    BY <2>1, SchedulerAssumption
  <2>3. QED
    BY <1>4, <1>5, <2>2 DEF WantInv
<1>8. RoomInv
  <2>1. \A s \in Specs : Cardinality(Allocated(s)) = 0
    BY <1>5, FS_EmptySet
  <2>2. QED
    BY <1>4, <2>1, SchedulerAssumption DEF RoomInv
<1>9. QED
  BY <1>2, <1>6, <1>7, <1>8 DEF SchedulerInv

LEMMA InvariantStep == SchedulerInv /\ [Next]_vars => SchedulerInv'
<1>1. SUFFICES ASSUME SchedulerInv, [Next]_vars PROVE SchedulerInv'
  OBVIOUS
<1>2. CASE UNCHANGED vars
  <2>1. UNCHANGED <<want, replicas, changes, log, applied, pass, failures, floor, stale>>
    BY <1>2 DEF vars
  <2>2. TypeOK'
    BY <1>1, <2>1 DEF SchedulerInv, TypeOK
  <2>3. DrainInv'
    BY <1>1, <2>1, <2>2, PassFacts, DrainKept DEF SchedulerInv, DrainInv
  <2>4. WantInv' /\ RoomInv'
    BY <1>1, <2>1, SameInstances DEF SchedulerInv, WantInv, RoomInv, Clamped, Lower
  <2>5. QED
    BY <2>2, <2>3, <2>4 DEF SchedulerInv
<1>3. CASE Next
  <2>1. CASE QuietStep
    BY <1>1, <2>1, QuietKeeps
  <2>2. CASE AllocateInstance
    BY <1>1, <2>2, AllocateKeeps
  <2>3. CASE \E i \in pass.old \cup pass.excess : DrainInstance(i)
    BY <1>1, <2>3, DrainInstanceKeeps
  <2>4. QED
    BY <1>3, <2>1, <2>2, <2>3 DEF Next, Reconcile, QuietStep
<1>4. QED
  BY <1>1, <1>2, <1>3

\* Every drained instance, and every one a pass is about to drain, is dispensable; the
\* floors follow what is wanted; and a pass over an up to date view never overbooks.
THEOREM SchedulerInvariant == Spec => []SchedulerInv
  BY InvariantInit, InvariantStep, PTL DEF Spec

\* The variables of the scheduler keep their types.
THEOREM SchedulerTypeCorrect == Spec => []TypeOK
<1>1. SchedulerInv => TypeOK
  BY DEF SchedulerInv
<1>2. QED
  BY <1>1, SchedulerInvariant, PTL

\* The last instance drained of a spec has its floor's worth of instances after it, and
\* those are all alive.
LEMMA FloorKept == SchedulerInv => NeverBelowFloor
<1>1. SUFFICES ASSUME SchedulerInv, NEW s \in Specs,
                      Cardinality(Allocated(s)) >= floor[s]
               PROVE  Cardinality(Live(s)) >= floor[s]
  BY DEF NeverBelowFloor
<1>2. TypeOK /\ Len(log) \in Nat /\ floor[s] \in Nat
  BY <1>1, PassFacts DEF SchedulerInv, TypeOK
<1>3. PICK D : D = Allocated(s) \cap DrainedIn(Len(log))
  OBVIOUS
<1>4. CASE D = {}
  <2>1. Live(s) = Allocated(s)
    BY <1>3, <1>4 DEF Live
  <2>2. QED
    BY <1>1, <2>1
<1>5. CASE D # {}
  <2>1. D \in SUBSET (1 .. Len(log))
    BY <1>2, <1>3, AllocatedFinite
  <2>2. PICK m \in D : \A k \in D : k <= m
    BY <1>2, <1>5, <2>1, GreatestPosition
  <2>3. m \in 1 .. Len(log) /\ log[m].kind = "allocated" /\ log[m].spec = s
    BY <1>3, <2>2 DEF Allocated, AllocatedIn
  <2>4. PICK k \in 1 .. Len(log) : log[k].kind = "draining" /\ log[k].inst = m
    BY <1>3, <2>2 DEF DrainedIn
  <2>5. Dispensable(m)
    BY <1>1, <2>4 DEF SchedulerInv, DrainInv
  <2>6. PICK L : L = Later(m)
    OBVIOUS
  <2>7. L \subseteq Live(s)
    <3>1. ASSUME NEW j \in L PROVE j \in Allocated(s) /\ j \notin D
      <4>1. j \in Allocated(s) /\ j > m
        BY <2>3, <2>6, <3>1 DEF Later
      <4>2. j \in Nat /\ m \in Nat
        BY <1>2, <2>3, <4>1, AllocatedFinite
      <4>3. QED
        BY <2>2, <4>1, <4>2
    <3>2. QED
      BY <1>3, <3>1 DEF Live
  <2>8. Cardinality(L) >= floor[s]
    BY <2>3, <2>5, <2>6 DEF Dispensable
  <2>9. IsFiniteSet(Live(s))
    BY <1>2, AllocatedFinite, SubsetCounts DEF Live
  <2>10. /\ Cardinality(L) \in Nat /\ Cardinality(Live(s)) \in Nat
         /\ Cardinality(L) <= Cardinality(Live(s))
    BY <2>7, <2>9, SubsetCounts
  <2>11. QED
    BY <1>2, <2>8, <2>10
<1>6. QED
  BY <1>4, <1>5

LEMMA NoSurplusHolds == SchedulerInv => NoSurplus
<1>1. SUFFICES ASSUME SchedulerInv, ~stale, NEW s \in Specs
               PROVE  Cardinality(Live(s)) <= MaxReplicas
  BY DEF NoSurplus
<1>2. /\ Cardinality(Allocated(s)) + (IF s = pass.spec THEN pass.create ELSE 0) <= MaxReplicas
      /\ pass.create \in Nat /\ Cardinality(Allocated(s)) \in Nat /\ TypeOK
  BY <1>1, PassFacts DEF SchedulerInv, RoomInv
<1>3. Cardinality(Allocated(s)) <= MaxReplicas
  BY <1>2, SchedulerAssumption
<1>4. Live(s) \subseteq Allocated(s) /\ IsFiniteSet(Allocated(s))
  BY <1>2, AllocatedFinite DEF Live
<1>5. Cardinality(Live(s)) <= Cardinality(Allocated(s)) /\ Cardinality(Live(s)) \in Nat
  BY <1>4, SubsetCounts
<1>6. QED
  BY <1>2, <1>3, <1>5, SchedulerAssumption

\* However old the views are that passes read, and whatever fails in between, the scheduler
\* never drains a spec below the fewest replicas it was wanted with; and as long as no pass
\* has read a view behind the log it never runs more of one spec than can be asked for.
THEOREM GroupStaysWithinBounds == Spec => []GroupWithinBounds
<1>1. SchedulerInv => GroupWithinBounds
  BY FloorKept, NoSurplusHolds DEF GroupWithinBounds
<1>2. QED
  BY <1>1, SchedulerInvariant, PTL

=============================================================================
