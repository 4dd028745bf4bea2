------------------------------ MODULE Scheduler ------------------------------
(***************************************************************************)
(* The scheduler (scheduler/worker.rs, reconciler.rs) on one group, an     *)
(* (env, process_type) pair, with the projection "instances" it reads.     *)
(*                                                                         *)
(* A pass reads the group's desired state, then the group's instances from *)
(* instances_desired_view, then appends events one by one.  It never looks *)
(* at the log: an event it appended in one pass is known to the next only  *)
(* if the projection has applied it.                                       *)
(*                                                                         *)
(* An instance is named by the position of its instance.allocated event,   *)
(* so names are ordered as instance ids (ULIDs) and created_at are.  A     *)
(* spec stands for the group's spec_hash.                                  *)
(***************************************************************************)
EXTENDS Integers, Sequences, FiniteSets

CONSTANTS
    Specs,          \* spec hashes: release, secrets version and mounts
    MaxReplicas,    \* largest replica count a client asks for
    HasVolumes,     \* the process type has volumes attached
    MaxChanges,     \* bound: changes of the desired state
    MaxEvents,      \* bound: instance events
    MaxFailures,    \* bound: allocations and drains that fail
    MaxLag          \* bound: events not yet projected when a pass reads the group

ASSUME SchedulerAssumption ==
    /\ MaxReplicas \in Nat
    /\ HasVolumes \in BOOLEAN
    /\ MaxChanges \in Nat /\ MaxEvents \in Nat /\ MaxFailures \in Nat /\ MaxLag \in Nat

VARIABLES
    want,           \* the group's spec, from env_desired_releases_view
    replicas,       \* desired_replicas of its env_scale_view row
    changes,        \* changes of the two so far
    log,            \* the group's instance events
    applied,        \* how many of them instances_desired_view reflects
    pass,           \* the running reconciliation pass
    failures,       \* failed allocations and drains so far
    floor,          \* history: the fewest replicas a spec was ever wanted with, since
                    \* it was first wanted; 0 once another spec replaced it
    stale           \* history: a pass has read a view that was behind the log

vars == <<want, replicas, changes, log, applied, pass, failures, floor, stale>>

Event == [kind : {"allocated", "draining"}, inst : Nat, spec : Specs]

\* What a pass holds: the group as read, the allocations still to make, and the
\* instances still to drain.
Pass == [phase : {"idle", "group", "work"}, spec : Specs, replicas : Nat,
         create : Nat, old : SUBSET Nat, excess : SUBSET Nat]

TypeOK ==
    /\ want \in Specs
    /\ replicas \in 0 .. MaxReplicas
    /\ changes \in 0 .. MaxChanges
    /\ log \in Seq(Event)
    /\ applied \in 0 .. Len(log)
    /\ pass \in Pass
    /\ failures \in 0 .. MaxFailures
    /\ floor \in [Specs -> 0 .. MaxReplicas]
    /\ stale \in BOOLEAN

----------------------------------------------------------------------------
(* The instances of the log and of instances_desired_view.                   *)

\* Instances with an instance.allocated event among the first n, of spec s.
AllocatedIn(n, s) ==
    {i \in 1 .. n : log[i].kind = "allocated" /\ log[i].spec = s}

\* Instances with an instance.desired_state_changed event among the first n.
DrainedIn(n) ==
    {i \in 1 .. n : \E j \in 1 .. n : log[j].kind = "draining" /\ log[j].inst = i}

Allocated(s) == AllocatedIn(Len(log), s)

\* Instances that keep serving: no event drains them.
Live(s) == Allocated(s) \ DrainedIn(Len(log))

\* desired_state != 'stopped' and the group's spec_hash; no code emits 'stopped'.
Matching(s) == AllocatedIn(applied, s)

\* Mutant: instances of other specs are not looked at.
NoOld(s) == {}

Old(s) == UNION {AllocatedIn(applied, t) : t \in Specs \ {s}}

\* drain_instance does nothing for an instance the view already shows as draining.
Drainable(S) == S \ DrainedIn(applied)

\* The n instances of S with the smallest ids.
Oldest(S, n) == {i \in S : Cardinality({j \in S : j < i}) < n}

----------------------------------------------------------------------------

IdlePass(s) ==
    [phase |-> "idle", spec |-> s, replicas |-> 0, create |-> 0, old |-> {}, excess |-> {}]

Lower(m, n) == IF m < n THEN m ELSE n

\* Volume-backed groups are clamped to one replica.
Clamped(n) == IF HasVolumes THEN Lower(n, 1) ELSE n

\* The first deploy of the group is projected.
Init ==
    /\ want \in Specs
    /\ replicas \in 0 .. MaxReplicas
    /\ changes = 0
    /\ log = <<>>
    /\ applied = 0
    /\ pass = IdlePass(want)
    /\ failures = 0
    /\ floor = [s \in Specs |-> IF s = want THEN Clamped(replicas) ELSE MaxReplicas]
    /\ stale = FALSE

\* A deploy, a rollback or a new secrets version is projected.
DeploySpec(s) ==
    /\ changes < MaxChanges
    /\ s # want
    /\ want' = s
    /\ changes' = changes + 1
    /\ floor' = [floor EXCEPT ![want] = 0, ![s] = Lower(@, Clamped(replicas))]
    /\ UNCHANGED <<replicas, log, applied, pass, failures, stale>>

\* env.scale_set is projected; without a row the group has one replica.
ScaleTo(n) ==
    /\ changes < MaxChanges
    /\ n # replicas
    /\ replicas' = n
    /\ changes' = changes + 1
    /\ floor' = [floor EXCEPT ![want] = Lower(@, Clamped(n))]
    /\ UNCHANGED <<want, log, applied, pass, failures, stale>>

\* get_all_groups: the desired state of the group at this moment.
GetGroup ==
    /\ pass.phase = "idle"
    /\ pass' = [IdlePass(want) EXCEPT
                    !.phase = "group",
                    !.replicas = Clamped(replicas)]
    /\ UNCHANGED <<want, replicas, changes, log, applied, failures, floor, stale>>

\* Scale up: how many matching instances to allocate.
Missing(matching, n) ==
    IF Cardinality(matching) < n THEN n - Cardinality(matching) ELSE 0

\* Mutant: the surplus is taken from the instances that are not draining yet.
SurplusRunning(matching, n) ==
    Oldest(Drainable(matching), Cardinality(matching) - n)

\* Scale down: the surplus, oldest first, draining ones included in the count.
Surplus(matching, n) ==
    Drainable(Oldest(matching, Cardinality(matching) - n))

\* get_group_instances and the partition of reconcile_group.
GetInstances ==
    /\ pass.phase = "group"
    /\ Len(log) - applied <= MaxLag
    /\ pass' = [pass EXCEPT
                    !.phase = "work",
                    !.create = Missing(Matching(pass.spec), pass.replicas),
                    !.old = Drainable(Old(pass.spec)),
                    !.excess = Surplus(Matching(pass.spec), pass.replicas)]
    /\ stale' = (stale \/ applied < Len(log))
    /\ UNCHANGED <<want, replicas, changes, log, applied, failures, floor>>

Append1(event) ==
    /\ Len(log) < MaxEvents
    /\ log' = Append(log, event)

\* allocate_instance: a node has room, the event is appended.
AllocateInstance ==
    /\ pass.phase = "work"
    /\ pass.create > 0
    /\ Append1([kind |-> "allocated", inst |-> Len(log) + 1, spec |-> pass.spec])
    /\ pass' = [pass EXCEPT !.create = @ - 1]
    /\ UNCHANGED <<want, replicas, changes, applied, failures, floor, stale>>

\* No eligible node, no address, or the store refuses: the pass goes on.
AllocateFails ==
    /\ pass.phase = "work"
    /\ pass.create > 0
    /\ failures < MaxFailures
    /\ failures' = failures + 1
    /\ pass' = [pass EXCEPT !.create = @ - 1]
    /\ UNCHANGED <<want, replicas, changes, log, applied, floor, stale>>

\* The instance whose turn it is: old ones first, each list in id order.
NextToDrain(i) ==
    /\ pass.phase = "work"
    /\ pass.create = 0
    /\ LET todo == IF pass.old # {} THEN pass.old ELSE pass.excess
       IN  i \in todo /\ \A j \in todo : i <= j

Handled(i) == pass' = [pass EXCEPT !.old = @ \ {i}, !.excess = @ \ {i}]

\* drain_instance: number the event by the log and append it.
DrainInstance(i) ==
    /\ NextToDrain(i)
    /\ Append1([kind |-> "draining", inst |-> i, spec |-> log[i].spec])
    /\ Handled(i)
    /\ UNCHANGED <<want, replicas, changes, applied, failures, floor, stale>>

\* A status report of the instance takes the number first, or a query fails.
DrainFails(i) ==
    /\ NextToDrain(i)
    /\ failures < MaxFailures
    /\ failures' = failures + 1
    /\ Handled(i)
    /\ UNCHANGED <<want, replicas, changes, log, applied, floor, stale>>

\* The pass has nothing left to do for the group.
EndPass ==
    /\ pass.phase = "work"
    /\ pass.create = 0 /\ pass.old = {} /\ pass.excess = {}
    /\ pass' = IdlePass(pass.spec)
    /\ UNCHANGED <<want, replicas, changes, log, applied, failures, floor, stale>>

\* A query of the pass fails, or the control plane restarts: the next pass starts over.
AbandonPass ==
    /\ pass.phase \in {"group", "work"}
    /\ failures < MaxFailures
    /\ failures' = failures + 1
    /\ pass' = IdlePass(pass.spec)
    /\ UNCHANGED <<want, replicas, changes, log, applied, floor, stale>>

\* Projection "instances" applies the next event.
Project ==
    /\ applied < Len(log)
    /\ applied' = applied + 1
    /\ UNCHANGED <<want, replicas, changes, log, pass, failures, floor, stale>>

Reconcile ==
    \/ GetGroup
    \/ GetInstances
    \/ AllocateInstance
    \/ \E i \in pass.old \cup pass.excess : DrainInstance(i)
    \/ EndPass

Next ==
    \/ Reconcile
    \/ AllocateFails
    \/ \E i \in pass.old \cup pass.excess : DrainFails(i)
    \/ AbandonPass
    \/ Project
    \/ \E s \in Specs : DeploySpec(s)
    \/ \E n \in 0 .. MaxReplicas : ScaleTo(n)

Spec == Init /\ [][Next]_vars

\* The worker ticks for ever, and the projection worker polls for ever.
FairSpec == Spec /\ WF_vars(Reconcile) /\ WF_vars(Project)

----------------------------------------------------------------------------

\* The scheduler never drains a spec below the fewest replicas it was wanted with while
\* it was wanted: however stale the view is, and however many surplus instances that
\* made it allocate, the oldest-first surplus of one pass contains those of earlier ones.
NeverBelowFloor ==
    \A s \in Specs :
        Cardinality(Allocated(s)) >= floor[s] => Cardinality(Live(s)) >= floor[s]

\* While every pass has read an up to date view, retries, abandoned passes and changes
\* of the desired state never run more instances of one spec than were ever asked for.
NoSurplus == ~stale => \A s \in Specs : Cardinality(Live(s)) <= MaxReplicas

\* Both bounds of reconcile_group: how many instances of a spec a pass over a stale view may
\* take away, and that only a stale view lets it add too many.
GroupWithinBounds == NeverBelowFloor /\ NoSurplus

\* Once the desired state and the failures stop changing, every instance of another spec
\* is drained for good and the group has its number of instances, draining ones counted,
\* unless the bound on events is met first.
Settles ==
    <>[](\/ /\ \A s \in Specs \ {want} : Live(s) = {}
            /\ Cardinality(Matching(want)) >= Clamped(replicas)
         \/ Len(log) = MaxEvents)

============================================================================
