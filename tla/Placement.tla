------------------------------ MODULE Placement ------------------------------
(***************************************************************************)
(* Where the scheduler (scheduler/reconciler.rs) puts an instance, and how *)
(* it drains one.  Which instances a group needs is module Scheduler; here *)
(* any may be allocated and any drained.                                   *)
(***************************************************************************)
EXTENDS NodeControl

\* find_best_node: active, and the reported memory is enough for one instance.
Eligible == {r \in nodes : r.state = "active" /\ r.available >= 1}

\* The most memory first, then the smallest id.
Better(r, s) == r.available > s.available \/ (r.available = s.available /\ r.id < s.id)

BestNode == CHOOSE r \in Eligible : \A s \in Eligible \ {r} : Better(r, s)

\* allocate_instance: a node is chosen by what it last reported.
FindBestNode ==
    /\ placing.phase = "idle"
    /\ Eligible # {}
    /\ Cardinality(Drawn("instance")) < InstanceLimit
    /\ placing' = [NoPlacing EXCEPT !.phase = "placed", !.node = BestNode.id]
    /\ UNCHANGED <<scene, nlog, ndone, nodes, instances, ipam, enrolls, calls, orphans, agents,
                   timeouts, keyraced>>

\* Mutant: the address follows the instances of the view.
AddressFromView ==
    /\ placing.phase = "placed"
    /\ LET i == Cardinality(Drawn("instance")) + 1
       IN  /\ ipam' = ipam \cup {IpamRow("instance", i)}
           /\ placing' = [placing EXCEPT !.phase = "addressed", !.inst = i,
                                         !.addr = Cardinality(instances) + 1]
    /\ UNCHANGED <<scene, nlog, ndone, nodes, instances, enrolls, calls, orphans, agents, timeouts,
                   keyraced>>

\* allocate_instance_ipv6
AllocateInstanceIpv6 ==
    /\ placing.phase = "placed"
    /\ LET i == Cardinality(Drawn("instance")) + 1
       IN  /\ ipam' = ipam \cup {IpamRow("instance", i)}
           /\ placing' = [placing EXCEPT !.phase = "addressed", !.inst = i,
                                         !.addr = NextSuffix("instance")]
    /\ UNCHANGED <<scene, nlog, ndone, nodes, instances, enrolls, calls, orphans, agents, timeouts,
                   keyraced>>

\* allocate_instance: instance.allocated, the first event of its aggregate.
AppendAllocated ==
    /\ placing.phase = "addressed"
    /\ Len(nlog) < LogBound
    /\ nlog' = Append(nlog, NodeEvent("instance", placing.inst, 1, "allocated", placing.node,
                                      placing.addr, None, 0))
    /\ placing' = NoPlacing
    /\ UNCHANGED <<scene, ndone, nodes, instances, ipam, enrolls, calls, orphans, agents, timeouts,
                   keyraced>>

\* allocate_instance fails after its address was taken: the address is never given back.
AllocateFails ==
    /\ placing.phase = "addressed"
    /\ timeouts < TimeoutBound
    /\ timeouts' = timeouts + 1
    /\ placing' = NoPlacing
    /\ UNCHANGED <<scene, nlog, ndone, nodes, instances, ipam, enrolls, calls, orphans, agents,
                   keyraced>>

\* drain_instance: nothing for one that the view shows draining; the number is read.
NumberDrain(i) ==
    /\ placing.phase = "idle"
    /\ \E r \in RowOfInstance(i) : r.desired # "draining"
    /\ placing' = [NoPlacing EXCEPT !.phase = "draining", !.inst = i,
                     !.batch = <<NodeEvent("instance", i, LatestNodeSeq("instance", i) + 1,
                                           "draining", 0, 0, None, 0)>>]
    /\ UNCHANGED <<scene, nlog, ndone, nodes, instances, ipam, enrolls, calls, orphans, agents,
                   timeouts, keyraced>>

\* drain_instance: the append, or a conflict with a status report, which only warns.
AppendDrain ==
    /\ placing.phase = "draining"
    /\ Len(nlog) < LogBound
    /\ nlog' = IF NumberTaken(placing.batch) THEN nlog ELSE nlog \o placing.batch
    /\ placing' = NoPlacing
    /\ UNCHANGED <<scene, ndone, nodes, instances, ipam, enrolls, calls, orphans, agents, timeouts,
                   keyraced>>

=============================================================================
