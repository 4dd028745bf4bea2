------------------------------ MODULE NodePlane ------------------------------
(***************************************************************************)
(* The node API, the scheduler's placement and the projections, composed,  *)
(* with the agents of a few nodes as clients.                              *)
(***************************************************************************)
EXTENDS NodeApi, Placement

W == INSTANCE WorkloadPlan

\* Architectures of images and nodes, and the workloads of a plan.
Archs == {"amd64", "arm64", "riscv"}
WorkloadSpecs ==
    [image : [resolved : Archs \cup {"index"}, arch : Archs, index : {None, "index"}],
     resources : [memory : Nat], mounts : Seq({"volume"}), secrets : {None}, addr : Nat, mtu : Nat]

\* An absent option is none of these.
ASSUME NullAssumption == None \notin Archs /\ None \notin WorkloadSpecs

\* What a loop reports as available: the memory its running instances leave
\* (run_heartbeat_loop), or all of it (the constant of handle_heartbeat in stream.rs); any
\* figure where the agents themselves are left out.
ReportedMemory(n) ==
    LET used == Cardinality(agents[n].held)
    IN  IF scene = "pick" THEN 0 .. Capacity
        ELSE {IF used < Capacity THEN Capacity - used ELSE 0, Capacity}

Polled == scene \in {"place", "report"}

BeatNext(n) ==
    \/ \E s \in {"active", "draining"}, a \in ReportedMemory(n) : Heartbeat(n, s, a)
    \/ \E a \in ReportedMemory(n) : GrpcHeartbeat(n, "unspecified", a)
    \/ NumberHeartbeat(n)
    \/ AppendCall(n, "beat") \/ CallConflicts(n, "beat")

StatusStep(n) == NumberStatus(n) \/ AppendCall(n, "sync") \/ CallConflicts(n, "sync")

StatusNext(n) ==
    \/ \E i \in InstanceIds :
         \/ ReportInstanceStatus(n, i) \/ GrpcReportInstanceStatus(n, i) \/ ReportStatus(n, i)
         \/ GuestReady(n, i)
    \/ StatusStep(n)
    \/ CallTimesOut(n, "sync")

PollNext(n) ==
    GetPlan(n) \/ GrpcGetPlan(n) \/ ReadPlanCursor(n) \/ ApplyPlan(n)

SchedulerNext ==
    \/ FindBestNode \/ AllocateInstanceIpv6 \/ AppendAllocated \/ AllocateFails
    \/ AppendDrain
    \/ scene # "pick" /\ \E i \in InstanceIds : NumberDrain(i)

NodeNext ==
    \/ scene = "enroll" /\ \E e \in Enrollers :
         \/ \E k \in Keys : CheckEnrollment(e, k) \/ GrpcEnroll(e, k)
         \/ AllocateNodeIpv6(e) \/ AppendEnrolled(e) \/ EnrollFails(e)
    \/ scene # "report" /\ \E n \in NodeIds : BeatNext(n)
    \/ scene = "enroll" /\ \E n \in NodeIds : CallTimesOut(n, "beat")
    \/ scene = "report" /\ \E n \in NodeIds : StatusNext(n)
    \/ scene # "enroll" /\ SchedulerNext
    \/ Polled /\ \E n \in NodeIds : PollNext(n)
    \/ \E b \in orphans : OrphanLands(b) \/ OrphanVanishes(b)
    \/ ProjectNode

NodeSpec == NodeInit /\ [][NodeNext]_nvars

\* The projections run, and a node's sync loop completes its polls.
FairNodeSpec ==
    /\ NodeSpec
    /\ WF_nvars(ProjectNode)
    /\ \A n \in NodeIds :
         /\ SF_nvars(Polled /\ GetPlan(n))
         /\ WF_nvars(Polled /\ (ReadPlanCursor(n) \/ ApplyPlan(n)))
         /\ WF_nvars(scene = "report" /\ StatusStep(n))

----------------------------------------------------------------------------
(* Reads of instances.                                                       *)

\* env_instances.rs: the status an instance is shown with; 0 is no report yet.
StatusName(k) == <<"booting", "booting", "ready", "failed">>[k + 1]

\* Mutant: what the node says comes first.
ReportedFirst(r) ==
    IF r.status # 0 THEN StatusName(r.status)
    ELSE IF r.desired = "draining" THEN "draining" ELSE "booting"

InstanceStatusShown(r) ==
    CASE r.desired = "stopped" -> "stopped"
      [] r.desired = "draining" -> "draining"
      [] OTHER -> StatusName(r.status)

\* env_instances.rs list_instances: rows with a status, by the CASE of its WHERE.
ListEnvInstances(s) ==
    {r.id : r \in {q \in instances :
        IF q.desired \in {"stopped", "draining"} THEN q.desired = s
        ELSE IF q.status # 0 THEN StatusName(q.status) = s ELSE s = "booting"}}

\* env_instances.rs get_instance
GetEnvInstance(i) == {InstanceStatusShown(r) : r \in RowOfInstance(i)}

\* A page of ids past a cursor, and the cursor to go on from if the page is full.
Page(ids, cursor, limit) ==
    LET rest == {i \in ids : i > cursor}
        items == {i \in rest : Cardinality({j \in rest : j < i}) < limit}
    IN  [items |-> items,
         next |-> IF Cardinality(items) = limit
                  THEN CHOOSE i \in items : \A j \in items : j <= i ELSE None]

\* nodes.rs list_nodes, get_node
ListNodes(cursor, limit) == Page({r.id : r \in nodes}, cursor, limit)
GetNode(n) == RowOfNode(n)

\* instances.rs list_instances leaves stopped ones out, get_instance does not.
ListInstances(n, cursor, limit) ==
    Page({r.id : r \in {q \in instances : q.node = n /\ q.desired # "stopped"}}, cursor, limit)
GetInstance(i) == RowOfInstance(i)

----------------------------------------------------------------------------

NodeTypeOK ==
    /\ nlog \in Seq([agg : {"node", "instance"}, id : Nat, seq : Nat, node : Nat, addr : Nat,
                     kind : {"enrolled", "capacity", "state", "allocated", "draining", "status"},
                     name : Keys \cup NodeStates \cup {None}, val : Nat])
    /\ ndone \in 0 .. Len(nlog)
    /\ \A r \in nodes : r.id \in NodeIds /\ r.state \in NodeStates /\ r.key \in Keys
    /\ \A r \in instances : r.id \in InstanceIds /\ r.node \in NodeIds
                            /\ r.desired \in {"running", "draining"} /\ r.status \in 0 .. 3
    /\ \A n \in NodeIds : agents[n].held \subseteq InstanceIds
    /\ keyraced \subseteq Keys

EventsOfKind(k) == {i \in 1 .. Len(nlog) : nlog[i].kind = k}

\* No two nodes and no two instances share an overlay address, every address named by an
\* event is held for its owner, and no two nodes share a WireGuard key, unless one of them
\* was checked while the other was being enrolled.
IdentitiesUnique ==
    \A k \in {"enrolled", "allocated"} : \A i, j \in EventsOfKind(k) :
        /\ \E a \in ipam : a.owner = nlog[i].id /\ a.suffix = nlog[i].addr
                           /\ a.pool = nlog[i].agg
        /\ i # j => /\ nlog[i].addr # nlog[j].addr
                    /\ nlog[i].id # nlog[j].id
                    /\ k = "enrolled" /\ nlog[i].name = nlog[j].name => nlog[i].name \in keyraced

\* The events of a node and of an instance are numbered in the order they enter the log, and
\* the statuses of an instance enter it in the order its node reported them, although a
\* request that timed out may still be executed after its repetition.
ReportsInOrder ==
    \A i, j \in 1 .. Len(nlog) :
        i < j /\ nlog[i].agg = nlog[j].agg /\ nlog[i].id = nlog[j].id =>
            /\ nlog[i].seq < nlog[j].seq
            /\ nlog[i].kind = "status" /\ nlog[j].kind = "status" => nlog[i].val <= nlog[j].val

\* Plans being answered, over HTTP and over gRPC, for the releases and labels there can be.
DigestLists == {<<>>, <<"amd64">>, <<"arm64">>, <<"amd64", "arm64">>}
RowsAsked ==
    {W!PlanRow(r.id, r.desired, d, None, r.addr, None, ms, arch, None) :
        r \in instances, d \in DigestLists, ms \in {<<>>, <<"volume">>},
        arch \in Archs \cup {None}}

PlanAnswered ==
    \E n \in NodeIds : calls[n]["sync"].kind = "plan" /\ calls[n]["sync"].phase = "loaded"

\* Two environments, a process type each, and attachments across them.
InstancesAsked == {[env |-> 1, ptype |-> "web"], [env |-> 2, ptype |-> "job"]}
AttachmentsAsked ==
    {[env |-> 1, ptype |-> "web", volume |-> 1, deleted |-> FALSE],
     [env |-> 1, ptype |-> "job", volume |-> 2, deleted |-> FALSE],
     [env |-> 2, ptype |-> "job", volume |-> 1, deleted |-> TRUE]}

\* The two interfaces answer the same plan, with the mounts of its own environment and
\* process type for each instance; an assignment that needs an image names one
\* for its node whenever the release has it, and a filtered list of instances has exactly
\* those that are shown with the status.
ReadsAgree ==
    /\ PlanAnswered =>
         \A as \in SUBSET AttachmentsAsked : \A i \in InstancesAsked :
           /\ W!MountsFor(W!LoadVolumeMounts(InstancesAsked, as), i)
                = {a.volume : a \in {b \in as : b.env = i.env /\ b.ptype = i.ptype /\ ~b.deleted}}
           /\ W!LoadVolumeMounts(InstancesAsked, as) = W!GrpcLoadVolumeMounts(InstancesAsked, as)
    /\ PlanAnswered => \A row \in RowsAsked :
         LET a == W!AssignmentFromRow(row)
         IN  /\ W!AssignmentFromProto(W!GrpcAssignmentFromRow(row)) = a
             /\ a.workload.image.resolved \in {row.digests[i] : i \in 1 .. Len(row.digests)}
                    \cup {"index"}
             /\ (\E i \in 1 .. Len(row.digests) : row.digests[i] = row.arch)
                    => a.workload.image.resolved = row.arch
             /\ Len(row.digests) > 1 /\ a.workload.image.resolved # "index"
                    => a.workload.image.resolved = row.arch
    /\ \A i \in InstanceIds, s \in {"booting", "ready", "draining", "stopped", "failed"} :
         i \in ListEnvInstances(s) <=> s \in GetEnvInstance(i)
    /\ \A c \in 0 .. NodeBound, k \in 1 .. 2, n \in NodeIds : GetNode(n) # {} /\ n > c =>
         n \in ListNodes(c, k).items \/ ListNodes(c, k).next \in c + 1 .. n - 1
    /\ \A c \in 0 .. InstanceBound, i \in InstanceIds : \A r \in GetInstance(i) : i > c =>
         LET page == ListInstances(r.node, c, 1)
         IN  i \in page.items \/ page.next \in c + 1 .. i - 1

\* An instance shown draining is never shown in another status again, whatever status
\* reports are still under way.
ShownDrainingForGood ==
    [][\A i \in InstanceIds : "draining" \in GetEnvInstance(i) =>
            GetEnvInstance(i)' = {"draining"}]_nvars

Placed(i, n) == \E k \in EventsOfKind("allocated") : nlog[k].id = i /\ nlog[k].node = n
Drained(i) == \E k \in EventsOfKind("draining") : nlog[k].id = i

\* An instance its node should have started, or should have stopped.
Undelivered(i, n) ==
    /\ Placed(i, n)
    /\ IF Drained(i) THEN i \in agents[n].held ELSE agents[n].stat[i] = 0

\* What the log says of the instances reaches their nodes: in the end the allocated ones
\* are started, unless they are drained first, and the drained ones are stopped.
PlansDelivered ==
    Polled =>
        []<>~\E i \in InstanceIds, n \in NodeIds : Undelivered(i, n)

=============================================================================
