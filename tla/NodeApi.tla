------------------------------- MODULE NodeApi -------------------------------
(***************************************************************************)
(* The handlers a node calls: api/v1/nodes.rs over HTTP and                *)
(* grpc/node_agent.rs over gRPC, and the status endpoint of                *)
(* api/v1/instances.rs.  A handler reads views, then the number of its     *)
(* event from the log, then appends; the two loops of an agent each have   *)
(* one request under way.                                                  *)
(***************************************************************************)
EXTENDS NodeControl

----------------------------------------------------------------------------
(* Enrollment.                                                               *)

KeyInUse(k) == \E r \in nodes : r.key = k

\* enroll_node: the request is valid and its key is not in nodes_view.
CheckEnrollment(e, k) ==
    /\ enrolls[e].phase = "idle"
    /\ ~KeyInUse(k)
    /\ enrolls' = [enrolls EXCEPT ![e] = [@ EXCEPT !.phase = "checked", !.key = k]]
    /\ keyraced' = IF (\E f \in Enrollers : enrolls[f].key = k)
                        \/ \E i \in (ndone + 1) .. Len(nlog) :
                             nlog[i].kind = "enrolled" /\ nlog[i].name = k
                   THEN keyraced \cup {k} ELSE keyraced
    /\ UNCHANGED <<scene, nlog, ndone, nodes, instances, ipam, placing, calls, orphans, agents,
                   timeouts>>

\* NodeAgentService::enroll has the same checks.
GrpcEnroll(e, k) == CheckEnrollment(e, k)

\* allocate_node_ipv6
AllocateNodeIpv6(e) ==
    /\ enrolls[e].phase = "checked"
    /\ Cardinality(Drawn("node")) < NodeBound
    /\ LET n == Cardinality(Drawn("node")) + 1
       IN  /\ ipam' = ipam \cup {IpamRow("node", n)}
           /\ enrolls' = [enrolls EXCEPT ![e] = [@ EXCEPT !.phase = "addressed", !.node = n,
                                                          !.addr = NextSuffix("node")]]
    /\ UNCHANGED <<scene, nlog, ndone, nodes, instances, placing, calls, orphans, agents, timeouts,
                   keyraced>>

\* enroll_node: node.enrolled is the first event of a new aggregate.
AppendEnrolled(e) ==
    /\ enrolls[e].phase = "addressed"
    /\ Len(nlog) < LogBound
    /\ nlog' = Append(nlog, NodeEvent("node", enrolls[e].node, 1, "enrolled", enrolls[e].node,
                                      enrolls[e].addr, enrolls[e].key, 0))
    /\ enrolls' = [enrolls EXCEPT ![e] = NoEnroll]
    /\ UNCHANGED <<scene, ndone, nodes, instances, ipam, placing, calls, orphans, agents, timeouts,
                   keyraced>>

\* enroll_node: an error, or the client is gone; an address already taken stays taken.
EnrollFails(e) ==
    /\ enrolls[e].phase # "idle"
    /\ timeouts < TimeoutBound
    /\ timeouts' = timeouts + 1
    /\ enrolls' = [enrolls EXCEPT ![e] = NoEnroll]
    /\ UNCHANGED <<scene, nlog, ndone, nodes, instances, ipam, placing, calls, orphans, agents,
                   keyraced>>

----------------------------------------------------------------------------
(* Requests of a node's loops.                                               *)

SetCall(n, t, c) == calls' = [calls EXCEPT ![n][t] = c]

\* heartbeat: the state is compared with the view's.
Heartbeat(n, s, available) ==
    /\ calls[n]["beat"].phase = "idle"
    /\ \E r \in RowOfNode(n) :
         SetCall(n, "beat", [NoCall EXCEPT !.phase = "loaded", !.kind = "heartbeat",
                                           !.name = s, !.val = available,
                                           !.changed = r.state # s])
    /\ UNCHANGED <<scene, nlog, ndone, nodes, instances, ipam, enrolls, placing, orphans, agents,
                   timeouts, keyraced>>

\* NodeAgentService::heartbeat: an unspecified or unknown state counts as active.
NodeStateFromProto(s) == IF s \in NodeStates THEN s ELSE "active"

GrpcHeartbeat(n, s, available) == Heartbeat(n, NodeStateFromProto(s), available)

\* heartbeat: get_latest_aggregate_seq, then node.capacity_updated and, if the state
\* differs, node.state_changed.
NumberHeartbeat(n) ==
    LET c == calls[n]["beat"]
        seq == LatestNodeSeq("node", n) + 1
        capacity == NodeEvent("node", n, seq, "capacity", n, 0, None, c.val)
        state == NodeEvent("node", n, seq + 1, "state", n, 0, c.name, 0)
    IN  /\ c.phase = "loaded"
        /\ SetCall(n, "beat",
             [c EXCEPT !.phase = "numbered",
                       !.batch = IF c.changed THEN <<capacity, state>> ELSE <<capacity>>])
        /\ UNCHANGED <<scene, nlog, ndone, nodes, instances, ipam, enrolls, placing, orphans, agents,
                       timeouts, keyraced>>

ValidStatuses == 1 .. 3     \* booting; ready; draining, stopped or failed

\* report_instance_status: the instance has a row on this node.
ReportInstanceStatus(n, i) ==
    /\ calls[n]["sync"].phase = "idle"
    /\ agents[n].stat[i] \in ValidStatuses
    /\ agents[n].stat[i] # agents[n].told[i]
    /\ \E r \in RowOfInstance(i) : r.node = n
    /\ SetCall(n, "sync", [NoCall EXCEPT !.phase = "loaded", !.kind = "status", !.inst = i,
                                         !.val = agents[n].stat[i]])
    /\ UNCHANGED <<scene, nlog, ndone, nodes, instances, ipam, enrolls, placing, orphans, agents,
                   timeouts, keyraced>>

\* NodeAgentService::report_instance_status
GrpcReportInstanceStatus(n, i) == ReportInstanceStatus(n, i)

\* report_status of api/v1/instances.rs: the instance has a row, on whatever node.
ReportStatus(n, i) ==
    /\ calls[n]["sync"].phase = "idle"
    /\ agents[n].stat[i] \in ValidStatuses
    /\ agents[n].stat[i] # agents[n].told[i]
    /\ RowOfInstance(i) # {}
    /\ SetCall(n, "sync", [NoCall EXCEPT !.phase = "loaded", !.kind = "status", !.inst = i,
                                         !.val = agents[n].stat[i]])
    /\ UNCHANGED <<scene, nlog, ndone, nodes, instances, ipam, enrolls, placing, orphans, agents,
                   timeouts, keyraced>>

\* report_instance_status: the number of the event is read from the log.
NumberStatus(n) ==
    LET c == calls[n]["sync"]
    IN  /\ c.phase = "loaded" /\ c.kind = "status"
        /\ SetCall(n, "sync",
             [c EXCEPT !.phase = "numbered",
                       !.batch = <<NodeEvent("instance", c.inst,
                                             LatestNodeSeq("instance", c.inst) + 1, "status",
                                             n, 0, None, c.val)>>])
        /\ UNCHANGED <<scene, nlog, ndone, nodes, instances, ipam, enrolls, placing, orphans, agents,
                       timeouts, keyraced>>

\* The agent has its answer: mark_status_reported.
Told(n, c) ==
    IF c.kind = "status"
    THEN [agents EXCEPT ![n].told[c.inst] = agents[n].stat[c.inst]] ELSE agents

\* The append commits, and its answer arrives.
AppendCall(n, t) ==
    LET c == calls[n][t]
    IN  /\ c.phase = "numbered"
        /\ c.batch # <<>>
        /\ ~NumberTaken(c.batch)
        /\ Len(nlog) + Len(c.batch) <= LogBound
        /\ nlog' = nlog \o c.batch
        /\ SetCall(n, t, NoCall)
        /\ agents' = Told(n, c)
        /\ UNCHANGED <<scene, ndone, nodes, instances, ipam, enrolls, placing, orphans, timeouts,
                       keyraced>>

\* The number is taken (or the database fails, when the bound is reached): the node is
\* answered an error and will try again.
CallConflicts(n, t) ==
    /\ calls[n][t].phase = "numbered"
    /\ calls[n][t].batch # <<>>
    /\ NumberTaken(calls[n][t].batch) \/ Len(nlog) + Len(calls[n][t].batch) > LogBound
    /\ SetCall(n, t, NoCall)
    /\ UNCHANGED <<scene, nlog, ndone, nodes, instances, ipam, enrolls, placing, orphans, agents,
                   timeouts, keyraced>>

\* The client gives up after its timeout.  The handler is dropped with its connection; an
\* INSERT on its way to the database is not.
CallTimesOut(n, t) ==
    LET c == calls[n][t]
    IN  /\ c.phase # "idle"
        /\ timeouts < TimeoutBound
        /\ timeouts' = timeouts + 1
        /\ SetCall(n, t, NoCall)
        /\ orphans' = IF c.batch # <<>> THEN orphans \cup {c.batch} ELSE orphans
        /\ UNCHANGED <<scene, nlog, ndone, nodes, instances, ipam, enrolls, placing, agents, keyraced>>

\* The database executes, or never gets, the INSERT of a handler that is gone.
OrphanLands(b) ==
    /\ Len(nlog) + Len(b) <= LogBound
    /\ nlog' = IF NumberTaken(b) THEN nlog ELSE nlog \o b
    /\ orphans' = orphans \ {b}
    /\ UNCHANGED <<scene, ndone, nodes, instances, ipam, enrolls, placing, calls, agents, timeouts,
                   keyraced>>

OrphanVanishes(b) ==
    /\ orphans' = orphans \ {b}
    /\ UNCHANGED <<scene, nlog, ndone, nodes, instances, ipam, enrolls, placing, calls, agents,
                   timeouts, keyraced>>

----------------------------------------------------------------------------
(* The plan of a node.                                                       *)

PlanRows(n) == {<<r.id, r.desired>> : r \in {s \in instances : s.node = n}}

\* get_plan: the node is known, its instances are read from the views.
GetPlan(n) ==
    /\ calls[n]["sync"].phase = "idle"
    /\ RowOfNode(n) # {}
    /\ SetCall(n, "sync", [NoCall EXCEPT !.phase = "loaded", !.kind = "plan",
                                         !.rows = PlanRows(n)])
    /\ UNCHANGED <<scene, nlog, ndone, nodes, instances, ipam, enrolls, placing, orphans, agents,
                   timeouts, keyraced>>

\* NodeAgentService::get_plan
GrpcGetPlan(n) == GetPlan(n)

\* get_plan: then the cursor, the last event of the log, projected or not.
ReadPlanCursor(n) ==
    /\ calls[n]["sync"].phase = "loaded" /\ calls[n]["sync"].kind = "plan"
    /\ calls' = [calls EXCEPT ![n]["sync"].phase = "numbered",
                              ![n]["sync"].cursor = Len(nlog)]
    /\ UNCHANGED <<scene, nlog, ndone, nodes, instances, ipam, enrolls, placing, orphans, agents,
                   timeouts, keyraced>>

\* Mutant: a plan with the cursor of the last one is taken for the same plan.
NewerOnly(c, last) == c > last

\* apply_plan and fetch_and_publish_plan drop a plan with an older cursor; one with the
\* same cursor has another plan_id and counts.
PlanCounts(c, last) == c >= last

\* The agent starts what the plan newly runs and stops what it drains.
ApplyPlan(n) ==
    LET c == calls[n]["sync"]
        running == {i \in InstanceIds : <<i, "running">> \in c.rows}
    IN  /\ c.phase = "numbered" /\ c.kind = "plan"
        /\ SetCall(n, "sync", NoCall)
        /\ agents' =
             IF PlanCounts(c.cursor, agents[n].cursor)
             THEN [agents EXCEPT
                     ![n].cursor = c.cursor,
                     ![n].held = running,
                     ![n].stat = [i \in InstanceIds |->
                        IF i \in running /\ @[i] = 0 THEN 1
                        ELSE IF i \in agents[n].held \ running THEN 3 ELSE @[i]]]
             ELSE agents
        /\ UNCHANGED <<scene, nlog, ndone, nodes, instances, ipam, enrolls, placing, orphans, timeouts,
                       keyraced>>

\* A guest comes up, between two rounds of the loop.
GuestReady(n, i) ==
    /\ calls[n]["sync"].phase = "idle"
    /\ agents[n].stat[i] = 1
    /\ agents' = [agents EXCEPT ![n].stat[i] = 2]
    /\ UNCHANGED <<scene, nlog, ndone, nodes, instances, ipam, enrolls, placing, calls, orphans,
                   timeouts, keyraced>>

=============================================================================
