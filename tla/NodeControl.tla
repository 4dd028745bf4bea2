----------------------------- MODULE NodeControl -----------------------------
(***************************************************************************)
(* What the control plane keeps about nodes and instances: their events,   *)
(* the projections "nodes" and "instances", the IPv6 addresses handed out, *)
(* and the requests in progress.  Node and instance ids are ULIDs, here    *)
(* numbers in the order they are drawn.                                    *)
(*                                                                         *)
(* Memory is counted in units of one instance (512 MB).  A node agent is   *)
(* an external client here: what its loops do is in module NodeAgent.      *)
(***************************************************************************)
EXTENDS Integers, Sequences, FiniteSets

CONSTANTS
    Keys,           \* WireGuard public keys
    Enrollers,      \* clients that enroll nodes
    None,           \* SQL NULL
    Capacity,       \* instances that fit in a node's memory
    NodeBound,      \* bound: nodes
    InstanceBound,  \* bound: instances
    EventBound,     \* bound: events after the initial ones
    TimeoutBound    \* bound: requests a client gives up

ASSUME NodeControlAssumption ==
    /\ Capacity \in Nat /\ NodeBound \in Nat \ {0} /\ InstanceBound \in Nat \ {0}
    /\ EventBound \in Nat /\ TimeoutBound \in Nat
    /\ None \notin Keys

NodeIds == 1 .. NodeBound
InstanceIds == 1 .. InstanceBound

NodeStates == {"active", "draining", "disabled", "degraded", "offline"}

VARIABLES
    scene,          \* what happens: "enroll" nodes, "pick" between nodes, "place" instances
                    \* on one or "report" on them
    nlog,           \* events of nodes and instances
    ndone,          \* how many of them the views reflect
    nodes,          \* nodes_view
    instances,      \* instances_desired_view joined with instances_status_view
    ipam,           \* ipam_nodes and ipam_instances
    enrolls,        \* enrollments in progress
    placing,        \* what the scheduler is doing
    calls,          \* the requests of a node's two loops: "beat" and "sync"
    orphans,        \* INSERTs whose client has gone
    agents,         \* what the agent of each node has applied
    timeouts,       \* requests given up so far
    keyraced        \* history: keys checked while an enrollment with them was under way

nvars == <<scene, nlog, ndone, nodes, instances, ipam, enrolls, placing, calls, orphans, agents,
           timeouts, keyraced>>

----------------------------------------------------------------------------

\* An event: "enrolled", "capacity" and "state" of a node; "allocated", "draining" and
\* "status" of an instance on a node.  Its name is a key or a state, its value a figure.
NodeEvent(agg, id, seq, kind, node, addr, name, val) ==
    [agg |-> agg, id |-> id, seq |-> seq, kind |-> kind, node |-> node, addr |-> addr,
     name |-> name, val |-> val]

LatestNodeSeq(agg, id) == Cardinality({i \in 1 .. Len(nlog) :
                                          nlog[i].agg = agg /\ nlog[i].id = id})

\* Mutant: rows are numbered when they are inserted.
NeverTaken(batch) == FALSE

\* events_aggregate_seq_unique
NumberTaken(batch) ==
    \E i \in 1 .. Len(nlog) :
        /\ nlog[i].agg = batch[1].agg /\ nlog[i].id = batch[1].id
        /\ nlog[i].seq = batch[1].seq

NoCall == [phase |-> "idle", kind |-> "", inst |-> 0, name |-> None, val |-> 0, changed |-> FALSE,
           batch |-> <<>>, rows |-> {}, cursor |-> 0]

NoPlacing == [phase |-> "idle", inst |-> 0, node |-> 0, addr |-> 0, batch |-> <<>>]

NoEnroll == [phase |-> "idle", key |-> None, node |-> 0, addr |-> 0]

NewAgent == [cursor |-> 0, held |-> {},
             stat |-> [i \in InstanceIds |-> 0], told |-> [i \in InstanceIds |-> 0]]

\* Nodes enrolled before a scene begins: none, all to pick from, or one.
InitialNodes(f) == CASE f = "enroll" -> {} [] f = "pick" -> NodeIds [] OTHER -> {1}

InstanceLimit == IF scene = "report" THEN 1 ELSE InstanceBound

LogBound == Cardinality(InitialNodes(scene)) + EventBound

EnrolledRow(n, k, addr) ==
    [id |-> n, state |-> "active", key |-> k, addr |-> addr, available |-> Capacity]

NodeInit ==
    /\ scene \in {"enroll", "pick", "place", "report"}
    /\ \E k \in Keys :
         /\ nlog = [n \in InitialNodes(scene) |-> NodeEvent("node", n, 1, "enrolled", n, n, k, 0)]
         /\ nodes = {EnrolledRow(n, k, n) : n \in InitialNodes(scene)}
    /\ ndone = Len(nlog)
    /\ ipam = {[pool |-> "node", owner |-> n, suffix |-> n] : n \in InitialNodes(scene)}
    /\ instances = {}
    /\ enrolls = [e \in Enrollers |-> NoEnroll]
    /\ placing = NoPlacing
    /\ calls = [n \in NodeIds |-> [t \in {"beat", "sync"} |-> NoCall]]
    /\ orphans = {}
    /\ agents = [n \in NodeIds |-> NewAgent]
    /\ timeouts = 0
    /\ keyraced = IF scene = "pick" THEN Keys ELSE {}

RowOfNode(n) == {r \in nodes : r.id = n}
RowOfInstance(i) == {r \in instances : r.id = i}

----------------------------------------------------------------------------
(* IPAM: ipam_node_suffix_seq, ipam_instance_suffix_seq and their tables.    *)

Drawn(pool) == {a \in ipam : a.pool = pool}

NextSuffix(pool) == Cardinality(Drawn(pool)) + 1

\* allocate_node_ipv6, allocate_instance_ipv6: the sequence never repeats itself, so the
\* INSERT meets none of the unique constraints, and the row stays whatever follows.
IpamRow(pool, owner) == [pool |-> pool, owner |-> owner, suffix |-> NextSuffix(pool)]

----------------------------------------------------------------------------
(* The projections, events in the order of the log.                          *)

\* NodesProjection: enrolled inserts an active node; a capacity update is merged into
\* allocatable, after which available_memory_bytes is what the node last reported.
NodesAfter(e) ==
    IF e.kind = "enrolled"
    THEN nodes \cup {EnrolledRow(e.id, e.name, e.addr)}
    ELSE {IF r.id # e.id THEN r
          ELSE IF e.kind = "capacity" THEN [r EXCEPT !.available = e.val]
          ELSE [r EXCEPT !.state = e.name] : r \in nodes}

\* handle_instance_allocated: desired_state is 'running', there is no status yet.
AllocatedRow(e) ==
    [id |-> e.id, node |-> e.node, addr |-> e.addr, desired |-> "running", status |-> 0]

\* InstancesProjection
InstancesAfter(e) ==
    IF e.kind = "allocated"
    THEN instances \cup {AllocatedRow(e)}
    ELSE {IF r.id # e.id THEN r
          ELSE IF e.kind = "draining" THEN [r EXCEPT !.desired = "draining"]
          ELSE [r EXCEPT !.status = e.val] : r \in instances}

ProjectNode ==
    /\ ndone < Len(nlog)
    /\ LET e == nlog[ndone + 1]
       IN  /\ nodes' = IF e.agg = "node" THEN NodesAfter(e) ELSE nodes
           /\ instances' = IF e.agg = "instance" THEN InstancesAfter(e) ELSE instances
    /\ ndone' = ndone + 1
    /\ UNCHANGED <<scene, nlog, ipam, enrolls, placing, calls, orphans, agents, timeouts, keyraced>>

=============================================================================
