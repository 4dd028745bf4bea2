------------------------------ MODULE NodeAgent ------------------------------
(***************************************************************************)
(* A node's agent: either of its two modes over the runtime and the guests *)
(* of one host, with restarts of the agent and of the host in between, and *)
(* its store of images.                                                    *)
(***************************************************************************)
EXTENDS AgentActors, ImageStore

CONSTANTS
    MaxPlans,     \* bound on changes of the plan
    MaxRestarts   \* bound on restarts of the agent and of the host

VARIABLES
    mode,      \* "legacy" or "actors", from the environment of the process; "images" where
               \* only the store of images is looked at
    restarts

nodevars == <<gvars, mvars, avars, ivars, plan, mode, restarts>>

Wants == [Insts -> {"absent", "draining", "stopped"} \cup Releases]

\* What the disk may hold of earlier processes: nothing, or that an instance's first boot
\* was ready.
Remembered == {{}} \cup {{[inst |-> i, boot |-> 1, state |-> "ready"]} : i \in Insts}

AgentInit ==
    /\ \E before \in Remembered : GuestInit(before)
    /\ ManagerInit
    /\ ActorsInit
    /\ plan \in [cursor : {0}, want : Wants]
    /\ ImageInit
    /\ mode \in {"legacy", "actors", "images"}
    /\ mode # "actors" => ~imageActor
    /\ mode = "images" => statuses = {} /\ \A i \in Insts : plan.want[i] = "absent"
    /\ restarts = 0

\* The control plane assigns something else (GetPlan of NodeApi).
PlanChanges ==
    /\ mode # "images" /\ plan.cursor < MaxPlans
    /\ \E w \in Wants : w # plan.want /\ plan' = [cursor |-> plan.cursor + 1, want |-> w]
    /\ UNCHANGED <<gvars, mvars, avars, ivars, mode, restarts>>

\* main of a new agent process: InstanceManager::new or NodeSupervisor::new and start, over
\* the state store and the host it finds.
Begins(h) ==
    /\ mode # "images" /\ restarts < MaxRestarts /\ restarts' = restarts + 1
    /\ ConnectionsLost(h)
    /\ insts' = [i \in Insts |-> NotThere] /\ job' = NoJob /\ cursor' = 0
    /\ actors' = <<>> /\ handles' = [i \in Insts |-> None] /\ pending' = [i \in Insts |-> None]
    /\ rev' = 0 /\ chan' = <<>> /\ stream' = [state |-> "disconnected", cursor |-> 0]
    /\ work' = NoWork /\ up' = TRUE
    /\ UNCHANGED <<plan, mode, imageActor, ivars>>

RestartAgent == Begins(AgentRestarts(host))
RebootHost == Begins(HostReboots(host))

GuestNext ==
    /\ \/ \E v \in host.vms : \/ \E k \in HelloKinds : Hello(v, k)
                              \/ PerformSetup(v) \/ SetupFails(v) \/ BecomesReady(v)
                              \/ BecomesUnhealthy(v) \/ WorkloadExits(v) \/ StuckExits(v)
       \/ \E n \in 1 .. MaxVms : RecordStatus(n)
    /\ UNCHANGED <<mvars, avars, ivars, plan, mode, restarts>>

ManagerStep == Reconcile \/ (\E i \in Insts : ApplyStop(i) \/ ApplyWant(i)) \/ FinishPlan

ManagerNext ==
    /\ mode = "legacy"
    /\ ManagerStep \/ HealthTick
    /\ UNCHANGED <<avars, ivars, plan, mode, restarts>>

ActorsNext ==
    /\ mode = "actors"
    /\ \/ StreamConnects \/ StreamHeartbeat \/ StreamDisconnects
       \/ HandlePlan \/ (\E i \in Insts : StopAbsent(i) \/ EnsureAssigned(i)) \/ PlanApplied
       \/ SupervisorTick \/ Shutdown
       \/ \E a \in 1 .. Len(actors) : HandleMessage(a)
    /\ UNCHANGED <<ivars, plan, mode, restarts>>

AgentNext ==
    \/ PlanChanges \/ GuestNext \/ ManagerNext \/ ActorsNext \/ RestartAgent \/ RebootHost
    \/ mode = "images" /\ ImageNext /\ UNCHANGED <<gvars, mvars, avars, plan, mode, restarts>>

AgentSpec == AgentInit /\ [][AgentNext]_nodevars

\* The polling loop runs: its timer fires and every call it makes returns.
FairAgentSpec ==
    AgentSpec /\ WF_nodevars(mode = "legacy" /\ ManagerStep /\ UNCHANGED <<avars, ivars, plan, mode, restarts>>)

----------------------------------------------------------------------------

\* The instances the agent calls ready, with their boots.
CalledReady ==
    {<<i, insts[i].n, insts[i].boot>> : i \in {k \in Insts : insts[k].status = "ready"}}
    \cup {<<actors[a].inst, actors[a].n, actors[a].boot>> :
            a \in {b \in 1 .. Len(actors) : actors[b].phase = "ready"}}

\* An instance is called ready only after the guest of that very VM has said so, although
\* guests of earlier VMs of the instance may still be speaking, except for a boot whose id an
\* earlier agent process has used too.
ReadyMeansSaidSo ==
    \A c \in CalledReady : c[2] \in said \/ <<c[1], c[3]>> \in old

\* Every VM that runs is one the runtime can still stop and somebody is going to ask it to,
\* unless its process was left behind by a start that gave up or by an agent process that is
\* gone, or its actor gave it up as failed; and images are referenced once per table entry and
\* once per start of this agent process that gave up between ensure_image and the socket
\* (whether or not such a start left a process, and whether or not that still runs), by
\* nothing else and no less.
VmsAccountedFor ==
    /\ \A v \in host.vms : v.n \in host.lost \/ host.table[v.inst].n = v.n
    /\ \A i \in Insts : host.table[i].n \in Live(host) =>
          \/ insts[i].n = host.table[i].n
          \/ \E a \in 1 .. Len(actors) : actors[a].inst = i
                /\ \/ actors[a].n = host.table[i].n
                   \/ actors[a].phase \in {"failed", "stopped"} /\ actors[a].n = None
    /\ \A r \in Releases :
          host.refs[r] = Cardinality({i \in Insts : host.table[i].rel = r}) + host.kept[r]

\* A guest mounts the volumes of the plan its VM was built from, each from the device it was
\* attached as, unless the VM outlived the agent that started it.
ConfiguredAsBuilt ==
    \A v \in {w \in host.vms : w.n \notin host.lost} : \A c \in v.conf :
        c.inst = v.inst /\ c.rel = v.rel /\ c.mounts = Drives(Volumes[v.rel])

\* An instance the plan no longer wants running has, in the end, no VM running but those left
\* behind, unless the plan wants it again.
UnwantedStopped ==
    \A i \in Insts :
        (mode = "legacy" /\ ~Runs(plan.want[i]))
            ~> (\/ mode # "legacy" \/ Runs(plan.want[i])
                \/ \A v \in host.vms : v.inst = i => v.n \in host.lost)

=============================================================================
