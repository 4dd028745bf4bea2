------------------------------ MODULE GuestBoot ------------------------------
(***************************************************************************)
(* The boot of a guest: guest-init in the VM, and the agent's vsock        *)
(* service that hands it its configuration once and records what it says.  *)
(***************************************************************************)
EXTENDS VmRuntime

CONSTANTS
    WithSecrets, \* releases whose plan names a version of the secrets
    HelloKinds,  \* how a guest names itself in its hello, see Hello
    WireCap      \* bound on statuses sent and not yet read

VARIABLES
    host,     \* a host of VmRuntime
    cfgs,     \* ConfigStore: [Insts -> Releases \cup {None}]
    wire,     \* statuses on the connection of each process
    statuses, \* table boot_status, on disk
    old,      \* boots that an earlier agent process may have statuses of
    said      \* processes whose guest has said ready

gvars == <<host, cfgs, wire, statuses, old, said>>

\* before: what earlier agent processes recorded
GuestInit(before) ==
    /\ host = EmptyHost
    /\ cfgs = [i \in Insts |-> None]
    /\ wire = [n \in 1 .. MaxVms |-> <<>>]
    /\ statuses = before
    /\ old = {<<t.inst, t.boot>> : t \in before}
    /\ said = {}

Replace(v, w) == host' = [host EXCEPT !.vms = (@ \ {v}) \cup {w}]
Dies(v) == host' = VmExits(host, v.n)

----------------------------------------------------------------------------
(* Configuration.                                                          *)

\* Mutant: devices are counted from vdb, which is the scratch disk.
DevicesFromScratch(i, r) ==
    [inst |-> i, rel |-> r, secrets |-> r \in WithSecrets,
     mounts |-> [k \in 1 .. Len(Volumes[r]) |-> IF k = 1 THEN None ELSE Volumes[r][k - 1]]]

\* build_config_message: the Nth mount of the plan is the Nth device from vdc on.
BuildConfigMessage(i, r) ==
    [inst |-> i, rel |-> r, mounts |-> Volumes[r], secrets |-> r \in WithSecrets]

\* ConfigStore::add, take and remove
AddConfig(i, r) == [cfgs EXCEPT ![i] = r]
RemoveConfig(i) == [cfgs EXCEPT ![i] = None]

TakeConfig(i) == [cfgs EXCEPT ![i] = None]

\* perform_handshake and handle_connection up to the ack. The boot arguments name no
\* instance, so guest-init says "unknown" and a boot id of its own ("unnamed"); "named" has
\* the instance and "told" the host's boot id as well, which is what the host looks for.
Hello(v, kind) ==
    /\ v \in host.vms /\ v.guest = "boot"
    /\ IF kind = "unnamed" \/ cfgs[v.inst] = None
       THEN Dies(v) /\ UNCHANGED cfgs
       ELSE /\ Replace(v, [v EXCEPT !.guest = "configured",
                                    !.conf = {BuildConfigMessage(v.inst, cfgs[v.inst])},
                                    !.key = IF kind = "told" THEN v.boot ELSE -v.n])
            /\ cfgs' = TakeConfig(v.inst)
    /\ UNCHANGED <<wire, statuses, old, said>>

----------------------------------------------------------------------------
(* What the guest says. A closed connection swallows it.                   *)

\* report_status, report_failure, report_exit
Say(v, s) ==
    IF v.key = None THEN wire
    ELSE [wire EXCEPT ![v.n] = Append(@, [inst |-> v.inst, boot |-> v.key, state |-> s])]
CanSay(v) == v \in host.vms /\ (v.key = None \/ Len(wire[v.n]) < WireCap)

\* network::configure, mount_volume over the mounts, secrets::materialize: how each may end
ConfigureNetwork(conf) == {"ok", "net_config_failed"}
MountVolumes(conf) == IF conf.mounts = <<>> THEN {"ok"} ELSE {"ok", "mount_failed"}
Materialize(conf) == IF conf.secrets THEN {"ok", "secrets_write_failed"} ELSE {"ok"}

SetupOutcomes(conf) == ConfigureNetwork(conf) \cup MountVolumes(conf) \cup Materialize(conf)

\* perform_setup after the handshake
PerformSetup(v) ==
    /\ CanSay(v) /\ v.guest = "configured"
    /\ wire' = Say(v, "config_applied")
    /\ Replace(v, [v EXCEPT !.guest = "applied"])
    /\ UNCHANGED <<cfgs, statuses, old, said>>

\* report_init_failure, and guest-init, process 1 of the VM, exits.
SetupFails(v) ==
    /\ CanSay(v) /\ v.guest = "configured" /\ host.faults < MaxFaults
    /\ \E c \in v.conf : SetupOutcomes(c) # {"ok"}
    /\ wire' = Say(v, "failed")
    /\ host' = Spend(VmExits(host, v.n))
    /\ UNCHANGED <<cfgs, statuses, old, said>>

\* run without a health check, or run_health_checks past its success threshold
BecomesReady(v) ==
    /\ CanSay(v) /\ v.guest = "applied"
    /\ wire' = Say(v, "ready")
    /\ Replace(v, [v EXCEPT !.guest = "up"])
    /\ said' = said \cup {v.n}
    /\ UNCHANGED <<cfgs, statuses, old>>

\* run_health_checks past its failure threshold: ready may be said again.
BecomesUnhealthy(v) ==
    /\ CanSay(v) /\ v.guest = "up" /\ host.faults < MaxFaults
    /\ wire' = Say(v, "unhealthy")
    /\ host' = Spend([host EXCEPT !.vms = (@ \ {v}) \cup {[v EXCEPT !.guest = "applied"]}])
    /\ UNCHANGED <<cfgs, statuses, old, said>>

\* A process that start_firecracker_direct gave up waiting for exits, without a word.
StuckExits(v) ==
    /\ v \in host.vms /\ v.guest = "none"
    /\ Dies(v)
    /\ UNCHANGED <<cfgs, wire, statuses, old, said>>

\* The workload ends, before or after ready.
WorkloadExits(v) ==
    /\ CanSay(v) /\ v.guest \in {"applied", "up"} /\ host.faults < MaxFaults
    /\ wire' = Say(v, "exited")
    /\ host' = Spend(VmExits(host, v.n))
    /\ UNCHANGED <<cfgs, statuses, old, said>>

----------------------------------------------------------------------------
(* What the host records.                                                  *)

\* upsert_boot_status
Upsert(m) == {t \in statuses : t.inst # m.inst \/ t.boot # m.boot} \cup {m}

\* the status loop of handle_connection, which keeps the names of the hello
RecordStatus(n) ==
    /\ wire[n] # <<>>
    /\ statuses' = Upsert(Head(wire[n]))
    /\ wire' = [wire EXCEPT ![n] = Tail(@)]
    /\ UNCHANGED <<host, cfgs, old, said>>

\* Mutant: the last word of any boot counts.
LatestStatus(i, b) == {t.state : t \in {u \in statuses : u.inst = i}}

\* get_boot_status
GetBootStatus(i, b) == {t.state : t \in {u \in statuses : u.inst = i /\ u.boot = b}}

\* The store and the connections when the agent process goes.
ConnectionsLost(h) ==
    /\ host' = [h EXCEPT !.vms = {[v EXCEPT !.key = None] : v \in h.vms}]
    /\ cfgs' = [i \in Insts |-> None]
    /\ wire' = [n \in 1 .. MaxVms |-> <<>>]
    /\ old' = old \cup {<<t.inst, t.boot>> : t \in statuses}
                  \cup {<<v.inst, v.boot>> : v \in host.vms}
    /\ UNCHANGED <<statuses, said>>

=============================================================================
