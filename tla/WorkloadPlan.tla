---------------------------- MODULE WorkloadPlan ----------------------------
(***************************************************************************)
(* The assignments of a plan, as api/v1/nodes.rs and grpc/node_agent.rs    *)
(* each build them from a row, and as grpc_client.rs reads the second.     *)
(* Digests are named by the architecture they are for; "index" is the      *)
(* image's index or manifest digest.                                       *)
(***************************************************************************)
EXTENDS Integers, Sequences

CONSTANT None       \* an absent option

DefaultMtu == 1420
DefaultDrainGrace == 10
DefaultArch == "amd64"

\* A row: its release's resolved digests, its secrets version, its address, its memory
\* snapshot, the mounts of its process type, and the label and the MTU of its node.
PlanRow(id, desired, digests, secrets, addr, memory, mounts, arch, mtu) ==
    [id |-> id, desired |-> desired, digests |-> digests, secrets |-> secrets, addr |-> addr,
     memory |-> memory, mounts |-> mounts, arch |-> arch, mtu |-> mtu]

OrDefault(v, d) == IF v = None THEN d ELSE v

\* Mutant: without an entry for the node's architecture the first one is taken.
FirstDigest(entries, arch) ==
    LET found == {i \in 1 .. Len(entries) : entries[i] = arch}
    IN  IF found # {} THEN arch ELSE IF entries # <<>> THEN entries[1] ELSE None

\* select_resolved_digest: the node's architecture, or the only entry there is.
SelectResolvedDigest(entries, arch) ==
    LET found == {i \in 1 .. Len(entries) : entries[i] = arch}
    IN  IF arch # None /\ found # {} THEN arch
        ELSE IF Len(entries) = 1 THEN entries[1] ELSE None

\* workload_image_from_row
WorkloadImageFromRow(row) ==
    LET resolved == SelectResolvedDigest(row.digests, row.arch)
    IN  [resolved |-> OrDefault(resolved, "index"),
         arch |-> OrDefault(resolved, OrDefault(row.arch, DefaultArch)),
         index |-> IF resolved = None THEN None ELSE "index"]

\* resources_from_snapshot: a missing memory limit is 512 MB, one unit.
ResourcesFromSnapshot(memory) == [memory |-> OrDefault(memory, 1)]

\* workload_spec_from_row: no mounts are no list.
WorkloadSpecFromRow(row) ==
    [image |-> WorkloadImageFromRow(row),
     resources |-> ResourcesFromSnapshot(row.memory),
     mounts |-> IF row.mounts = <<>> THEN None ELSE row.mounts,
     secrets |-> row.secrets,
     addr |-> OrDefault(row.addr, 1),
     mtu |-> OrDefault(row.mtu, DefaultMtu)]

\* load_volume_mounts: one query for all instances of a plan, by the environments and by the
\* process types they have; its rows are then grouped by the pair.
LoadVolumeMounts(insts, attachments) ==
    LET rows == {a \in attachments : /\ ~a.deleted
                                    /\ a.env \in {i.env : i \in insts}
                                    /\ a.ptype \in {i.ptype : i \in insts}}
    IN  [k \in {<<a.env, a.ptype>> : a \in rows} |->
            {a.volume : a \in {b \in rows : <<b.env, b.ptype>> = k}}]

\* assignment_from_row: the mounts of an instance, if the map has any.
MountsFor(mounts, i) ==
    IF <<i.env, i.ptype>> \in DOMAIN mounts THEN mounts[<<i.env, i.ptype>>] ELSE {}

\* desired_state_requires_workload
RequiresWorkload(desired) == desired \in {"running", "draining"}

\* assignment_from_row
AssignmentFromRow(row) ==
    [inst |-> row.id, desired |-> row.desired,
     grace |-> IF row.desired = "draining" THEN DefaultDrainGrace ELSE None,
     workload |-> IF RequiresWorkload(row.desired) THEN WorkloadSpecFromRow(row) ELSE None]

----------------------------------------------------------------------------
(* grpc/node_agent.rs                                                        *)

GrpcSelectResolvedDigest(entries, arch) ==
    LET found == {i \in 1 .. Len(entries) : entries[i] = arch}
    IN  IF arch # None /\ found # {} THEN arch
        ELSE IF Len(entries) = 1 THEN entries[1] ELSE None

GrpcWorkloadImageFromRow(row) ==
    LET resolved == GrpcSelectResolvedDigest(row.digests, row.arch)
    IN  [resolved |-> OrDefault(resolved, "index"),
         arch |-> OrDefault(resolved, OrDefault(row.arch, DefaultArch)),
         index |-> IF resolved = None THEN None ELSE "index"]

GrpcResourcesFromSnapshot(memory) == [memory |-> OrDefault(memory, 1)]

\* The lists of a message are empty rather than absent.
GrpcWorkloadSpecFromRow(row) ==
    [image |-> GrpcWorkloadImageFromRow(row),
     resources |-> GrpcResourcesFromSnapshot(row.memory),
     mounts |-> row.mounts,
     secrets |-> row.secrets,
     addr |-> OrDefault(row.addr, 1),
     mtu |-> OrDefault(row.mtu, DefaultMtu)]

GrpcLoadVolumeMounts(insts, attachments) == LoadVolumeMounts(insts, attachments)

\* InstanceDesiredState of the message
DesiredToProto(desired) ==
    IF desired \in {"running", "draining", "stopped"} THEN desired ELSE "unspecified"

GrpcAssignmentFromRow(row) ==
    [inst |-> row.id, desired |-> DesiredToProto(row.desired),
     grace |-> IF row.desired = "draining" THEN DefaultDrainGrace ELSE None,
     workload |-> IF RequiresWorkload(row.desired) THEN GrpcWorkloadSpecFromRow(row) ELSE None]

\* map_instance_desired_state
DesiredFromProto(desired) == IF desired = "unspecified" THEN "stopped" ELSE desired

\* ControlPlaneGrpcClient::fetch_plan, the closure over the workload of an instance
WorkloadFromProto(w) == [w EXCEPT !.mounts = IF w.mounts = <<>> THEN None ELSE w.mounts]

\* ControlPlaneGrpcClient::fetch_plan
AssignmentFromProto(a) ==
    [a EXCEPT !.desired = DesiredFromProto(a.desired),
              !.workload = IF a.workload = None THEN None ELSE WorkloadFromProto(a.workload)]

=============================================================================
