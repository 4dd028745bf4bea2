------------------------------ MODULE VmRuntime ------------------------------
(***************************************************************************)
(* A node's host as the Firecracker runtime sees it: the processes it has  *)
(* spawned, its table of instances, the TAP devices and the references to  *)
(* root disks.  The operators map one host to the next, so that a handler  *)
(* that stops and starts a VM composes them.                               *)
(***************************************************************************)
EXTENDS Integers, Sequences, FiniteSets

CONSTANTS
    Insts,      \* instance ids, numbers
    Releases,   \* a release stands for its image digest and the rest of its plan
    Volumes,    \* [Releases -> Seq(Nat)]: the volumes a plan of the release mounts
    MaxVms,     \* bound on Firecracker processes spawned
    MaxFaults   \* bound on failures that are nobody's doing

None == 0

ASSUME RuntimeAssumption ==
    /\ Insts \subseteq Nat /\ MaxVms \in Nat /\ MaxFaults \in Nat
    /\ None \notin Releases
    /\ Volumes \in [Releases -> Seq(Nat)]
    \* load_volume_mounts orders the mounts of a plan by volume_id.
    /\ \A r \in Releases : \A j, k \in 1 .. Len(Volumes[r]) : j <= k => Volumes[r][j] <= Volumes[r][k]

\* InstanceState of the runtime: n is the process, None for no entry.
NoEntry == [n |-> None, boot |-> None, rel |-> None]

\* FirecrackerRuntime::new, on a host with nothing running. refs is the image cache's count,
\* boots the boot_counter. Two records of the model: lost are processes that no table names any
\* more, kept counts the references of starts that gave up between ensure_image and the socket.
EmptyHost ==
    [vms |-> {}, table |-> [i \in Insts |-> NoEntry], taps |-> {},
     refs |-> [r \in Releases |-> 0], kept |-> [r \in Releases |-> 0],
     spawned |-> 0, boots |-> 0, lost |-> {}, faults |-> 0]

Live(h) == {v.n : v \in h.vms}
Spend(h) == [h EXCEPT !.faults = @ + 1]

\* next_boot_id
NextBootId(h) == h.boots + 1

\* The order of drives after the root and scratch disks: sorted by volume id, so the kth is the
\* one with fewer than k below it and at least k up to it.
Drives(vols) ==
    [k \in 1 .. Len(vols) |->
        CHOOSE v \in {vols[j] : j \in 1 .. Len(vols)} :
            /\ Cardinality({j \in 1 .. Len(vols) : vols[j] < v}) < k
            /\ Cardinality({j \in 1 .. Len(vols) : vols[j] <= v}) >= k]

\* A process of start_firecracker_direct; guest is what its guest has come to, conf the
\* config message it took, key the boot id it says hello with.
Spawned(h, i, r, guest) ==
    [n |-> h.spawned + 1, inst |-> i, boot |-> NextBootId(h), rel |-> r, guest |-> guest,
     conf |-> {}, key |-> None]

\* create_tap: the kernel refuses a name that is taken; every later failure deletes the device.
CreateTap(h, i) == i \notin h.taps
DeleteTap(h, i) == h.taps \ {i}

\* ensure_image fails, or the image reference does not parse.
ImageFails(h) == [Spend(h) EXCEPT !.boots = NextBootId(h)]

\* start_firecracker_direct: the directory or the process cannot be made. The image is not
\* released.
SpawnFails(h, r) ==
    [Spend(h) EXCEPT !.boots = NextBootId(h), !.refs[r] = @ + 1, !.kept[r] = @ + 1]

\* start_firecracker_direct: the socket does not appear in time. The child is neither killed
\* nor kept (it may exit, see StuckExits of GuestBoot), and the image is not released.
SocketMissing(h, i, r) ==
    [SpawnFails(h, r) EXCEPT !.spawned = @ + 1, !.vms = @ \cup {Spawned(h, i, r, "none")},
                             !.lost = @ \cup {h.spawned + 1}]

\* ensure_scratch_disk or configure_and_boot fails: the child is killed, the image released,
\* a TAP device made on the way deleted with its handle.
ConfigureFails(h) == [h EXCEPT !.boots = NextBootId(h), !.spawned = @ + 1]

\* configure_and_boot succeeds. It needs the name of the TAP device to be free.
Booted(h, i, r) ==
    [h EXCEPT !.boots = NextBootId(h), !.spawned = @ + 1, !.refs[r] = @ + 1,
              !.vms = @ \cup {Spawned(h, i, r, "boot")}, !.taps = @ \cup {i},
              !.table[i] = [n |-> h.spawned + 1, boot |-> NextBootId(h), rel |-> r],
              !.lost = @ \cup (IF h.table[i].n \in Live(h) THEN {h.table[i].n} ELSE {})]

\* start_vm: the hosts it may leave, with whether it returned a handle, up to MaxVms processes.
StartVm(h, i, r) ==
    {s \in {[ok |-> CreateTap(h, i), host |-> IF CreateTap(h, i) THEN Booted(h, i, r) ELSE ConfigureFails(h)]}
           \cup (IF h.faults < MaxFaults
                 THEN {[ok |-> FALSE, host |-> g] : g \in {ImageFails(h), SpawnFails(h, r),
                                                           SocketMissing(h, i, r),
                                                           ConfigureFails(Spend(h))}}
                 ELSE {}) : s.host.spawned <= MaxVms}

\* Mutant: the entry goes, the process stays.
StopForgets(h, i) ==
    IF h.table[i] = NoEntry THEN h
    ELSE [h EXCEPT !.table[i] = NoEntry, !.taps = DeleteTap(h, i), !.refs[h.table[i].rel] = @ - 1]

\* stop_vm: nothing to do but an error when the table has no entry.
StopVm(h, i) ==
    IF h.table[i] = NoEntry THEN h
    ELSE [h EXCEPT !.table[i] = NoEntry, !.taps = DeleteTap(h, i),
                   !.vms = {v \in @ : v.n # h.table[i].n},
                   !.refs[h.table[i].rel] = IF @ = 0 THEN 0 ELSE @ - 1]

\* check_vm_health: {} is the error of a missing entry; a running VM may fail to answer.
CheckVmHealth(h, i) ==
    IF h.table[i] = NoEntry THEN {}
    ELSE IF h.table[i].n \notin Live(h) THEN {FALSE}
    ELSE IF h.faults < MaxFaults THEN {TRUE, FALSE} ELSE {TRUE}

\* A process exits by itself, with its guest.
VmExits(h, n) == [h EXCEPT !.vms = {v \in @ : v.n # n}]

\* The agent process ends and another one starts: tables and counters are gone, processes and
\* TAP devices are not. A reboot of the host takes those as well.
AgentRestarts(h) ==
    [h EXCEPT !.table = [i \in Insts |-> NoEntry], !.refs = [r \in Releases |-> 0],
              !.kept = [r \in Releases |-> 0], !.boots = 0, !.lost = Live(h)]

HostReboots(h) == [AgentRestarts(h) EXCEPT !.vms = {}, !.taps = {}, !.lost = {}]

=============================================================================
