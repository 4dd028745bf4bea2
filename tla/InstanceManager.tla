--------------------------- MODULE InstanceManager ---------------------------
(***************************************************************************)
(* The agent's polling loop (VT_USE_LEGACY): it fetches the node's plan,   *)
(* stops and starts instances one after the other, reads what the guests   *)
(* said, and reports changes of status.                                    *)
(***************************************************************************)
EXTENDS GuestBoot

VARIABLES
    plan,   \* the control plane's: [cursor, want]; want[i] is "absent", "draining",
            \* "stopped" or a release to run
    insts,  \* InstanceManager.instances
    job,    \* what is left of the plan being applied, NoJob between plans
    cursor  \* last_cursor_event_id

mvars == <<insts, job, cursor>>

NotThere == [rel |-> None, status |-> "none", reported |-> "none", boot |-> None, n |-> None]
NoJob == [on |-> FALSE, stops |-> {}, wants |-> {}, plan |-> [cursor |-> 0, want |-> <<>>]]

ManagerInit ==
    /\ insts = [i \in Insts |-> NotThere]
    /\ job = NoJob
    /\ cursor = 0

Runs(w) == w \in Releases

\* reconcile: a plan older than the last one is left alone; a plan's id is new every time it
\* is fetched. apply_plan stops first what the plan does not name.
Reconcile ==
    /\ ~job.on
    /\ plan.cursor >= cursor
    /\ job' = [on |-> TRUE, plan |-> plan, wants |-> {i \in Insts : plan.want[i] # "absent"},
               stops |-> {i \in Insts : insts[i] # NotThere /\ plan.want[i] = "absent"}]
    /\ UNCHANGED <<insts, cursor>>
    /\ UNCHANGED gvars

\* What start_instance leaves, given what start_vm returned.
Started(i, r, s) ==
    [rel |-> r, status |-> IF s.ok THEN "booting" ELSE "failed", reported |-> "none",
     boot |-> IF s.ok THEN s.host.table[i].boot ELSE None,
     n |-> IF s.ok THEN s.host.table[i].n ELSE None]

\* start_instance: the configuration is there before the VM and goes if it does not start.
StartInstance(h, i, r) ==
    \/ \E s \in StartVm(h, i, r) :
         /\ host' = s.host
         /\ insts' = [insts EXCEPT ![i] = Started(i, r, s)]
         /\ cfgs' = IF s.ok THEN AddConfig(i, r) ELSE RemoveConfig(i)
    \/ /\ r \in WithSecrets /\ h.faults < MaxFaults
       /\ host' = Spend(h)
       /\ insts' = [insts EXCEPT ![i] = Started(i, r, [ok |-> FALSE])]
       /\ cfgs' = RemoveConfig(i)

\* Mutant: what has failed is taken to have stopped.
StopHealthy(i) ==
    IF insts[i] = NotThere \/ insts[i].status = "failed" THEN UNCHANGED <<host, insts, cfgs>>
    ELSE /\ host' = IF insts[i].n = None THEN host ELSE StopVm(host, i)
         /\ insts' = [insts EXCEPT ![i].status = "stopped", ![i].n = None]
         /\ cfgs' = RemoveConfig(i)

\* stop_instance: whatever stop_vm says, the instance is stopped and has no handle.
StopInstance(i) ==
    IF insts[i] = NotThere THEN UNCHANGED <<host, insts, cfgs>>
    ELSE /\ host' = IF insts[i].n = None THEN host ELSE StopVm(host, i)
         /\ insts' = [insts EXCEPT ![i].status = "stopped", ![i].n = None]
         /\ cfgs' = RemoveConfig(i)

\* ensure_instance, where nothing is stopped by it
EnsureNew(i, r) == insts[i] = NotThere /\ StartInstance(host, i, r)
EnsureSame(i, r) == insts[i].rel = r /\ UNCHANGED <<host, insts, cfgs>>

\* ensure_instance of an instance whose release or image has changed
EnsureChanged(i, r) ==
    /\ insts[i] # NotThere /\ insts[i].rel # r
    /\ StartInstance(IF insts[i].n = None THEN host ELSE StopVm(host, i), i, r)

EnsureInstance(i, r) == EnsureNew(i, r) \/ EnsureSame(i, r) \/ EnsureChanged(i, r)

\* the two loops of apply_plan, assignments in the order of the plan
ApplyStop(i) ==
    /\ job.on /\ i \in job.stops
    /\ StopInstance(i)
    /\ job' = [job EXCEPT !.stops = @ \ {i}]
    /\ UNCHANGED <<cursor, wire, statuses, old, said>>

ApplyWant(i) ==
    /\ job.on /\ job.stops = {} /\ i \in job.wants /\ \A k \in job.wants : i <= k
    /\ IF Runs(job.plan.want[i]) THEN EnsureInstance(i, job.plan.want[i]) ELSE StopInstance(i)
    /\ job' = [job EXCEPT !.wants = @ \ {i}]
    /\ UNCHANGED <<cursor, wire, statuses, old, said>>

\* get_pending_status_reports; a report may fail and is sent again the next time.
Unreported(f) == {i \in Insts : f[i].status # f[i].reported}
Reported(f, done) == [i \in Insts |-> IF i \in done THEN [f[i] EXCEPT !.reported = f[i].status]
                                      ELSE f[i]]

\* the end of apply_plan and report_status_transitions
FinishPlan ==
    /\ job.on /\ job.stops = {} /\ job.wants = {}
    /\ cursor' = job.plan.cursor
    /\ job' = NoJob
    /\ \E done \in SUBSET Unreported(insts) : insts' = Reported(insts, done)
    /\ UNCHANGED gvars

\* update_from_boot_status
FromBootStatus(x, i) ==
    IF x.status # "booting" \/ x.boot = None THEN x
    ELSE IF "ready" \in GetBootStatus(i, x.boot) THEN [x EXCEPT !.status = "ready"]
    ELSE IF GetBootStatus(i, x.boot) \cap {"failed", "exited"} # {}
         THEN [x EXCEPT !.status = "failed"] ELSE x

\* check_health: a ready instance whose VM does not answer has failed.
FromHealth(x, healthy) ==
    IF x.n # None /\ x.status = "ready" /\ healthy = FALSE THEN [x EXCEPT !.status = "failed"]
    ELSE x

\* the reconciler's check_health, between two plans
HealthTick ==
    /\ ~job.on
    /\ LET seen == [i \in Insts |-> FromBootStatus(insts[i], i)]
           sick == {i \in Insts : FALSE \in CheckVmHealth(host, i)}
           dead == {i \in sick : TRUE \notin CheckVmHealth(host, i)}
       IN  \E bad \in SUBSET sick :
             /\ dead \subseteq bad
             /\ Cardinality(bad \ dead) <= 1
             /\ host' = IF bad = dead THEN host ELSE Spend(host)
             /\ LET after == [i \in Insts |-> FromHealth(seen[i], i \notin bad)]
                IN  \E done \in SUBSET Unreported(after) : insts' = Reported(after, done)
    /\ UNCHANGED <<job, cursor, cfgs, wire, statuses, old, said>>

=============================================================================
