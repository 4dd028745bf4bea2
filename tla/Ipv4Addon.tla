------------------------------ MODULE Ipv4Addon ------------------------------
(***************************************************************************)
(* The dedicated IPv4 add-on: enable_ipv4 and disable_ipv4                 *)
(* (api/v1/env_networking.rs), the projection that materializes it         *)
(* (projections/env_networking.rs) and the hourly cleanup of released      *)
(* addresses (cleanup/worker.rs), over the IPAM tables of migration 00011. *)
(*                                                                         *)
(* Each handler changes two things in separate transactions: the           *)
(* allocation row first, the Env event after it.  Either request may stop  *)
(* between the two, and requests for one environment may overlap.          *)
(*                                                                         *)
(* All environments belong to one organization.  Requests carry no         *)
(* Idempotency-Key, and no route requires IPv4 (the handler refuses then). *)
(* An answer that changes nothing is not a step.  Deleting an environment  *)
(* does not touch its allocation (delete_env), so it is not modelled here. *)
(***************************************************************************)
EXTENDS Integers, Sequences, FiniteSets, FiniteSetsExt

CONSTANTS
    Envs,           \* environments of the organization
    Pool,           \* ipam_ipv4_pool: available addresses, as numbers
    Clients,        \* request handlers running at the same time
    Quota,          \* max_ipv4_allocations of the organization
    MaxAllocs,      \* bound: allocations made in a behaviour
    MaxEvents       \* bound: events appended in a behaviour

ASSUME AddonAssumption ==
    /\ Envs # {}
    /\ Pool \subseteq Nat \ {0}
    /\ {Quota, MaxAllocs, MaxEvents} \subseteq Nat

VARIABLES
    alloc,          \* rows of ipam_ipv4_allocations
    allocs,         \* allocation ids given out: ULIDs, never repeated
    log,            \* committed Env events, in event_id order
    applied,        \* how many of them the projection has applied
    net,            \* env_networking_view
    req,            \* what each handler is doing
    cut             \* history: envs for which a request changed the row, but sent no event

vars == <<alloc, allocs, log, applied, net, req, cut>>

\* released_at and cooldown_until: not released, in cooldown, or past it.
Row == [id : Nat \ {0}, env : Envs, addr : Pool, state : {"active", "cooling", "expired"}]

Event == [env : Envs, kind : {"enabled", "disabled", "other"}, addr : {0} \cup Pool, id : Nat]

NetRow == [status : {"absent", "enabled", "disabled"}, addr : {0} \cup Pool, id : Nat]

Handler ==
    [phase : {"idle", "checked", "selected", "read", "changed", "numbered", "waiting"},
     op : {"enable", "disable"}, env : Envs, addr : {0} \cup Pool, id : Nat, seq : Nat]

TypeOK ==
    /\ alloc \subseteq Row
    /\ allocs \in 0 .. MaxAllocs
    /\ log \in Seq(Event) /\ Len(log) <= MaxEvents
    /\ applied \in 0 .. Len(log)
    /\ net \in [Envs -> NetRow]
    /\ req \in [Clients -> Handler]
    /\ cut \subseteq Envs

----------------------------------------------------------------------------

Idle == [phase |-> "idle", op |-> "enable", env |-> CHOOSE e \in Envs : TRUE,
         addr |-> 0, id |-> 0, seq |-> 0]

Init ==
    /\ alloc = {}
    /\ allocs = 0
    /\ log = <<>>
    /\ applied = 0
    /\ net = [e \in Envs |-> [status |-> "absent", addr |-> 0, id |-> 0]]
    /\ req = [c \in Clients |-> Idle]
    /\ cut = {}

RowsIn(state) == {r \in alloc : r.state = state}

\* check_quota with MaxIpv4Allocations and a delta of 1.
QuotaExceeded == Cardinality(RowsIn("active")) + 1 > Quota

\* The addresses with no row that is unreleased or in cooldown.
Selectable == Pool \ {r.addr : r \in RowsIn("active") \cup RowsIn("cooling")}

\* aggregate_seq of the environment's last event.
SeqOf(e) == Cardinality({i \in 1 .. Len(log) : log[i].env = e})

\* enable_ipv4 up to the idempotency check: quota and view let the request through.
EnableCheck(c, e) ==
    /\ req[c].phase = "idle"
    /\ ~QuotaExceeded
    /\ net[e].status # "enabled"
    /\ req' = [req EXCEPT ![c] = [Idle EXCEPT !.phase = "checked", !.env = e]]
    /\ UNCHANGED <<alloc, allocs, log, applied, net, cut>>

\* SELECT ... ORDER BY ipv4_address LIMIT 1 FOR UPDATE SKIP LOCKED.  The row lock lasts
\* for the statement only, so it skips addresses other handlers are selecting just now.
SelectAddress(c) ==
    /\ req[c].phase = "checked"
    /\ \E locked \in SUBSET Selectable :
        /\ Cardinality(locked) <= Cardinality({d \in Clients \ {c} : req[d].phase = "checked"})
        /\ req' = [req EXCEPT ![c] =
                    IF Selectable \ locked = {} THEN Idle    \* ipv4_pool_exhausted
                    ELSE [@ EXCEPT !.phase = "selected", !.addr = Min(Selectable \ locked)]]
    /\ UNCHANGED <<alloc, allocs, log, applied, net, cut>>

\* The row the handler inserts.
NewRow(c) == [id |-> allocs + 1, env |-> req[c].env, addr |-> req[c].addr, state |-> "active"]

Inserted(c) ==
    /\ alloc' = alloc \cup {NewRow(c)}
    /\ allocs' = allocs + 1
    /\ req' = [req EXCEPT ![c].phase = "changed", ![c].id = allocs + 1]

\* Mutant: only the address is unique.
InsertByAddress(c) ==
    /\ req[c].phase = "selected"
    /\ allocs < MaxAllocs
    /\ IF \E r \in alloc : r.addr = req[c].addr
       THEN req' = [req EXCEPT ![c] = Idle] /\ UNCHANGED <<alloc, allocs>>
       ELSE Inserted(c)
    /\ UNCHANGED <<log, applied, net, cut>>

\* INSERT INTO ipam_ipv4_allocations: env_id and ipv4_address are unique among all rows,
\* the released ones too.  A violation ends the request with a 500.
InsertAllocation(c) ==
    /\ req[c].phase = "selected"
    /\ allocs < MaxAllocs
    /\ IF \E r \in alloc : r.env = req[c].env \/ r.addr = req[c].addr
       THEN req' = [req EXCEPT ![c] = Idle] /\ UNCHANGED <<alloc, allocs>>
       ELSE Inserted(c)
    /\ UNCHANGED <<log, applied, net, cut>>

\* disable_ipv4: the view names the allocation to release.
DisableRead(c, e) ==
    /\ req[c].phase = "idle"
    /\ net[e].status = "enabled"
    /\ req' = [req EXCEPT ![c] = [Idle EXCEPT !.phase = "read", !.op = "disable", !.env = e,
                                              !.id = net[e].id]]
    /\ UNCHANGED <<alloc, allocs, log, applied, net, cut>>

\* UPDATE ... SET released_at, cooldown_until WHERE allocation_id = $1 AND released_at IS NULL
ReleaseAllocation(c) ==
    /\ req[c].phase = "read"
    /\ alloc' = {IF r.id = req[c].id /\ r.state = "active" THEN [r EXCEPT !.state = "cooling"]
                 ELSE r : r \in alloc}
    /\ req' = [req EXCEPT ![c].phase = "changed"]
    /\ UNCHANGED <<allocs, log, applied, net, cut>>

NumberEvent(c) ==
    /\ req[c].phase = "changed"
    /\ req' = [req EXCEPT ![c].phase = "numbered", ![c].seq = SeqOf(req[c].env) + 1]
    /\ UNCHANGED <<alloc, allocs, log, applied, net, cut>>

EventOf(c) ==
    [env |-> req[c].env, kind |-> IF req[c].op = "enable" THEN "enabled" ELSE "disabled",
     addr |-> req[c].addr, id |-> req[c].id]

\* append: the event is committed.
AppendEvent(c) ==
    /\ req[c].phase = "numbered"
    /\ req[c].seq = SeqOf(req[c].env) + 1
    /\ Len(log) < MaxEvents
    /\ log' = Append(log, EventOf(c))
    /\ req' = [req EXCEPT ![c].phase = "waiting"]
    /\ UNCHANGED <<alloc, allocs, applied, net, cut>>

\* append: another event of the environment took the number.  The handler answers 500
\* and leaves the row as it changed it.
AppendConflict(c) ==
    /\ req[c].phase = "numbered"
    /\ req[c].seq <= SeqOf(req[c].env)
    /\ req' = [req EXCEPT ![c] = Idle]
    /\ cut' = cut \cup {req[c].env}
    /\ UNCHANGED <<alloc, allocs, log, applied, net>>

\* wait_for_checkpoint returns or times out; the handler answers.
Answer(c) ==
    /\ req[c].phase = "waiting"
    /\ req' = [req EXCEPT ![c] = Idle]
    /\ UNCHANGED <<alloc, allocs, log, applied, net, cut>>

\* A query fails, the client disconnects or the process dies.
Abort(c) ==
    /\ req[c].phase \in {"checked", "selected", "read", "changed", "numbered"}
    /\ req' = [req EXCEPT ![c] = Idle]
    /\ cut' = IF req[c].phase \in {"changed", "numbered"} THEN cut \cup {req[c].env} ELSE cut
    /\ UNCHANGED <<alloc, allocs, log, applied, net>>

\* Another command of the environment, update_scale for one, appends its event.
OtherEvent(e) ==
    /\ Len(log) < MaxEvents
    /\ log' = Append(log, [env |-> e, kind |-> "other", addr |-> 0, id |-> 0])
    /\ UNCHANGED <<alloc, allocs, applied, net, req, cut>>

\* handle_ipv4_enabled and handle_ipv4_disabled
NetRowAfter(row, ev) ==
    CASE ev.kind = "enabled" -> [status |-> "enabled", addr |-> ev.addr, id |-> ev.id]
      [] ev.kind = "disabled" /\ row.status # "absent" ->
            [status |-> "disabled", addr |-> 0, id |-> 0]
      [] OTHER -> row

Project ==
    /\ applied < Len(log)
    /\ applied' = applied + 1
    /\ LET ev == log[applied + 1] IN net' = [net EXCEPT ![ev.env] = NetRowAfter(@, ev)]
    /\ UNCHANGED <<alloc, allocs, log, req, cut>>

\* cooldown_until passes, 24 hours after the release: by then every request has ended
\* and the projection has applied their events.
CooldownEnds(r) ==
    /\ r.state = "cooling"
    /\ applied = Len(log)
    /\ \A c \in Clients : req[c].phase = "idle"
    /\ alloc' = (alloc \ {r}) \cup {[r EXCEPT !.state = "expired"]}
    /\ UNCHANGED <<allocs, log, applied, net, req, cut>>

\* Mutant: rows are deleted by age, released or not.
CleanupByAge(r) ==
    /\ r.state # "cooling"
    /\ alloc' = alloc \ {r}
    /\ UNCHANGED <<allocs, log, applied, net, req, cut>>

\* cleanup_ipv4_cooldowns: the row is deleted once its cooldown ended a day ago.
CleanupCooldown(r) ==
    /\ r.state = "expired"
    /\ alloc' = alloc \ {r}
    /\ UNCHANGED <<allocs, log, applied, net, req, cut>>

Next ==
    \/ \E c \in Clients :
        \/ \E e \in Envs : EnableCheck(c, e) \/ DisableRead(c, e)
        \/ SelectAddress(c)
        \/ InsertAllocation(c)
        \/ ReleaseAllocation(c)
        \/ NumberEvent(c)
        \/ AppendEvent(c)
        \/ AppendConflict(c)
        \/ Answer(c)
        \/ Abort(c)
    \/ \E e \in Envs : OtherEvent(e)
    \/ Project
    \/ \E r \in alloc : CooldownEnds(r) \/ CleanupCooldown(r)

Spec == Init /\ [][Next]_vars

----------------------------------------------------------------------------

\* The environment's add-on as the log has it: its last enabled or disabled event.
IsLatest(e, i) ==
    /\ log[i].env = e /\ log[i].kind # "other"
    /\ \A j \in i + 1 .. Len(log) : log[j].env = e => log[j].kind = "other"

Announced(e) == {log[i].id : i \in {j \in 1 .. Len(log) : IsLatest(e, j) /\ log[j].kind = "enabled"}}

\* A request for the environment is between its two transactions.
InFlight(e) == \E c \in Clients : req[c].env = e /\ req[c].phase \in {"changed", "numbered"}

\* The IPAM rows and the event log agree: outside a request, an environment holds an
\* unreleased row exactly when its last add-on event announced that very allocation
\* (enable_ipv4 inserts before it appends, disable_ipv4 releases before it appends),
\* unless a request was cut short in between.
RowsMatchLog ==
    \A e \in Envs : ~InFlight(e) /\ e \notin cut =>
        {r.id : r \in {s \in alloc : s.env = e /\ s.state = "active"}} = Announced(e)

\* Two environments never serve the same address at the same time, unless a disable was
\* cut short after it had released the row (env_networking_view is what the edge reads).
ExclusiveUnlessCut ==
    \A e, f \in Envs \ cut :
        e # f /\ net[e].status = "enabled" /\ net[f].status = "enabled" => net[e].addr # net[f].addr

============================================================================
