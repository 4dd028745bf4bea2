----------------------------- MODULE EnvCommands -----------------------------
(***************************************************************************)
(* The commands on one environment (api/v1/envs.rs) with the projections   *)
(* that materialize it (projections/envs.rs, env_config.rs, deploys.rs).   *)
(*                                                                         *)
(* Every command reads a view, appends one event to the Env aggregate and  *)
(* waits for the projection.  The commands number their event differently: *)
(* update_env and delete_env take resource_version + 1 of the envs_view    *)
(* row, update_scale takes MAX(aggregate_seq) + 1 of the log.  The unique  *)
(* index on the aggregate's sequence numbers then decides.                 *)
(*                                                                         *)
(* The history is the sequence of the aggregate's events: log[i] has       *)
(* aggregate_seq i (EventStore, DenseHistory).  The worker applies it in   *)
(* order (ProjectionWorker, AppliedOnceInOrder), so `applied` is the       *)
(* length of its applied prefix.  Requests carry no Idempotency-Key.       *)
(***************************************************************************)
EXTENDS Integers, Sequences

CONSTANTS
    Clients,        \* request handlers running at the same time
    MaxEvents       \* bound: events of the aggregate

ASSUME EnvAssumption == MaxEvents \in Nat

VARIABLES
    log,            \* committed events of the Env aggregate
    applied,        \* how many of them the projections have applied
    env,            \* the envs_view row
    scaleVersion,   \* MAX(resource_version) of the env_scale_view rows, 0 if none
    req             \* the request each client is handling, or has answered

vars == <<log, applied, env, scaleVersion, req>>

Event == [kind : {"created", "updated", "deleted", "scale_set"}, expected : Nat]

\* is_deleted and resource_version; "absent" is a row not materialized yet.
EnvRow == [status : {"absent", "live", "deleted"}, version : Nat]

Answers == {"none", "ok", "not_found", "version_conflict", "name_exists",
            "internal_error", "timeout"}

(***************************************************************************)
(* `expected` is the request's expected_version, `seq` the number its      *)
(* event will take or has taken, `version` the resource_version it         *)
(* returned.                                                               *)
(***************************************************************************)
Request ==
    [phase : {"idle", "numbering", "loaded", "waiting", "answered"},
     op : {"update", "delete", "scale"}, expected : Nat, seq : Nat,
     answer : Answers, version : Nat]

TypeOK ==
    /\ log \in Seq(Event)
    /\ applied \in 0 .. Len(log)
    /\ env \in EnvRow
    /\ scaleVersion \in Nat
    /\ req \in [Clients -> Request]

----------------------------------------------------------------------------

Init ==
    /\ log = <<>>
    /\ applied = 0
    /\ env = [status |-> "absent", version |-> 0]
    /\ scaleVersion = 0
    /\ req = [c \in Clients |->
                [phase |-> "idle", op |-> "update", expected |-> 0, seq |-> 0,
                 answer |-> "none", version |-> 0]]

\* WHERE env_id = $1 AND NOT is_deleted
Visible == env.status = "live"

CanReceive(c) == req[c].phase \in {"idle", "answered"}

Answered(op, v, answer) ==
    [phase |-> "answered", op |-> op, expected |-> v, seq |-> 0,
     answer |-> answer, version |-> 0]

\* The handler has read its view and holds expected version v and sequence number s.
Loaded(phase, op, v, s) ==
    [phase |-> phase, op |-> op, expected |-> v, seq |-> s,
     answer |-> "none", version |-> 0]

Respond(c, answer, version) ==
    req' = [req EXCEPT ![c].phase = "answered", ![c].answer = answer, ![c].version = version]

Append1(event) ==
    /\ Len(log) < MaxEvents
    /\ log' = Append(log, event)

\* create_env: the env_id is a new ULID, so its first event has no rival.
CreateEnv ==
    /\ log = <<>>
    /\ Append1([kind |-> "created", expected |-> 0])
    /\ UNCHANGED <<applied, env, scaleVersion, req>>

\* Mutant: expected_version is not compared with the row.
UpdateUnconditionally(c, v) ==
    /\ CanReceive(c)
    /\ req' = [req EXCEPT ![c] =
                IF ~Visible THEN Answered("update", v, "not_found")
                ELSE Loaded("loaded", "update", v, env.version + 1)]
    /\ UNCHANGED <<log, applied, env, scaleVersion>>

\* update_env up to the name check: load the row, compare versions, number the event.
LoadForUpdate(c, v) ==
    /\ CanReceive(c)
    /\ req' = [req EXCEPT ![c] =
                IF ~Visible THEN Answered("update", v, "not_found")
                ELSE IF v # env.version THEN Answered("update", v, "version_conflict")
                ELSE Loaded("loaded", "update", v, env.version + 1)]
    /\ UNCHANGED <<log, applied, env, scaleVersion>>

\* Another environment of the application has the new name.
NameExists(c) ==
    /\ req[c].phase = "loaded"
    /\ req[c].op = "update"
    /\ Respond(c, "name_exists", 0)
    /\ UNCHANGED <<log, applied, env, scaleVersion>>

\* Mutant: the delete takes its number from the log, as update_scale does.
DeleteNumberedByLog(c) ==
    /\ CanReceive(c)
    /\ req' = [req EXCEPT ![c] =
                IF env.status = "absent" THEN Answered("delete", 0, "not_found")
                ELSE IF env.status = "deleted" THEN Answered("delete", 0, "ok")
                ELSE Loaded("loaded", "delete", 0, Len(log) + 1)]
    /\ UNCHANGED <<log, applied, env, scaleVersion>>

\* delete_env: a row already deleted answers ok, otherwise its version numbers the event.
LoadForDelete(c) ==
    /\ CanReceive(c)
    /\ req' = [req EXCEPT ![c] =
                IF env.status = "absent" THEN Answered("delete", 0, "not_found")
                ELSE IF env.status = "deleted" THEN Answered("delete", 0, "ok")
                ELSE Loaded("loaded", "delete", 0, env.version + 1)]
    /\ UNCHANGED <<log, applied, env, scaleVersion>>

\* update_scale: load_scale_state and the version check.
LoadForScale(c, v) ==
    /\ CanReceive(c)
    /\ req' = [req EXCEPT ![c] =
                IF ~Visible THEN Answered("scale", v, "not_found")
                ELSE IF v # scaleVersion THEN Answered("scale", v, "version_conflict")
                ELSE Loaded("numbering", "scale", v, 0)]
    /\ UNCHANGED <<log, applied, env, scaleVersion>>

\* update_scale: get_latest_aggregate_seq, a second query after the version check.
NumberScale(c) ==
    /\ req[c].phase = "numbering"
    /\ req' = [req EXCEPT ![c].phase = "loaded", ![c].seq = Len(log) + 1]
    /\ UNCHANGED <<log, applied, env, scaleVersion>>

EventOf(c) ==
    [kind |-> CASE req[c].op = "update" -> "updated"
                [] req[c].op = "delete" -> "deleted"
                [] req[c].op = "scale" -> "scale_set",
     expected |-> req[c].expected]

\* append: the number is free, the event is committed, the handler waits for it.
AppendEvent(c) ==
    /\ req[c].phase = "loaded"
    /\ req[c].seq = Len(log) + 1
    /\ Append1(EventOf(c))
    /\ req' = [req EXCEPT ![c].phase = "waiting"]
    /\ UNCHANGED <<applied, env, scaleVersion>>

\* append: the number is taken; the handler turns the conflict into a 500.
AppendConflict(c) ==
    /\ req[c].phase = "loaded"
    /\ req[c].seq <= Len(log)
    /\ Respond(c, "internal_error", 0)
    /\ UNCHANGED <<log, applied, env, scaleVersion>>

\* Mutant: the handler answers from the views without waiting for its event.
AnswerAtOnce(c) ==
    /\ req[c].phase = "waiting"
    /\ CASE req[c].op = "delete" -> Respond(c, "ok", 0)
         [] req[c].op = "update" -> Respond(c, IF Visible THEN "ok" ELSE "internal_error", env.version)
         [] req[c].op = "scale"  -> Respond(c, IF Visible THEN "ok" ELSE "not_found", scaleVersion)
    /\ UNCHANGED <<log, applied, env, scaleVersion>>

\* wait_for_checkpoint returns: the handler reads the views back and answers.
AnswerMaterialized(c) ==
    /\ req[c].phase = "waiting"
    /\ applied >= req[c].seq
    /\ CASE req[c].op = "delete" -> Respond(c, "ok", 0)
         [] req[c].op = "update" -> Respond(c, IF Visible THEN "ok" ELSE "internal_error", env.version)
         [] req[c].op = "scale"  -> Respond(c, IF Visible THEN "ok" ELSE "not_found", scaleVersion)
    /\ UNCHANGED <<log, applied, env, scaleVersion>>

\* The deadline passes first: 504, and the event stays in the log.
ProjectionTimeout(c) ==
    /\ req[c].phase = "waiting"
    /\ Respond(c, "timeout", 0)
    /\ UNCHANGED <<log, applied, env, scaleVersion>>

\* A query fails, or the client disconnects and the handler is dropped.
Abort(c) ==
    /\ req[c].phase \in {"numbering", "loaded", "waiting"}
    /\ Respond(c, "internal_error", 0)
    /\ UNCHANGED <<log, applied, env, scaleVersion>>

\* The envs_view row after an event that projection "envs" handles.
EnvRowAfter(kind) ==
    CASE kind = "created" ->
            [status |-> "live", version |-> IF env.status = "absent" THEN 1 ELSE env.version]
      [] kind = "updated" /\ Visible -> [status |-> "live", version |-> env.version + 1]
      [] kind = "deleted" /\ env.status # "absent" ->
            [status |-> "deleted", version |-> env.version + 1]
      [] OTHER -> env

\* The projection worker applies the next event of the aggregate.
Project ==
    /\ applied < Len(log)
    /\ applied' = applied + 1
    /\ env' = EnvRowAfter(log[applied + 1].kind)
    /\ scaleVersion' = scaleVersion + (IF log[applied + 1].kind = "scale_set" THEN 1 ELSE 0)
    /\ UNCHANGED <<log, req>>

\* Projection "deploys" applies the first deploy: each process type without a scale row
\* gets one at version 1.  Later deploys leave MAX(resource_version) as it is.
DeployScales ==
    /\ applied >= 1
    /\ scaleVersion = 0
    /\ scaleVersion' = 1
    /\ UNCHANGED <<log, applied, env, req>>

Next ==
    \/ CreateEnv
    \/ Project
    \/ DeployScales
    \/ \E c \in Clients :
        \/ \E v \in 0 .. MaxEvents : LoadForUpdate(c, v) \/ LoadForScale(c, v)
        \/ LoadForDelete(c)
        \/ NameExists(c)
        \/ NumberScale(c)
        \/ AppendEvent(c)
        \/ AppendConflict(c)
        \/ AnswerMaterialized(c)
        \/ ProjectionTimeout(c)
        \/ Abort(c)

Spec == Init /\ [][Next]_vars

----------------------------------------------------------------------------

\* An accepted update_env was made on exactly the environment its client had seen: the
\* env had been through expected_version events when the update was appended, although
\* the version was checked against a view that lags and long before the insert.
UpdatesSerialized ==
    \A i \in 1 .. Len(log) :
        log[i].kind = "updated" => log[i].expected = i - 1

\* An environment is deleted at most once and never updated after it was deleted,
\* whatever requests had loaded its row before (update_env, delete_env).
NothingAfterDelete ==
    \A i, j \in 1 .. Len(log) :
        i < j /\ log[i].kind = "deleted" => log[j].kind = "scale_set"

\* A successful update_env or update_scale returns a version past the one it replaced:
\* the client that sends it back as its next expected_version sees its own write.
ReadYourWrites ==
    \A c \in Clients :
        req[c].answer = "ok" /\ req[c].op # "delete" => req[c].version > req[c].expected

============================================================================
