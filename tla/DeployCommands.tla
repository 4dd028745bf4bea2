---------------------------- MODULE DeployCommands ----------------------------
(***************************************************************************)
(* Creating deploys and rollbacks of one environment (api/v1/deploys.rs)   *)
(* under an Idempotency-Key (api/idempotency.rs, db/idempotency.rs).       *)
(*                                                                         *)
(* create_deploy and create_rollback run the same steps: look the key up,  *)
(* validate against the views, append deploy.created under a new deploy    *)
(* id, wait for projection "deploys", and store the answer under the key.  *)
(* Look-up and store are separate statements, and nothing is written under *)
(* the key in between.                                                     *)
(*                                                                         *)
(* A slot stands for the primary key of idempotency_records: org, actor,   *)
(* endpoint and Idempotency-Key.  The request hash covers the body, here   *)
(* the release to run.  log[d] is the deploy.created event of deploy d,    *)
(* `applied` the prefix the projection has applied (ProjectionWorker).     *)
(***************************************************************************)
EXTENDS Integers, Sequences, FiniteSets

CONSTANTS
    Clients,        \* request handlers running at the same time
    Slots,          \* idempotency slots in use
    Releases,       \* request bodies
    MaxDeploys      \* bound: deploy.created events

ASSUME DeployAssumption == MaxDeploys \in Nat

VARIABLES
    log,            \* committed deploy.created events
    applied,        \* how many of them deploys_view shows
    records,        \* idempotency_records: slot -> set of at most one record
    req,            \* the request each client is handling, or has answered
    exposed,        \* history: slots where two requests overlapped, or one ended
                    \* with its event appended and no record stored
    expired         \* history: slots whose record was cleaned up

vars == <<log, applied, records, req, exposed, expired>>

Deploy == [slot : Slots, release : Releases]
Record == [release : Releases, deploy : Nat]

Answers == {"none", "ok", "key_conflict", "not_found", "internal_error", "timeout"}

Request ==
    [phase : {"idle", "checked", "waiting", "storing", "answered"},
     slot : Slots, release : Releases, deploy : Nat, answer : Answers]

TypeOK ==
    /\ log \in Seq(Deploy)
    /\ applied \in 0 .. Len(log)
    /\ records \in [Slots -> SUBSET Record]
    /\ req \in [Clients -> Request]
    /\ exposed \subseteq Slots
    /\ expired \subseteq Slots

----------------------------------------------------------------------------

Init ==
    /\ log = <<>>
    /\ applied = 0
    /\ records = [s \in Slots |-> {}]
    /\ req \in [Clients -> [phase : {"idle"}, slot : Slots, release : Releases,
                            deploy : {0}, answer : {"none"}]]
    /\ exposed = {}
    /\ expired = {}

CanReceive(c) == req[c].phase \in {"idle", "answered"}

Running(c) == req[c].phase \in {"checked", "waiting", "storing"}

Overlapping(s) == \E c \in Clients : Running(c) /\ req[c].slot = s

\* Client c's request ends with this answer.
Respond(c, answer) ==
    req' = [req EXCEPT ![c].phase = "answered", ![c].answer = answer]

\* idempotency::check found no record: the handler goes on.
NotFound(c, s, r) ==
    /\ records[s] = {}
    /\ req' = [req EXCEPT ![c] = [phase |-> "checked", slot |-> s, release |-> r,
                                  deploy |-> 0, answer |-> "none"]]
    /\ exposed' = IF Overlapping(s) THEN exposed \cup {s} ELSE exposed

\* Mutant: the stored answer is replayed whatever the request's hash is.
ReplayAnyBody(c, s, r) ==
    \E rec \in records[s] :
        /\ req' = [req EXCEPT ![c] = [phase |-> "answered", slot |-> s, release |-> r,
                                      deploy |-> rec.deploy, answer |-> "ok"]]
        /\ UNCHANGED exposed

\* A record with the same request hash: its status and body are the answer.
Found(c, s, r) ==
    \E rec \in records[s] :
        /\ rec.release = r
        /\ req' = [req EXCEPT ![c] = [phase |-> "answered", slot |-> s, release |-> r,
                                      deploy |-> rec.deploy, answer |-> "ok"]]
        /\ UNCHANGED exposed

\* A record with another request hash: 409.
Conflict(c, s, r) ==
    \E rec \in records[s] :
        /\ rec.release # r
        /\ req' = [req EXCEPT ![c] = [phase |-> "answered", slot |-> s, release |-> r,
                                      deploy |-> 0, answer |-> "key_conflict"]]
        /\ UNCHANGED exposed

\* The handler up to the validation: hash the request and look the key up.
CheckKey(c, s, r) ==
    /\ CanReceive(c)
    /\ NotFound(c, s, r) \/ Found(c, s, r) \/ Conflict(c, s, r)
    /\ UNCHANGED <<log, applied, records, expired>>

\* The environment is deleted or the release unknown: 404, nothing is appended.
Refuse(c) ==
    /\ req[c].phase = "checked"
    /\ Respond(c, "not_found")
    /\ UNCHANGED <<log, applied, records, exposed, expired>>

\* append: the deploy id is a new ULID, so sequence number 1 is always free.
AppendDeploy(c) ==
    /\ req[c].phase = "checked"
    /\ Len(log) < MaxDeploys
    /\ log' = Append(log, [slot |-> req[c].slot, release |-> req[c].release])
    /\ req' = [req EXCEPT ![c].phase = "waiting", ![c].deploy = Len(log) + 1]
    /\ UNCHANGED <<applied, records, exposed, expired>>

\* wait_for_checkpoint returns and the deploys_view row is read.
ReadBack(c) ==
    /\ req[c].phase = "waiting"
    /\ req[c].deploy <= applied
    /\ req' = [req EXCEPT ![c].phase = "storing"]
    /\ UNCHANGED <<log, applied, records, exposed, expired>>

\* Mutant: the answer is sent and no record is kept.
StoreNothing(c) ==
    /\ req[c].phase = "storing"
    /\ Respond(c, "ok")
    /\ UNCHANGED <<log, applied, records, exposed, expired>>

\* idempotency::store (ON CONFLICT DO NOTHING), then the answer.
StoreRecord(c) ==
    /\ req[c].phase = "storing"
    /\ records' = [records EXCEPT ![req[c].slot] =
                    IF @ = {} THEN {[release |-> req[c].release, deploy |-> req[c].deploy]}
                    ELSE @]
    /\ Respond(c, "ok")
    /\ UNCHANGED <<log, applied, exposed, expired>>

\* The store fails: the error is dropped and the answer is sent all the same.
StoreFails(c) ==
    /\ req[c].phase = "storing"
    /\ Respond(c, "ok")
    /\ exposed' = exposed \cup {req[c].slot}
    /\ UNCHANGED <<log, applied, records, expired>>

\* The deadline passes before the projection: 504, with the deploy in the log.
ProjectionTimeout(c) ==
    /\ req[c].phase = "waiting"
    /\ Respond(c, "timeout")
    /\ exposed' = exposed \cup {req[c].slot}
    /\ UNCHANGED <<log, applied, records, expired>>

\* A query fails, or the client disconnects and the handler is dropped.
Abort(c) ==
    /\ Running(c)
    /\ Respond(c, "internal_error")
    /\ exposed' = IF req[c].phase = "checked" THEN exposed ELSE exposed \cup {req[c].slot}
    /\ UNCHANGED <<log, applied, records, expired>>

\* Projection "deploys" applies the next event: the row of deploy applied + 1, and its
\* release as the desired release of the environment.
Project ==
    /\ applied < Len(log)
    /\ applied' = applied + 1
    /\ UNCHANGED <<log, records, req, exposed, expired>>

\* cleanup_idempotency_records, every hour: the record is older than seven days.
CleanupRecord(s) ==
    /\ records[s] # {}
    /\ records' = [records EXCEPT ![s] = {}]
    /\ expired' = expired \cup {s}
    /\ UNCHANGED <<log, applied, req, exposed>>

Next ==
    \/ Project
    \/ \E s \in Slots : CleanupRecord(s)
    \/ \E c \in Clients :
        \/ \E s \in Slots, r \in Releases : CheckKey(c, s, r)
        \/ Refuse(c)
        \/ AppendDeploy(c)
        \/ ReadBack(c)
        \/ StoreRecord(c)
        \/ StoreFails(c)
        \/ ProjectionTimeout(c)
        \/ Abort(c)

Spec == Init /\ [][Next]_vars

----------------------------------------------------------------------------

DeploysOf(s) == {d \in 1 .. Len(log) : log[d].slot = s}

\* A successful answer, first or replayed, names a deploy that was created under the
\* request's key with the request's body, and that a reader of deploys_view finds
\* (Idempotency-Key of create_deploy and create_rollback).
AnswersTruthful ==
    \A c \in Clients :
        req[c].answer = "ok" =>
            /\ req[c].deploy \in 1 .. applied
            /\ log[req[c].deploy] = [slot |-> req[c].slot, release |-> req[c].release]

\* A record never names a deploy that a replay could not show: its deploy is in the log
\* under the same key and body, and is materialized (idempotency::store comes last).
RecordTruthful ==
    \A s \in Slots : \A rec \in records[s] :
        /\ rec.deploy \in 1 .. applied
        /\ log[rec.deploy] = [slot |-> s, release |-> rec.release]

\* What a client is told, now or by any later replay of its key, is a deploy it asked for
\* and can read (idempotency::check and idempotency::store around create_deploy).
Truthful == AnswersTruthful /\ RecordTruthful

\* A key creates one deploy, as long as no two of its requests overlapped, none ended
\* between its append and its store, and its record did not expire.
OneDeployUnlessExposed ==
    \A s \in Slots \ (exposed \cup expired) : Cardinality(DeploysOf(s)) <= 1

============================================================================
