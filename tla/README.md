# plfm-vt: a TLA+ model

plfm-vt is a platform that runs container workloads in microVMs. A control
plane keeps all state in an append-only event log in PostgreSQL; projections
turn the log into the tables that the API, the scheduler, the node agents and
the edge read. This directory models how these parts behave when they run at
the same time and when steps of them fail.

`PROJECT.json` lists the components, the runs, the mutants that show each
property can fail, the source lines each definition stands for, the finding,
the hazards and the theorems. Paths below are in
`src/services/control-plane/src/` unless they say otherwise.

## 1. The system

| component | state | operations | talks to |
|---|---|---|---|
| event log, `db/event_store.rs` | `events` (identity `event_id`, unique `(aggregate_type, aggregate_id, aggregate_seq)`) | `append`, `append_batch`, `get_latest_aggregate_seq`, `query_after_cursor` | every writer; the projection worker |
| projection worker, `projections/worker.rs` | checkpoints in memory and in `projection_checkpoints`; the views | start, poll, apply one event per transaction | reads the log, writes the views |
| HTTP commands, `api/v1/*.rs` | none of their own; `idempotency_records`, secret material | per resource: check the view, append events, wait for the projection, read back; lists | log, views, record store |
| IPAM, `api/v1/env_networking.rs`, `scheduler/reconciler.rs`, `grpc/node_agent.rs` | `ipam_*` tables | allocate, release, cool down | beside the log, in transactions of its own |
| cleanup worker, `cleanup/worker.rs` | none | deletes old records, rows and logs | IPAM, record store |
| scheduler, `scheduler/*.rs` | none | a pass every few seconds: allocate, drain | reads views, appends instance events |
| node API, `grpc/node_agent.rs`, `api/v1/nodes.rs` | none | enroll, heartbeat, plan, status report, secrets | node agents; log and views |
| node agent, `src/services/node-agent` | runtime table, VMs, image cache, actors, boot statuses on disk | fetch and apply a plan, pull images, boot and stop VMs, configure guests, report, exec gateway | node API; guests over vsock |
| guest init, `src/services/guest-init` | the VM's processes | hello, configuration, statuses, exec | node agent over vsock |
| ingress, `src/services/ingress` | routes, route table, pools, cursor file | sync from the event feed, refresh backends, sniff, route, connect, splice | control plane, instances |
| event endpoints, `api/v1/events.rs` | none | list by cursor, stream | log |
| exec sessions, `api/v1/exec*.rs` | tokens, events, a view | grant, connect, copy, record the end | gateway of the node agent |
| authentication, `api/v1/auth.rs`, `api/tokens.rs` | device codes, refresh and access tokens, a cache | poll, refresh, revoke, check | every request |
| CLI, `src/cli` | none | HTTP requests | HTTP API |

What makes it hard to get right:

- **A check and its append are apart.** A handler reads a view, decides, reads
  a sequence number, and inserts an event, each in a transaction of its own.
  The only thing the database enforces across them is the unique index on
  sequence numbers; the unique indexes of the views are met by the projection,
  which cannot refuse an event.
- **Views lag.** Nothing bounds how far a view is behind the log; handlers wait
  for a projection and give up after a timeout with the event in the log.
- **Ids and commits disagree on order.** `event_id` is drawn at INSERT, rows
  become visible at COMMIT. The worker and the edge both keep a cursor.
- **Two stores.** IPAM rows, idempotency records and secret material are
  written in transactions other than the event's.
- **Requests outlive their clients.** An agent that gives up a call after 30
  seconds may meet its effect later, behind the effect of the next call.
- **Processes outlive their table.** A VM survives the agent that started it
  and the start that gave up on it; guests keep speaking.
- **Anything may stop between two steps**: a dropped connection, a 504, an
  error, a restart of a process or of a host.

The properties that make each part correct:

- *Event log*: unique ids, a dense and forkless history per aggregate, and
  event_id order that replays each aggregate in order.
- *Worker*: a view holds exactly the events its checkpoint says, once each and
  in order, over errors and restarts; and it gets to every event.
- *Commands*: no lost update, no event after a delete, an ok answer the client
  can read back, references that resolve, complete lists, and a log that the
  projections can always replay.
- *Idempotency*: one effect per key, truthful answers.
- *IPAM*: rows and log agree, an address has one owner.
- *Scheduler*: a group gets its replicas and keeps them, whatever the view
  shows.
- *Node API*: reports enter the log in their order, plans reach their nodes.
- *Node agent*: ready means the guest said so; every VM is accounted for; what
  the plan drops is stopped; root disks in use stay what they are.
- *Edge*: a connection reaches the environment that the log gives it to, with
  the bytes its client sent; table and pools settle.
- *Exec*: what the audit log says of a session happened once; an ended session
  is recorded as ended, with the program's code where that was not lost, and
  never with another one.
- *Tokens*: one usable line of tokens per login; a confirmed sign-out holds.

`PROJECT.json` "hazards" lists the lines where these can go wrong.

## 2. Modules

| module | models | extends |
|---|---|---|
| `EventStore` | the log and its concurrent writers | |
| `ProjectionWorker` | the worker, its checkpoints and views, on top of the log | `EventStore` |
| `MaterializedView` | abstract: a log, and views that apply it in order, exactly once | |
| `EnvCommands` | create, update, delete and scale of one environment, with `envs_view` and `env_scale_view` | |
| `DeployCommands` | deploys and rollbacks under an `Idempotency-Key`, with the record store | |
| `Ipv4Addon` | enable and disable of the IPv4 add-on: IPAM rows, quota, events, view, cleanup | |
| `Scheduler` | reconciliation of one group over a lagging view | |
| `ResourceLog` | what the commands on an organization's resources share: log, views, worker, the path of a request | |
| `TenancyCommands`, `AppCommands`, `RouteCommands`, `SecretCommands`, `VolumeCommands` | the handlers and projections of organizations, members and projects; applications and releases; routes; secret bundles; volumes, snapshots, restores, attachments | `ResourceLog` |
| `ListEndpoints` | a client that walks a paginated list | the five above |
| `ResourceCommands` | their composition | `ListEndpoints` |
| `NodeControl` | nodes, instances, IPv6 addresses and their projections | |
| `NodeApi` | enroll, heartbeat, plans and status reports over HTTP and gRPC, with an agent's two loops as the client | `NodeControl` |
| `Placement` | choice of a node, overlay address, drain | `NodeControl` |
| `WorkloadPlan` | the assignments of a plan, by the two implementations of the control plane and the agent's reader | |
| `NodePlane` | their composition and the reads of instances | `NodeApi`, `Placement` |
| `VmRuntime` | a host as the Firecracker runtime sees it, as operators from host to host | |
| `GuestBoot` | guest-init's boot and the agent's vsock service | `VmRuntime` |
| `InstanceManager` | the agent's polling mode | `GuestBoot` |
| `AgentActors` | the agent's actor mode | `InstanceManager` |
| `ImageStore` | root disks: build, reference counts, eviction, the image actor | |
| `NodeAgent` | both modes, restarts of agent and host, the image store | `AgentActors`, `ImageStore` |
| `EventFeed` | `list_events` and `stream_events` over a log whose rows may commit late | |
| `EdgeRoutes` | the edge's route sync and its state file | `EventFeed` |
| `EdgeBackends` | the edge's pools and the choice of a backend | `EdgeRoutes` |
| `Ingress` | connections over both | `EdgeBackends` |
| `ExecSessions` | grants, tokens, connecting, the view | |
| `ExecStream` | a connected session: two copying tasks, the gateway, the guest | `ExecSessions` |
| `AuthTokens` | device login, refresh, revocation, service principals, the cache | |
| `ProjectionWorker_proofs` (with those of `EventStore`), `DeployCommands_proofs`, `Scheduler_proofs`, `NodeAgent_proofs`, `Ingress_proofs` | theorems (section 4) | their component, `TLAPS` |
| `ControlPlane_proofs` | theorems about `NodePlane` and `Ipv4Addon` | both, `TLAPS` |
| `Commands_proofs` | theorems about `EnvCommands` and `ResourceCommands` | both, `TLAPS` |
| `Access_proofs` | theorems about `ExecStream` and `AuthTokens` | `MC_Access`, `TLAPS` |
| `MC_*` | values of constants for TLC, symmetry; `MC_Access` also puts exec sessions and tokens, which share no state, into one run | their component |

### EventStore

A writer is a database connection; `tx[w]` is the handler's transaction.
`ReadSeq` is the query for the latest sequence number (`ReadVersion` a version
a handler took from a view row instead, which may be too small), `DrawId` the
identity column, `InsertRow` the row itself. A row whose slot another open
transaction holds waits for it, as PostgreSQL does; one whose slot is committed
fails (`SequenceConflict`). `CommitRows` publishes a transaction's rows
together, `Rollback` drops them and loses their ids. A batch stays on one
aggregate: the batches in the code that touch several aggregates start each
with a fresh id, where no rival exists.

### ProjectionWorker

`mem` are the checkpoints in memory, `cp` the durable ones, `batch` what
`query_after_cursor` returned. `SkipEvent`, `BeginApply`, `ApplyHandler` and
`CommitApply` are the loop over a batch. Errors (`Fail`), a COMMIT whose
acknowledgement is lost (`CommitUnacknowledged`) and a crash are steps of their
own, bounded by `MaxFaults`; all end the worker, as `?` and `return Err` do,
and `Start` runs again after a restart of the process. What a handler writes is
abstracted to the sequence of events it has applied. `late` is a history
variable: events that were committed below an id some checkpoint had already
passed. `Abstract` is the instance of `MaterializedView` with the log sorted by
id and the applied events as its views; `ImplementsView` is its specification.

### EnvCommands

A request moves through phases, one per query of the handler: *loaded* (the
view row is read and the version compared), *numbering* (scale only: the
sequence number is read from the log), *appended* and waiting for the
projection, *answered*. Two rows have versions of their own, because
`env.scale_set` is an event of the Env aggregate that only moves
`env_scale_view`. Left out: requests that carry an `Idempotency-Key` (see
`DeployCommands`) and the name index of `envs_view` (the pattern of
`ResourceLog`).

### DeployCommands

A *slot* is (organization, actor, endpoint, key). `CheckKey` is the lookup;
`AppendDeploy`, `ReadBack` and `StoreRecord` the rest of the handler.
`StoreFails` is the store whose result is dropped. `exposed` records the slots
whose requests overlapped, or ended between append and store.

### Ipv4Addon

An allocation row is active, cooling (released less than 24 hours ago),
expired (released longer ago, not deleted) or gone. `EnableCheck`,
`SelectAddress`, `InsertAllocation`, `NumberEvent`, `AppendEvent` and `Answer`
are enable_ipv4; `DisableRead` and `ReleaseAllocation` begin disable_ipv4.
`Abort` is a request that ends between two of its transactions. Time is
abstract: `CooldownEnds` and `CleanupCooldown` each stand for a day, so a
cooldown does not end while a request of the same row is in flight or while the
view has not yet applied events older than a day. No route of the environment
requires IPv4, and there is one organization.

### Scheduler

`DeploySpec` and `ScaleTo` are what clients ask for; `GetGroup` and
`GetInstances` are the reads of a pass; `AllocateInstance` and
`DrainInstance` append one event each and may fail; `EndPass` ends it.
`Project` is the projection. An instance is named by its allocation, which is
the order of its ULID and of `created_at`. Node choice and addresses are in
`Placement`; here they succeed or fail. `MaxLag` bounds how far the view may be
behind when a pass reads the group. `HasVolumes` is fixed for a group.

### ResourceLog and the resource commands

`rlog` is the log in id order, `rdone` how much of it the projections have
applied, `rrows` the rows of all views, `rreq` what each handler is doing. A
handler checks the views (each command's own action, in its module), prepares a
batch, appends it (`AppendBatch`; `RefuseNumber` where a row's number is taken),
waits for one event of it and reads its row back (`AnswerRequest`), or is
abandoned (`Abandon`). `ProjectResource` applies an event through the
`...Apply` operators, one per projection; an event that a unique index refuses
ends the worker (`ProjectRefused`), and `RestartWorker` starts it again at the
same event. `rraced` records claims that were checked while a rival was out of
sight. A behaviour is about one family of aggregates (`focus`), because
families share nothing but the log.

What differs is kept: hostnames are checked against the log by the fold
`RouteState`, everything else against lagging views; members are counted before
an owner is demoted or removed; secret material is stored before the event that
names it, under a content hash; a restore appends three events in one batch and
waits for the second; deletes of volumes and attachments are numbered by the
log, the others by the row; an aggregate is named by the position of its first
event, which is the order of its ULID. `ListEndpoints` walks pages of one
while rows come and go.

### NodeControl, NodeApi, Placement, WorkloadPlan, NodePlane

A behaviour has a `scene`: nodes enrolling and beating; a choice between two
nodes with any reported figures; instances placed on and polled by one node;
reports about them against drains. A call of an agent's loop has a phase per
query (`Heartbeat`, `NumberHeartbeat`, `AppendCall`; the same for status
reports). When a client gives up (`CallTimesOut`), its INSERT becomes an orphan
that may land later (`OrphanLands`) or never. `GetPlan` and `GrpcGetPlan` read
the rows, `ReadPlanCursor` the log's head in a second query, `ApplyPlan` is the
agent's rule for which plans count. Memory is counted in instances.
`keyraced` is a history variable: keys checked while an enrollment with them
was under way. The states "disabled", "degraded" and
"offline" have no source in this code and appear only as what rows may hold.

### VmRuntime, GuestBoot, InstanceManager, AgentActors, NodeAgent

A `host` is a record of processes, the runtime's table, TAP devices, image
references and counters; `VmRuntime` maps hosts to hosts, one operator per
outcome of `start_vm` and `stop_vm` (image missing, no process, socket missing,
API refused, and so on), so that handlers compose them. `lost` names processes
no table holds any more, `kept` counts the image references of starts that gave
up before the socket. A process whose socket did not appear may exit later
(`StuckExits`). In `GuestBoot` a guest says hello in one of three ways, takes
the configuration that waits for its instance, sets up, and sends statuses over
a connection that is read later; the agent stores them on disk by instance and
boot. `InstanceManager` is the polling loop: `Reconcile` fetches a plan,
`ApplyStop` and `ApplyWant` work through it, `HealthTick` reads statuses.
`AgentActors` is the actor mode: stream actor, plan channel, supervisor,
instance actors with mailboxes. `RestartAgent` keeps VMs and disk,
`RebootHost` only the disk; boot ids start again, so a boot of an earlier
process may have left a status (`old`).

### ImageStore

Each caller of `ensure_image` walks through existence check, the wait for the
build lock, the check again, layer pulls, building in the temporary file that all builds of a process share,
rename, registration and reference; the eviction and the image actor work on the
same files. `raced`, `gone` and `mixed` are history variables for the three
ways the code lets a root disk go wrong (section 5).

### EventFeed, EdgeRoutes, EdgeBackends, Ingress

`EventFeed` is the log (rows get ids before they are visible), what
`list_events` answers a cursor, and a tail of `stream_events`. `EdgeRoutes` is
the route loop: fetch, apply, publish, save; a state file with routes and
cursor, or a cursor file alone. `EdgeBackends` refreshes pools with the first
`BackendLimit` ready instances whose address parses, and chooses by round robin
among backends not cooling down. `wire` says how the control plane spells what
it answers: the keys of payloads (`EventPayloadJson`) and addresses
(`AddressText`); as it does, or as the edge could read it (section 5). `Ingress` takes a connection
through accept, sniff, route, select, tries, connect, splice, while tables
change under it. A death of the process takes connections and pools along.
Bytes are chunks; a "slow" client is one whose hello does not come in time.

### ExecSessions, ExecStream, AuthTokens

`ExecSessions` has the grant with its limits and idempotency record, the
single-use token, connecting, and `exec_sessions_view`. `ExecStream` has the
frames: the two tasks of the control plane, the gateway's reader and loop, the
guest and its program. The gateway's reader takes what it gets for one frame by
its first byte, and its buffer is a byte shorter than the guest's longest frame:
a read may take several frames, end inside one (`torn`) and begin inside the next
(`TakenFor`, `Remainder`). With a terminal the guest writes to a stream that does
not block and gives up when it is full (`GuestSendFails`); without one it drains
the pipes before it tells of the exit, and a process the program has left may
hold them ("held", `OutputReleased`). `blurred` are sessions in which the code
allows the exit code to be lost, `cut` those whose end could not be recorded. A
client has left when `to_agent` has noticed it. `AuthTokens` names a token by
the order of issue; `calls` are requests between their queries; the cache
holds access tokens until they grow old (`CacheExpires`).

## 3. Runs

| run | instance | shows |
|---|---|---|
| `worker` | 2 writers, 2 aggregates, batches of 2, 3 ids; 2 projections with different event types, 1 fault | ids unique, histories dense, forkless and id-ordered; checkpoints and views agree, nothing twice, nothing out of order, nothing missed but late commits |
| `worker_view` | 1 writer, 2 faults, fair worker | log and worker implement `MaterializedView`; every event reaches its views unless the worker has failed |
| `env_commands` | 2 clients, 4 events | no lost update, only scales follow a delete, ok means readable |
| `deploy_commands` | 2 clients, 2 keys, 2 bodies, 3 deploys | truthful answers and records, one deploy per key unless exposed |
| `ipv4_addon` | 2 handlers, 2 environments, 2 addresses, 2 allocations | rows and log agree, addresses exclusive, where no request was cut |
| `scheduler` | 2 specs, 2 replicas, 7 events, any lag, 1 failure, fair passes | draining never takes a spec below the replicas it was wanted with, a surplus only over a stale view, and the group settles |
| `resources` | 2 handlers, 2 keys, 2 values, 3 events on top of each family's initial log, pages of 1 | the log replays unless a claim was raced for; an owner is left unless two were leaving; references resolve; versions count events and nothing follows a delete; an awaited row is there; lists are complete |
| `node_plane` | 1 or 2 nodes for 1 instance each, 2 instances, 3 events, 1 request given up | addresses and keys unique, reports in order, both interfaces agree, draining is final in what is shown, plans reach nodes |
| `node_agent` | 1 instance, 2 releases, 4 VMs, 1 failure, 1 restart, 1 change of plan; 2 callers, 2 images | ready means said so, every VM accounted for, guests configured as built, root disks sound, unwanted instances stopped |
| `edge` | 2 routes, 2 environments, 4 instances, pools of 2, 3 events, 2 outside events, 1 connection | connections reach the right environment with the right bytes; a stream settles, table and pools do where the edge can read what it is sent, and without routes or backends where it cannot |
| `access` | 2 clients, 2 sessions, 1 output frame on its way, 1 fault; 2 requests, 3 tokens, a cache of 1 | sessions recorded once, with their code unless it was lost on one of the ways named, and ended once somebody has ended them; one line of tokens; sign-out holds |
| `edge_failover` (finds a violation) | as `edge` | a connection is dropped although another healthy backend was never tried |

`edge_failover` has an entry under "findings" that quotes the document it
disagrees with.

**Bounds.** The races here are between two actors: two handlers, or a handler
and the projection, the scheduler and its view, a loop and a late answer. Two
handlers and one lagging projection give every order of two requests; two
writers with batches let one wait for a slot that the other holds until it
commits or rolls back. Three or four events allow a history and a race on top
of it. Two projections with different event types give batches that one, both
or none of them need; a batch size of one or two makes several rounds
necessary. Seven instance events allow a rollout of two replicas, a surplus over
a stale view and its draining. Four VMs allow an instance to be replaced twice around a restart of
the agent with an orphan left; two callers and two images with a high-water mark
of one make every build meet an eviction. Three route events with a page of two
need two polls, one of them behind a late commit; three instances of one target
and pools of two make the limit count. In `access`, output and terminals
are explored only while no other client has called (`Explored`, `ExploredSpec`):
which frames a session has on its way does not meet the race of two clients for
a token; the theorems are about `AccessSpec`, without this bound. The edge's
spellings other than "as_stored" with "host" are explored with a state file.
Counters are capped by
`Max...` and `...Bound` constants in the guards of the actions that raise them,
and a run stops when a cap is reached, so deadlock is not checked.

**Symmetry** is used for writers and handlers in runs of invariants, never where
liveness is checked.

**Fairness.**
- `ProjectionWorker!FairSpec`: weak fairness of the worker's own steps, the
  start after a crash included. The worker is a task that polls in an endless
  loop, and the process is run under a supervisor. No fairness is assumed of
  writers, and a worker that ended with an error is exempt, since only a
  restart of the process brings it back.
- `Scheduler!FairSpec`: weak fairness of the passes (an endless loop with an
  interval) and of the projection.
- `NodePlane!FairNodeSpec`: weak fairness of the projection, and, per node, of
  finishing a poll or a report that was begun. Beginning a poll is strongly
  fair: the loop fetches a plan in every turn (`instance.rs` of the agent), but
  in between it is busy with reports, so the step is not continuously enabled.
- `NodeAgent!FairAgentSpec`: weak fairness of the polling loop; its timer fires
  and every call it makes returns. Nothing is assumed of guests, and nothing
  is claimed of the actor mode (section 5).
- `Ingress!IngressSpec`: weak fairness of the two sync loops, of the stream's
  polls and of the service manager that starts the process again.
- `MC_Access!Fairness`: weak fairness of the tasks and threads of a session,
  per client, and of the guest's thread telling of an exited program whose output
  nobody holds (`GuestFinishes`), of requests finishing, and of cache entries
  growing old. It is that of running threads whose reads and writes return: a
  client that stays connected and does not read what it is sent would stop
  `to_client`. A program need not end (without a terminal it may even be stuck on
  a full stderr pipe while the guest waits for its stdout), what it has left need
  not let go of its output, and nobody need call.

## 4. Theorems

All proofs are for every number of actors (writers, clients, projections, nodes,
instances, sessions), of keys, addresses, aggregates and events, and for every
value of the bounds, from the ASSUMEs of the components: the bounds are natural
numbers, the sets the specification chooses from are not empty (`Envs # {}`,
`Keys # {}`, at least one node and one instance), keys and environments have the
types the configurations give them, no name is the absent one
(`ResourceAssumption`), a page has at least one row (`PageAssumption`: the list
handlers clamp the limit to 1..200), null is neither an architecture nor a
workload (`NullAssumption`), route ids are numbers other than the absent one
(`FeedAssumption`), the edge is configured with one of its three kinds of state
(`RoutesAssumption`), instances are numbered and finitely many
(`BackendsAssumption`), and the frames on their way have a bound
(`StreamAssumption`). Every inductive invariant was checked by TLC on the
run of its component before it was proved.

**ProjectionWorker_proofs**, the event log: `StoreTypes`, `EventIdsUnique`,
`HistoryDense`, `AggregateReplayOrder` and `LogIsSound`, the three together. None of the
properties is inductive alone. `StoreInv`
adds: every id ever drawn is below `nextId`, whether it sits in the log, in a
transaction or in a row on its way (`IdInv`); a transaction with rows continues
the committed history without a hole (`RowInv`), so that committing keeps it
dense; at most one open transaction has rows of an aggregate (`OwnerInv`),
which is what the wait on the unique index gives; and ids grow with sequence
numbers over log, transaction and pending row (`OrderInv`).

**ProjectionWorker_proofs**, the worker: `WorkerTypes`, `CheckpointIsTrustworthy`,
`ExactlyOnceInOrder`, `CheckpointMatchesView`, `CheckpointsMonotonic`.
`WorkerInv` says that
what a checkpoint in memory has passed is applied, at the latest by the open
transaction (`MemInv`), that a batch has no hole that a projection still needs
(`BatchInv`), who has applied the current event and who is going to
(`ApplyInv`), and that a running worker is never behind the durable checkpoints
(`AheadInv`). It rests on `StoreInv`.

The same module proves the refinement of `MaterializedView`, step by step:
`PunctualLogIsView` under the hypothesis that no event commits after a larger
id, and `SerialWritersImplementView`, where one writer makes the hypothesis
true. Without either the refinement is false (section 5, first entry): a late
event is one that the abstract view would apply and the worker never does.

**Commands_proofs**, the environment: `NoLostUpdate`, `DeletedIsFinal`, `WritesAreRead`.
`EnvInv` relates the row to the applied prefix (`RowReflectsPrefix`), says that
an update not yet projected finds the row exactly as it was when its event was
appended (`UpdatesCounted`), and what a request in each phase knows: an update
or delete whose number is free has read a view with nothing missing
(`LoadedOK`), and a waiting scale sees its version pass once it is projected
(`WaitingOK`).

**Commands_proofs**, the resources: `ResourceHistories`,
`ReferencesAlwaysResolve`, `AwaitedIsMaterialized`, `WalksMissNothing`,
`OwnersStay`, `IndexesHold`, for any number of handlers, keys, events and any
page size. `ResourceInv` has three parts. The log is well-formed (`EventOK`): an
aggregate is created once and first, its parent before it, only deletes follow a
delete, members keep organization and email, a bundle's version is stored before
it is named. The rows are what the applied prefix says (`RowOK`): present,
counted, live. What a handler holds (`Pending`) is a fresh aggregate, one of the
batches, or an event for an existing one whose number is next or taken
(`Existing`): with that an append keeps the log well-formed whatever was
appended since the handler looked. The first three theorems follow from it.
`WalkInv` adds, for a client in the middle of a list, that every row that was
there at the start and still is was returned or lies beyond the cursor; it rests
on rows never changing their ids and new ids being larger.

`OwnersInv` and `KeysInv` are about what races can break. As long as owners were
not counted during a race, every organization has an owner in the whole log, a
handler about to demote or remove a member leaves another owner behind or has
lost its number (`Harmless`), and two such handlers never both count
(`OwnersKept`): one alone would not be inductive, since each of two handlers may
rely on the other's member. A key that nobody raced for was free whenever it was
set (`Entered`), and will be when the one handler that claims it appends
(`KeyOK`: `Free`, or its own aggregate has it already, `Keeps`). Rows then hold
the key of the event their aggregate has it from (`RowKeysOK`), and two rows that
would clash after the next event must meet in that event. `MoveKeeps` reduces
every handler to what it claims (`Moves`), one lemma per family shows which
claim it makes and what its check saw.

**DeployCommands_proofs**: `DeployTypeCorrect`, `AnswersAreTruthful`,
`OneDeployPerKey`. While a key is neither exposed nor expired, at most one
request runs under it, and its deploy is accounted for by the record or by the
request that is going to store the record (`KeyOK`); so a request that finds no
record and nobody beside it finds no deploy either.

**ControlPlane_proofs**, the IPv4 add-on: `AddonTypeCorrect`, `AllocationsMatchEvents`,
`AddressesAreExclusive`. The rows' two unique constraints (`RowInv`) are not
enough: every allocation that the view, an event still to be projected or a
request names must still be that environment's row and not past its cooldown
(`RefInv`, `OwnedBy`), the view shows the last event projected (`NetInv`), and
between row and event of an enable nothing else concerns the environment
(`EnableInv`), after the release of a disable it has no active row
(`DisableInv`).

**Scheduler_proofs**: `SchedulerTypeCorrect`, `GroupStaysWithinBounds`.
`GroupWithinBounds` counts the instances that are left and does not say which
ones a pass may still take. `DrainInv` says it of each instance by itself: one
that was drained, or is on the list of the running pass, has at least `floor`
instances of its spec allocated after it (`Dispensable`), which later events
never undo. A pass over a stale view takes the oldest of a prefix of the log,
and what the prefix holds after one of them the log holds as well
(`SurplusLeavesEnough`). The last instance drained of a spec then has its
floor's worth of live ones after it. `WantInv` keeps the floors at or below what
is wanted and what the pass has read; `RoomInv` counts the places a pass over an
up to date view is going to fill.

**ControlPlane_proofs**, the nodes: `NodeTypeCorrect`, `IdentitiesAreUnique`,
`ReportsStayInOrder`, `DrainingIsForGood`, `ReadsAlwaysAgree`. The log grows
by the first event of an aggregate or by a batch that was numbered earlier and
is pending: in a call, with the scheduler, or orphaned. `LogInv` says that
aggregates begin with their creation and are numbered without gaps; `PendInv`
that a pending batch belongs to one existing aggregate, begins no later than the
next free number, and is no older than the reports numbered before it: so it is
next, or its number is taken. The rest says what calls and agents hold, which
ids and addresses are given out, and how the views relate to the log.
`ReadsAlwaysAgree` is about what is computed from the
views: the gRPC answer read by the agent is the HTTP one field by field
(`AssignmentsAgree`, where the two differ only in how an empty list of mounts is
spelled), a digest is the node's own or the only one (`DigestChosen`), grouping
mounts by environment and process type undoes the product the query asks for
(`MountsAreItsOwn`), and a page that stops before a row names a smaller one to go
on from (`PageSkipsNothing`, by the rank of a row among the rows past the cursor).

**Access_proofs**: `LoginHasOneLineage`, `SignOutIsForGood`, `AuditTrailHolds`,
`ExitCodesAreRight`. `LineInv` adds to `OneLineage` the device code, which is
consumed before the first refresh token exists, and the revocation between its
two statements. `SignOutIsForGood` is the safety half of `SignOutHolds`: `OutInv`
counts expired refresh tokens as well as live ones, because a revocation confirms
either, and says that a login has one at most and, once it was revoked, no code
left to begin another line with; that the cache forgets what it holds is left to
TLC. `AuditTrail` needs the life of a token (`TokenInv`: it is stored
once, by the client whose grant it is; until it is consumed nothing but the
grant has happened, and one client has consumed it) and the claim of the two
tasks (`ClaimInv`: until the claimed end is recorded the log has none).
`ExitCodeRecorded` follows the code: every EXIT on the wire, on its way down or in
the end state is the program's unless a read ended inside a frame (`CodeInv`), and
while nothing has blurred the session `PathInv` says where the code is: not begun,
no guest, with the guest that still drains, with the reader, the last frame to be
copied, or arrived in the end state before either task claims it. The path goes
through every action that sends, splits, drops or fails to write a frame.

**NodeAgent_proofs**: `ReadyWasSaid`, `VmsAreAccountedFor`,
`ConfigurationFits`, `RootDisksAreSound`, for any number of instances, releases,
VMs, actors and restarts. `AgentInv` has five parts. `HostInv`: processes have
numbers of their own, a process that is not lost is the one the table names and
of the release the table names, and the references of a release are exactly the
table's entries and the starts that gave up before the socket (`kept`). The count
cannot be taken from the processes: a start may give up without one, a process
left without its socket may exit, and one lost by a restart had its references
forgotten. `OwnerInv`: the manager's handle is the table's
entry, or some actor has the handle or has given it up. `SpeechInv` is what
`ReadyMeansSaidSo` rests on: a boot id of this agent process belongs to one
process as far as handles go (`Names`), and so does everything that process said,
on its connection or recorded; a boot id not yet given out is nobody's.
`ConfigInv`: a waiting configuration is of the release in the table, so the guest
that takes it, unless it is lost, is of that release. The proof is by operator of
`VmRuntime` first (`StartVmEffect`, `StopVmKeeps`), then one lemma per kind of
step: guests, polling loop, instance actors (`Result`), supervisor (`Mailed`).
`ConfigurationFits` needs the order of a plan's mounts (`RuntimeAssumption`,
`load_volume_mounts` orders them by volume id): for such mounts `Drives` is the
identity. `ImageInv` for the root disks says who holds a build lock, that what a
puller has acquired is counted, that a file renamed into place was built under
the lock, what an eviction's list may still hold, and whose files the shared
temporary image has.

**Ingress_proofs**: `StreamsAreIntact`, `ConnectionsReachOwners`. A connection only
learns (`Knowing`): what was read of its stream is nothing or all that `inspect`
reads, and neither it nor the route changes until the stream begins (`ConnOK`, by
how far a connection has come). `RoutedAsLogged` compares the table a connection
was routed by with the routes that the log gives, whatever was appended,
committed late, saved, lost and loaded again in between. `EdgeInv` has four
parts. `LogInv`: ids are unique over committed and open events, and a step of the
log adds an event at its end or one marked as late (`Grows`); so a part of the log
that was read and has no late event stays what it was (`WindowStays`). `SyncInv`:
the loop's routes, the table and the saved file are each what applying such a
part gives (`Reads`), and a response holds exactly the events from the cursor to
its last one (`RespOK`). The step that counts is `ApplyResponse`: applying a
response after the part before it is applying both (`LoggedExtends`), because two
parts in order are one part in order (`ConcatSorted`), a set of events has one
order (`SortedIsInOrder`), and applying a concatenation is applying its halves one
after the other (`ApplyConcat`). The last is an induction over the response. The
library's induction theorem takes a predicate, which no backend can instantiate;
here it is an induction over a set of numbers (`NaturalsBySteps`), which follows
from the least element of a set (`LeastNatural`). `BackendInv`: pools and answers
on their way have instances of the environment of their route, whatever the route
targets by now. `RoutedInv` takes a connection's route and backend from there.

**Only model-checked**: the liveness properties (`EventuallyApplied`, `Settles`,
`PlansDelivered`, `UnwantedStopped`, `EdgeSettles`, `SessionsEnd`, `SignOutHolds`), which
the prover cannot do.
Every safety invariant that a run checks has a theorem.

## 5. Not modelled, and what does not hold

Not modelled: role checks per request, log and debug endpoints, the upload of
workload logs, formatting and parsing, the CLI, generated protobuf code, the
Firecracker API, TAP and WireGuard set-up, resource probing, what a workload
does inside its VM. The agent's `ExecSessionManager` and its `ExecRequest` actor
message have no sender; `cleanup_on_disconnect`, `maybe_evict` and parts of the
state store have no caller in the program (eviction is modelled as the code that
is there, the others are left out). The approval of a device code is outside the
repository.

Some promises of the documents do not hold of the code. They are behaviours of
the models; where a property would be false without it, it has an exception that
names the case.

Log, views, commands:

- An event that commits below a checkpoint is never applied:
  `projections/worker.rs:143` skips it. event-log.md:114 calls `event_id` "a
  total order of all events"; materialized-views.md:58 promises "exactly-once
  effects". Exception `late` of `CheckpointCovers`; the edge's cursor has the
  same gap (`LateIn`).
- After a `scale_set` the `envs_view` version is behind the aggregate's sequence
  number, so an update or delete with the current version is answered 500 for
  ever (`api/v1/envs.rs:702`, `:914`; http-api.md:436).
- `update_scale` compares `expected_version` with the view and numbers its event
  by the log, so two scales with the same version can both be accepted
  (`api/v1/envs.rs:1205`).
- Two overlapping creates with one name are both appended; the second fails on
  the view's unique index each time the worker is started, and no later event is
  applied (`api/v1/apps.rs:202`, `projections/worker.rs:198`;
  materialized-views.md:29 "Projections are replayable"). Exception `rraced`.
- A retry with the same `Idempotency-Key` after a 504, or while the first request
  runs, creates a second deploy (`api/v1/deploys.rs:192`, `:298`; http-api.md:298
  "deploy and rollback creation must be idempotent"). Exception `exposed`.
- Two owners demoted or removed at the same time leave an organization without
  one (`api/v1/members.rs:412`, `:616`). Exception `rraced`.
- `get_route` folds a prefix of the log and may show an older version than an
  earlier answer. `delete_volume` does not look at attachments; volumes and
  attachments may be deleted twice; a restore works from a snapshot that is
  still queued.
- Putting a secret content that the bundle has had before fails on the index of
  contents (`api/v1/secrets.rs:726`).
- `list_events` filters after LIMIT, so a filtered client gets stuck behind
  a page without matches; `stream_logs` with tail 0 replays everything.

IPv4 add-on and scheduler:

- A disable that is cut between its two transactions lets another environment
  get the address while the view still serves it (`api/v1/env_networking.rs:532`).
  Exception of `ExclusiveUnlessCut`.
- Released allocation rows keep both unique constraints, so an environment that
  enables again, or an address past its cooldown, fails on INSERT and is not
  retried (`api/v1/env_networking.rs:305`). Overlapping enables pass the quota
  check together (`:177`).
- Draining instances count as matching and are never stopped: a group scaled down
  and up again stays short for ever (`scheduler/reconciler.rs:202`;
  reconciliation-loop.md:259). `Settles` counts them as the code does.
- A pass allocates new instances before it drains old ones, for volume-backed
  groups too, and drains old ones without waiting for new ones to be ready
  (`scheduler/reconciler.rs:218`, `:242`). Groups of deleted environments and
  applications are reconciled like others (`:128`).
- A node is chosen by what it last reported, so placements it has not seen
  overcommit it (`scheduler/reconciler.rs:444`; placement.md asks for
  "used_memory_bytes + instance_memory_bytes <= allocatable_memory_bytes", and
  0012-scheduling-cpu-oversubscribe-mem-hardcap.md:79 that it "must never place
  workloads such that the sum of hard memory caps exceeds allocatable memory").
  Nothing bounds by how much, so no property speaks of it: until the next report
  is projected every placement may go to the same node.

Node agent and guests:

- In actor mode the heartbeat reports constants (16 GiB, 8 cores), instance
  statuses are not reported, configurations are not handed to the config store,
  and instances that waited for an image are never spawned (the comment at
  `actors/supervisor.rs:347` says otherwise). Hence no liveness property of that mode.
- A release with a single digest is assigned to nodes of any architecture;
  every fetch of a plan has a fresh plan id.
- A graceful stop of the agent leaves its VMs running; a TAP device left behind
  makes the next start fail; the socket of a live VM is removed by a second
  start of the same instance. Exception `lost` of `VmsAccountedFor`.
- A start that fails after `ensure_image` and before the socket is there never
  releases its image (`firecracker/runtime.rs:191`, `:215`, `:226`): the reference
  stays until the agent is started again, with no process or with one that is
  neither kept nor killed. `VmsAccountedFor` counts such references exactly.
- Boot ids start again with the agent, so a status of an earlier process may be
  read for a new boot. Exception `old` of `ReadyMeansSaidSo`.
- Builds of root disks share a file named by the pid (`image/rootdisk.rs:242`;
  image-fetch-and-cache.md:182 asks for deterministic root disks), layers share
  `<layer>.tmp`. An eviction may meet a caller between finding the file and
  counting itself, and the image actor deletes files without knowing who holds
  them. Exceptions `mixed`, `raced`, `gone`.

Edge:

- `list_events` renders payload keys in lower camel case where the edge reads
  snake case (`api/v1/events.rs:346`); an unreadable payload ends the process
  (`sync.rs:274`, `:460`). So the edge as shipped, with this control plane, has no
  routes, and `EdgeSettles` says so.
- `list_instances` answers `overlay_ipv6::TEXT` of an INET column, which has the
  mask length (`api/v1/env_instances.rs:130`; the other queries use `host()`). The
  edge parses it as an address and passes over what does not parse
  (`sync.rs:596`): every pool is empty. `EdgeSettles` says this too. No more than
  100 instances of a route are asked for (`sync.rs:579`).
- Hence `RoutedAsLogged`, `StreamIntact`, `FailsOver` and the part of `EdgeSettles`
  about routes and backends speak of an edge that could read both: a feed that
  keeps the keys as they were stored (`as_stored`) and addresses without mask
  (`host`). No connection is routed under any other spelling.
- A restart with a cursor file and no routes loses the routes before the cursor.
- A sniff that times out passes on a zero-padded 8192-byte buffer (`sni.rs:100`).
  Exception of `StreamIntact`.
- `route.updated` never carries the environment's IPv4 address; pools of deleted
  routes are never removed.
- A connection may be dropped with a healthy backend untried: run
  `edge_failover`.

Exec and tokens:

- The exit code is lost when the EXIT frame is read together with output
  (`exec_gateway.rs:149` of the agent; exec-sessions.md:286), when a read of the
  gateway fails, and, with a terminal, when the guest's stream is full: it does not
  block (`guest-init/src/exec.rs:220`), so `send_frame` fails (`:231`, `:239`, and in
  `send_exit`), the connection is closed without EXIT, and the program, if it still
  runs, goes on alone. Exception `blurred`.
- The guest's frames have up to 4097 bytes and the gateway's buffer 4096
  (`exec_gateway.rs:147`): what is left of a frame is taken for the next one, and
  output that begins with the byte of EXIT ends the session, without a code or with
  one it happens to spell. Exception `torn`.
- Without a terminal the guest tells of an exit only when its reads of the pipes
  have ended (`guest-init/src/exec.rs:336`, `:356`): as long as a process that the
  program has left holds them, the session goes on and its client waits.
  `SessionsEnd` begins when nobody holds them, or when the client leaves.
- A program is not killed when its client disconnects (exec-sessions.md:163).
- Without a terminal the guest never reads what the client sends: once the buffers
  are full `to_agent` is stuck in a write and does not notice that the client has
  left.
- Connected sessions past their 60 seconds are not counted in the limits
  (`api/v1/exec.rs:316`; exec-sessions.md:48). A death of the control plane
  leaves a session connected for ever; a client is not told when the gateway's
  stream just ends. Exception `cut`.
- The guest reads a request with one read of 4096 bytes: longer commands are cut,
  and input that came with the request is dropped (`guest-init/src/exec.rs:133`).
- A revocation that overlaps a refresh answers "not revoked" and the new token
  survives (`api/tokens.rs:497`); `SignOutHolds` is about a confirmed one. A
  revoked access token is accepted until its cache entry is 30 seconds old
  (auth.md:307), hence "the time comes".

## 6. Plan

The components are modelled, and every safety invariant of the runs has a theorem;
the liveness properties stay with TLC (section 4).
