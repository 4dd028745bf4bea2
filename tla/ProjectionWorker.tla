--------------------------- MODULE ProjectionWorker ---------------------------
(***************************************************************************)
(* The background worker that turns the event log into materialized views  *)
(* (projections/worker.rs) with its durable checkpoints                    *)
(* (db/projections.rs), running against EventStore's writers.              *)
(*                                                                         *)
(* The worker keeps one in-memory checkpoint per projection, fetches the   *)
(* next events after the smallest one, and walks the batch in event_id     *)
(* order.  An event that some projections still need is applied to all of  *)
(* them in one transaction together with their durable checkpoints; an     *)
(* event that none needs only lifts the in-memory checkpoints.  Any error  *)
(* ends the worker for good: main.rs spawns it once.                       *)
(*                                                                         *)
(* A view is the sequence of event ids applied to it.  A batch is the set  *)
(* of its events not walked yet: the walk always takes the least event_id. *)
(***************************************************************************)
EXTENDS EventStore, Sequences

CONSTANTS
    Projections,    \* registered projection handlers
    Handles,        \* event types each of them applies: event_types()
    BatchSize,      \* WorkerConfig.batch_size
    MaxFaults       \* bound: worker errors and process crashes

ASSUME WorkerAssumption ==
    /\ Handles \in [Projections -> SUBSET Kinds]
    /\ BatchSize \in Nat \ {0}
    /\ MaxFaults \in Nat

VARIABLES
    cp,             \* durable projection_checkpoints.last_applied_event_id
    views,          \* durable: ids applied to each view, in order
    worker,         \* "down", "polling", "walking", "applying" or "failed"
    mem,            \* the worker's in-memory checkpoints
    batch,          \* fetched events not walked yet
    todo,           \* projections still to apply the current event
    done,           \* projections that applied it in the open transaction
    faults,         \* errors and crashes so far
    late            \* history: events committed when a larger id was visible

workerVars == <<cp, views, worker, mem, batch, todo, done, faults>>
vars == <<storeVars, workerVars, late>>

TypeOK ==
    /\ StoreTypeOK
    /\ cp \in [Projections -> Nat]
    /\ views \in [Projections -> Seq(Nat)]
    /\ worker \in {"down", "polling", "walking", "applying", "failed"}
    /\ mem \in [Projections -> Nat]
    /\ batch \subseteq events
    /\ todo \subseteq Projections
    /\ done \subseteq Projections
    /\ faults \in 0 .. MaxFaults
    /\ late \subseteq events

----------------------------------------------------------------------------

\* min_checkpoint: the slowest projection decides where the next batch starts.
IsMinCheckpoint(m) == m \in {mem[p] : p \in Projections} /\ \A p \in Projections : m <= mem[p]

After(cursor) == {e \in events : e.id > cursor}

\* query_after_cursor: the first `limit` events after the cursor, by event_id.
QueryAfterCursor(cursor, limit) ==
    {e \in After(cursor) : Cardinality({f \in After(cursor) : f.id < e.id}) < limit}

\* The event the for-loop is at.
IsCurrent(e) == e \in batch /\ \A f \in batch : e.id <= f.id

\* Mutant: a projection is taken to need every event past its checkpoint.
NeedingAny(e) == {p \in Projections : mem[p] < e.id}

\* Mutant: the checkpoint is not consulted.
NeedingAgain(e) == {p \in Projections : e.kind \in Handles[p]}

\* projections_needing_event
Needing(e) == {p \in Projections : mem[p] < e.id /\ e.kind \in Handles[p]}

Applied(p) == {views[p][i] : i \in 1 .. Len(views[p])}

----------------------------------------------------------------------------

Init ==
    /\ StoreInit
    /\ cp = [p \in Projections |-> 0]
    /\ views = [p \in Projections |-> <<>>]
    /\ worker = "down"
    /\ mem = [p \in Projections |-> 0]
    /\ batch = {}
    /\ todo = {}
    /\ done = {}
    /\ faults = 0
    /\ late = {}

\* Mutant: the worker resumes at the end of the log, not at its checkpoints.
StartAtHead ==
    /\ worker = "down"
    /\ worker' = "polling"
    /\ mem' = [p \in Projections |-> Max({0} \cup {e.id : e \in events})]
    /\ UNCHANGED <<cp, views, batch, todo, done, faults>>

\* The process starts and load_checkpoints reads every projection's row.
Start ==
    /\ worker = "down"
    /\ worker' = "polling"
    /\ mem' = cp
    /\ UNCHANGED <<cp, views, batch, todo, done, faults>>

\* One poll that finds events.  A poll that finds none sleeps and changes nothing.
Fetch ==
    /\ worker = "polling"
    /\ \E p \in Projections :
          /\ IsMinCheckpoint(mem[p])
          /\ batch' = QueryAfterCursor(mem[p], BatchSize)
    /\ batch' # {}
    /\ worker' = "walking"
    /\ UNCHANGED <<cp, views, mem, todo, done, faults>>

\* The walk goes on with the rest of the batch, or polls again.
Walked(e) ==
    /\ batch' = batch \ {e}
    /\ worker' = IF batch' = {} THEN "polling" ELSE "walking"

\* Mutant: an event nobody needs is passed over without lifting the checkpoints.
SkipEventInPlace(e) ==
    /\ worker = "walking"
    /\ IsCurrent(e)
    /\ Needing(e) = {}
    /\ Walked(e)
    /\ UNCHANGED <<cp, views, mem, todo, done, faults>>

\* No projection needs the event: every in-memory checkpoint is lifted past it.
SkipEvent(e) ==
    /\ worker = "walking"
    /\ IsCurrent(e)
    /\ Needing(e) = {}
    /\ mem' = [p \in Projections |-> IF mem[p] < e.id THEN e.id ELSE mem[p]]
    /\ Walked(e)
    /\ UNCHANGED <<cp, views, todo, done, faults>>

BeginApply(e) ==
    /\ worker = "walking"
    /\ IsCurrent(e)
    /\ Needing(e) # {}
    /\ worker' = "applying"
    /\ todo' = Needing(e)
    /\ done' = {}
    /\ UNCHANGED <<cp, views, mem, batch, faults>>

\* handler.apply and update_checkpoint_in_tx; the in-memory checkpoint moves at once.
ApplyHandler(e, p) ==
    /\ worker = "applying"
    /\ IsCurrent(e)
    /\ p \in todo
    /\ todo' = todo \ {p}
    /\ done' = done \cup {p}
    /\ mem' = [mem EXCEPT ![p] = e.id]
    /\ UNCHANGED <<cp, views, worker, batch, faults>>

\* The views and checkpoints written in the transaction become durable.
Durable(e) ==
    /\ cp' = [p \in Projections |-> IF p \in done THEN e.id ELSE cp[p]]
    /\ views' = [p \in Projections |->
                    IF p \in done THEN Append(views[p], e.id) ELSE views[p]]

CommitApply(e) ==
    /\ worker = "applying"
    /\ IsCurrent(e)
    /\ todo = {}
    /\ Durable(e)
    /\ done' = {}
    /\ Walked(e)
    /\ UNCHANGED <<mem, todo, faults>>

\* The worker's memory is gone; what its transaction wrote is rolled back.
Stopped(how) ==
    /\ worker' = how
    /\ mem' = [p \in Projections |-> 0]
    /\ batch' = {}
    /\ todo' = {}
    /\ done' = {}

\* An error from the database or a handler: run returns Err and nobody calls it again.
Fail ==
    /\ worker \in {"polling", "walking", "applying"}
    /\ faults < MaxFaults
    /\ faults' = faults + 1
    /\ Stopped("failed")
    /\ UNCHANGED <<cp, views>>

\* tx.commit() reports an error although PostgreSQL committed.
CommitUnacknowledged(e) ==
    /\ worker = "applying"
    /\ IsCurrent(e)
    /\ todo = {}
    /\ faults < MaxFaults
    /\ faults' = faults + 1
    /\ Durable(e)
    /\ Stopped("failed")

\* The control-plane process dies, with or without a failed worker in it.
Crash ==
    /\ worker # "down"
    /\ faults < MaxFaults
    /\ faults' = faults + 1
    /\ Stopped("down")
    /\ UNCHANGED <<cp, views>>

----------------------------------------------------------------------------

WorkerNext ==
    \/ Start
    \/ Fetch
    \/ \E e \in batch :
        \/ SkipEvent(e)
        \/ BeginApply(e)
        \/ \E p \in Projections : ApplyHandler(e, p)
        \/ CommitApply(e)
        \/ CommitUnacknowledged(e)
    \/ Fail
    \/ Crash

WorkerStep == WorkerNext /\ UNCHANGED <<storeVars, late>>

\* A writer's step; an event is late when a larger id was committed before it.
LogStep ==
    /\ StoreNext
    /\ late' = late \cup {e \in events' \ events : \E f \in events : f.id > e.id}
    /\ UNCHANGED workerVars

Next == LogStep \/ WorkerStep

Spec == Init /\ [][Next]_vars

\* The worker task is scheduled while its process runs, and the process is started
\* again after a crash.  Errors and crashes themselves are not forced to happen.
Progress ==
    \/ Start
    \/ Fetch
    \/ \E e \in batch :
        \/ SkipEvent(e)
        \/ BeginApply(e)
        \/ \E p \in Projections : ApplyHandler(e, p)
        \/ CommitApply(e)

FairSpec == Spec /\ WF_vars(Progress /\ UNCHANGED <<storeVars, late>>)

----------------------------------------------------------------------------
(* What readers of the views rely on.                                      *)

\* A checkpoint that has reached an event is the proof wait_for_checkpoint takes for
\* "the view contains it": every handled event at or below the durable checkpoint has
\* been applied, unless it was committed after a larger event id (projections/worker.rs).
CheckpointCovers ==
    \A p \in Projections : \A e \in events \ late :
        e.kind \in Handles[p] /\ e.id <= cp[p] => e.id \in Applied(p)

\* Every view applies only committed events it handles, each once and in event_id order,
\* across errors, unacknowledged commits and restarts.
AppliedOnceInOrder ==
    \A p \in Projections :
        /\ \A i, j \in 1 .. Len(views[p]) : i < j => views[p][i] < views[p][j]
        /\ \A i \in 1 .. Len(views[p]) :
              \E e \in events : e.id = views[p][i] /\ e.kind \in Handles[p]

\* The durable checkpoint is exactly the last event applied: views and checkpoints
\* move in one transaction.
CheckpointIsLastApplied ==
    \A p \in Projections :
        cp[p] = IF views[p] = <<>> THEN 0 ELSE views[p][Len(views[p])]

\* A restarted or lagging worker never moves a durable checkpoint backwards.
CheckpointNeverRegresses == [][\A p \in Projections : cp'[p] >= cp[p]]_vars

\* Every committed event that was not late is eventually in the view of each projection
\* that handles it, or the worker has failed: re-reading batches for the slowest
\* projection always ends (the "No projection needs this event" branch).
EventuallyApplied ==
    \A p \in Projections, i \in 1 .. MaxId :
        (\E e \in events \ late : e.id = i /\ e.kind \in Handles[p])
            ~> (i \in Applied(p) \/ worker = "failed")

Abstract == INSTANCE MaterializedView WITH log <- events, view <- views

\* While writers append one at a time, the log and the worker together implement the
\* ordered, exactly-once view of docs/specs/state (projections/worker.rs run).
ImplementsView == Abstract!ViewSpec

============================================================================
