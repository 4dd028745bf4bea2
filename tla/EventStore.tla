------------------------------ MODULE EventStore ------------------------------
(***************************************************************************)
(* The append-only event log of the control plane (db/event_store.rs over  *)
(* the events table of migration 00001).                                   *)
(*                                                                         *)
(* A writer first reads MAX(aggregate_seq) of the aggregate it changes, or *)
(* the resource_version of its materialized row, which may lag, and then   *)
(* appends one event, or a batch of events in one transaction, at the      *)
(* sequence numbers that follow.  PostgreSQL draws event_id from an        *)
(* identity sequence when the row is inserted, checks the unique index on  *)
(* (aggregate_type, aggregate_id, aggregate_seq) after that, and shows the *)
(* row to others only when the transaction commits.  The four steps are    *)
(* separate actions because other writers and the projection worker run    *)
(* between them.  A drawn event_id is never given back.                    *)
(***************************************************************************)
EXTENDS Integers, FiniteSets, FiniteSetsExt

CONSTANTS
    Writers,        \* request handlers and workers that append events
    Aggregates,     \* (aggregate_type, aggregate_id) pairs
    Kinds,          \* event types
    MaxId,          \* bound: event ids drawn in a behaviour
    MaxRows         \* bound: events of one append_batch

ASSUME StoreAssumption ==
    /\ MaxId \in Nat
    /\ MaxRows \in Nat \ {0}
    /\ Aggregates # {}
    /\ Kinds # {}

VARIABLES
    nextId,         \* next value of the identity sequence
    events,         \* committed rows of the events table
    tx              \* what each writer's connection is doing

storeVars == <<nextId, events, tx>>

Event == [id : Nat \ {0}, agg : Aggregates, seq : Nat \ {0}, kind : Kinds]

(***************************************************************************)
(* A writer's connection: "idle", "ready" to insert the next of its `left` *)
(* rows or to commit when there is none, or "inserting": the row has the   *)
(* drawn `id` and waits for the unique index.  `rows` are its uncommitted  *)
(* rows, `seq` is the sequence number of its next row.                     *)
(***************************************************************************)
Connection ==
    [phase : {"idle", "ready", "inserting"}, agg : Aggregates, kind : Kinds,
     seq : Nat \ {0}, left : Nat, id : Nat, rows : SUBSET Event]

StoreTypeOK ==
    /\ nextId \in Nat \ {0}
    /\ events \subseteq Event
    /\ tx \in [Writers -> Connection]

----------------------------------------------------------------------------

EventsOf(a) == {e \in events : e.agg = a}

\* get_latest_aggregate_seq, with unwrap_or(0) as its callers do.
LatestSeq(a) == Max({0} \cup {e.seq : e \in EventsOf(a)})

RowOf(w) ==
    [id |-> tx[w].id, agg |-> tx[w].agg, seq |-> tx[w].seq, kind |-> tx[w].kind]

SameSlot(e, f) == e.agg = f.agg /\ e.seq = f.seq

\* The unique index: a committed row already has the slot of w's row.
SlotTaken(w) == \E e \in events : SameSlot(e, RowOf(w))

\* The unique index: another open transaction holds the slot, so w waits for it.
SlotHeld(w) == \E v \in Writers \ {w} : \E e \in tx[v].rows : SameSlot(e, RowOf(w))

\* A connection with no open transaction, before a request and after its end.
Idle == [phase |-> "idle", agg |-> CHOOSE a \in Aggregates : TRUE,
         kind |-> CHOOSE k \in Kinds : TRUE, seq |-> 1, left |-> 0, id |-> 0, rows |-> {}]

StoreInit ==
    /\ nextId = 1
    /\ events = {}
    /\ tx = [w \in Writers |-> Idle]

\* The writer holds n events of kind k, to be appended from sequence number s on.
Prepared(w, a, k, s, n) ==
    /\ tx[w].phase = "idle"
    /\ nextId <= MaxId
    /\ tx' = [tx EXCEPT ![w] = [phase |-> "ready", agg |-> a, kind |-> k,
                                seq |-> s, left |-> n, id |-> 0, rows |-> {}]]
    /\ UNCHANGED <<nextId, events>>

\* A handler reads the aggregate's latest sequence number and prepares n events.
ReadSeq(w, a, k, n) == Prepared(w, a, k, LatestSeq(a) + 1, n)

\* A handler takes resource_version + 1 of a materialized row as the sequence number.
\* The row counts at most the events of its aggregate and may be out of date.
ReadVersion(w, a, k, version) ==
    /\ version <= LatestSeq(a)
    /\ Prepared(w, a, k, version + 1, 1)

\* INSERT: the identity column draws its value before the index is checked.
DrawId(w) ==
    /\ tx[w].phase = "ready"
    /\ tx[w].left > 0
    /\ nextId <= MaxId
    /\ nextId' = nextId + 1
    /\ tx' = [tx EXCEPT ![w].phase = "inserting", ![w].id = nextId]
    /\ UNCHANGED events

\* Mutant: the index does not look at the rows of open transactions.
InsertRowUnchecked(w) ==
    /\ tx[w].phase = "inserting"
    /\ ~SlotTaken(w)
    /\ tx' = [tx EXCEPT ![w].phase = "ready", ![w].id = 0,
                        ![w].seq = @ + 1, ![w].left = @ - 1,
                        ![w].rows = @ \cup {RowOf(w)}]
    /\ UNCHANGED <<nextId, events>>

\* INSERT ... RETURNING event_id: the row enters the index of w's transaction.
InsertRow(w) ==
    /\ tx[w].phase = "inserting"
    /\ ~SlotTaken(w)
    /\ ~SlotHeld(w)
    /\ tx' = [tx EXCEPT ![w].phase = "ready", ![w].id = 0,
                        ![w].seq = @ + 1, ![w].left = @ - 1,
                        ![w].rows = @ \cup {RowOf(w)}]
    /\ UNCHANGED <<nextId, events>>

\* SQLSTATE 23505: DbError::SequenceConflict, the whole transaction rolls back.
SequenceConflict(w) ==
    /\ tx[w].phase = "inserting"
    /\ SlotTaken(w)
    /\ tx' = [tx EXCEPT ![w] = Idle]
    /\ UNCHANGED <<nextId, events>>

CommitRows(w) ==
    /\ tx[w].phase = "ready"
    /\ tx[w].left = 0
    /\ events' = events \cup tx[w].rows
    /\ tx' = [tx EXCEPT ![w] = Idle]
    /\ UNCHANGED nextId

\* A query error, a dropped request or a dead process: PostgreSQL rolls back.
Rollback(w) ==
    /\ tx[w].phase # "idle"
    /\ tx' = [tx EXCEPT ![w] = Idle]
    /\ UNCHANGED <<nextId, events>>

StoreNext ==
    \E w \in Writers :
        \/ \E a \in Aggregates, k \in Kinds, n \in 1 .. MaxRows : ReadSeq(w, a, k, n)
        \/ \E a \in Aggregates, k \in Kinds, v \in 1 .. MaxId : ReadVersion(w, a, k, v)
        \/ DrawId(w)
        \/ InsertRow(w)
        \/ SequenceConflict(w)
        \/ CommitRows(w)
        \/ Rollback(w)

StoreSpec == StoreInit /\ [][StoreNext]_storeVars

----------------------------------------------------------------------------
(* What the log promises its readers.                                      *)

\* event_id identifies an event: no two committed events carry the same id, whichever
\* transactions drew and rolled back ids in between (event_store.rs append, append_batch).
UniqueIds == \A e, f \in events : e.id = f.id => e = f

\* The history of an aggregate has no hole and no fork: its committed sequence numbers
\* are 1 .. n, each used once, although writers read the latest number long before
\* they insert and batches roll back as a whole (aggregate_seq, SequenceConflict).
DenseHistory ==
    \A a \in Aggregates :
        /\ {e.seq : e \in EventsOf(a)} = 1 .. LatestSeq(a)
        /\ \A e, f \in EventsOf(a) : e.seq = f.seq => e = f

\* Ordering by event_id, as every consumer does, replays each aggregate in the order of
\* its sequence numbers (query_after_cursor against query_by_aggregate).
AggregateOrder ==
    \A e, f \in events : e.agg = f.agg /\ e.seq < f.seq => e.id < f.id

\* What every consumer of the log relies on: ids name events, histories have neither holes
\* nor forks, and id order replays them, whatever writers raced, waited for each other or
\* rolled back (event_store.rs append, append_batch).
LogSound == UniqueIds /\ DenseHistory /\ AggregateOrder

============================================================================
