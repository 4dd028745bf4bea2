------------------------------ MODULE ResourceLog ------------------------------
(***************************************************************************)
(* What the HTTP commands on the resources of an organization share: the   *)
(* event log, the views, the projection worker and the path of a request   *)
(* through it.  TenancyCommands, AppCommands, RouteCommands,               *)
(* SecretCommands and VolumeCommands add the handlers, ResourceCommands    *)
(* composes them.                                                          *)
(*                                                                         *)
(* A handler checks the views, appends a batch of events, waits for the    *)
(* projection and reads its row back.  Nothing is held in between.  The    *)
(* unique indexes belong to the views: they are met only when the          *)
(* projection applies an event, and a violation ends the worker.           *)
(*                                                                         *)
(* Aggregates that depend on each other form a family; a behaviour is      *)
(* about one family (focus).  An aggregate is named by the position of its *)
(* first event, a secret bundle by the number of its first version.        *)
(* Idempotency keys are in DeployCommands.  A request that is refused      *)
(* without having changed anything is not a step.                          *)
(***************************************************************************)
EXTENDS Integers, Sequences, FiniteSets

CONSTANTS
    Handlers,       \* request handlers running at the same time
    Keys,           \* names, emails, hostnames, mount paths
    Values,         \* backends of a route, contents of a secret bundle
    EventBound,     \* bound: events appended to the initial log
    Families        \* the families explored

None == "none"

ASSUME ResourceAssumption == EventBound \in Nat /\ Keys # {} /\ None \notin Keys

VARIABLES
    focus,          \* the family of this behaviour
    rlog,           \* committed events, in event_id order
    rdone,          \* how many of them the projections have applied
    rrows,          \* rows of the views
    rworker,        \* the projection worker: "running" or "failed"
    rreq,           \* what each handler is doing
    rraced          \* history: claims checked while a rival was out of sight

resourceVars == <<focus, rlog, rdone, rrows, rworker, rreq, rraced>>

Tables == {"org", "member", "project", "app", "release", "env", "route", "bundle",
           "volume", "snapshot", "restore", "attachment"}

Roles == {"owner", "admin", "developer", "readonly"}

\* A fresh aggregate is -k in a batch: it is named by the position of the k-th event.
ResourceEvent ==
    [table : Tables, kind : {"created", "updated", "deleted"}, id : Int,
     key : Keys \cup {None}, ref : Int, attr : Values \cup Roles \cup {None, "queued", "succeeded"}]

Ev(table, kind, id, key, ref, attr) ==
    [table |-> table, kind |-> kind, id |-> id, key |-> key, ref |-> ref, attr |-> attr]

ResourceRow ==
    [table : Tables, id : Nat, key : Keys \cup {None}, ref : Nat,
     attr : Values \cup Roles \cup {None, "queued", "succeeded"}, version : Nat, live : BOOLEAN]

\* A row as an INSERT of a created event makes it.
Inserted(e) ==
    [table |-> e.table, id |-> e.id, key |-> e.key, ref |-> e.ref, attr |-> e.attr,
     version |-> 1, live |-> TRUE]

\* upto and shown: the event waited for, and the event whose row is read back.
ResourceRequest ==
    [phase : {"idle", "loaded", "numbered", "checked", "waiting", "walking"}, batch : Seq(ResourceEvent),
     seq : Nat, upto : Nat, shown : Nat]

NoRequest == [phase |-> "idle", batch |-> <<>>, seq |-> 0, upto |-> 0, shown |-> 0]

RowsOf(t) == {r \in rrows : r.table = t}

\* WHERE NOT is_deleted
LiveOf(t) == {r \in RowsOf(t) : r.live}

\* aggregate_seq of the last event of aggregate a among the first n.
LogSeq(n, t, a) == Cardinality({i \in 1 .. n : rlog[i].table = t /\ rlog[i].id = a})

\* The handler has read what it needs and goes to the phase with the batch in hand,
\* whose first event takes number seq.
Proceed(c, phase, batch, seq) ==
    /\ rreq' = [rreq EXCEPT ![c] = [phase |-> phase, batch |-> batch, seq |-> seq,
                                    upto |-> 0, shown |-> 0]]
    /\ UNCHANGED <<focus, rlog, rdone, rrows, rworker>>

\* Handlers other than c that are about to append a claim of key k in table t.
Rivals(c, t, k) ==
    {d \in Handlers \ {c} : rreq[d].phase \in {"numbered", "checked"}
        /\ \E i \in 1 .. Len(rreq[d].batch) :
              rreq[d].batch[i].table = t /\ rreq[d].batch[i].key = k}

Unprojected == (rdone + 1) .. Len(rlog)

\* Key k of table t is checked against the view: an event that is not projected yet and
\* a handler between its check and its append go unseen.
CheckedInView(c, t, k) ==
    rraced' = IF \/ Rivals(c, t, k) # {}
                 \/ \E i \in Unprojected : rlog[i].table = t /\ rlog[i].key = k
              THEN rraced \cup {<<t, k>>} ELSE rraced

\* Key k of table t is checked against the log as well: only a handler goes unseen.
CheckedInLog(c, t, k) ==
    rraced' = IF Rivals(c, t, k) # {} THEN rraced \cup {<<t, k>>} ELSE rraced

\* A query fails, a later check refuses or the client goes away before the append.
Abandon(c) ==
    /\ rreq[c].phase \in {"loaded", "numbered", "checked"}
    /\ rreq' = [rreq EXCEPT ![c] = NoRequest]
    /\ UNCHANGED <<focus, rlog, rdone, rrows, rworker, rraced>>

\* Mutant: restore_volume waits for the first event of its batch.
WaitForFirst(batch) == 1

\* create_org waits for both events of its batch, restore_volume for the volume.
WaitIndex(batch) == IF batch[1].table \in {"org", "restore"} /\ batch[1].kind = "created"
                    THEN 2 ELSE Len(batch)

\* The row the answer is made of: create_org answers with the organization.
ShownIndex(batch) == IF batch[1].table = "org" THEN 1 ELSE WaitIndex(batch)

Named(x, n) == IF x < 0 THEN n - x ELSE x

\* append, append_batch: fresh aggregates get their names, another one needs its number
\* to be free.
AppendBatch(c, bound) ==
    /\ rreq[c].phase = "checked"
    /\ Len(rlog) + Len(rreq[c].batch) <= bound
    /\ LET b == rreq[c].batch
           n == Len(rlog)
       IN  /\ b[1].id > 0 => rreq[c].seq = LogSeq(n, b[1].table, b[1].id) + 1
           /\ rlog' = rlog \o [i \in 1 .. Len(b) |->
                                 [b[i] EXCEPT !.id = Named(@, n), !.ref = Named(@, n)]]
           /\ rreq' = [rreq EXCEPT ![c] = [phase |-> "waiting", batch |-> <<>>, seq |-> 0,
                                           upto |-> n + WaitIndex(b), shown |-> n + ShownIndex(b)]]
    /\ UNCHANGED <<focus, rdone, rrows, rworker, rraced>>

\* append: DbError::SequenceConflict, answered 409 or 500.
RefuseNumber(c) ==
    /\ rreq[c].phase = "checked"
    /\ rreq[c].batch[1].id > 0
    /\ rreq[c].seq <= LogSeq(Len(rlog), rreq[c].batch[1].table, rreq[c].batch[1].id)
    /\ rreq' = [rreq EXCEPT ![c] = NoRequest]
    /\ UNCHANGED <<focus, rlog, rdone, rrows, rworker, rraced>>

\* wait_for_checkpoint returns and the row is read back, or it times out.
AnswerRequest(c) ==
    /\ rreq[c].phase = "waiting"
    /\ rreq' = [rreq EXCEPT ![c] = NoRequest]
    /\ UNCHANGED <<focus, rlog, rdone, rrows, rworker, rraced>>

============================================================================
