------------------------------ MODULE EventFeed ------------------------------
(***************************************************************************)
(* The events endpoints: what list_events answers a client that polls with *)
(* a cursor, and the lines stream_events sends, over a log whose rows get  *)
(* their ids before they become visible.                                   *)
(***************************************************************************)
EXTENDS Integers, Sequences, FiniteSets, SequencesExt

CONSTANTS
    RouteIds,     \* route ids, numbers; a BTreeMap keeps them in this order
    EnvOf,        \* [RouteIds -> environment]
    NewRoutes,    \* the bodies a route may be created with
    Targets,      \* backend process type and port, as one value
    FetchFactor,  \* rows read per row wanted when a type is asked for
    StreamLimit,  \* rows stream_events reads at a time
    MaxEvents,    \* bound on rows of the log
    MaxTurns      \* bound on what happens to the edge from outside

ASSUME FeedAssumption ==
    /\ RouteIds \subseteq Nat \ {0} /\ FetchFactor \in Nat /\ StreamLimit \in Nat
    /\ MaxEvents \in Nat /\ MaxTurns \in Nat

VARIABLES
    rows,   \* committed events
    open,   \* events inserted and not yet committed
    nextId,
    wire,   \* how answers are spelled: [keys, addr], see EventPayloadJson and AddressText
    tail,   \* a client of stream_events
    turns

fvars == <<rows, open, nextId, wire, tail, turns>>

None == 0
NoBody == [host |-> "none"]
Turn == turns < MaxTurns /\ turns' = turns + 1

----------------------------------------------------------------------------
(* The log.                                                                *)

Event(id, org, type, r, body) ==
    [id |-> id, org |-> org, type |-> type, route |-> r, env |-> IF r = None THEN "none" ELSE EnvOf[r],
     body |-> body, late |-> FALSE]

OfRoute(S, r, type) == {e \in S : e.route = r /\ e.type = type}

\* The hostname check of create_route looks at committed events only.
HostTaken(h) == \E e \in rows : /\ e.type = "route.created" /\ e.route # None /\ e.body.host = h
                                /\ OfRoute(rows, e.route, "route.deleted") = {}

\* create_route, update_route and delete_route: one event of a route after another, none
\* after its delete; ids grow with time. "other" stands for every other event; they
\* matter to a tail.
Unborn(r) == OfRoute(rows \cup open, r, "route.created") = {}
Changeable(r) ==
    /\ OfRoute(rows, r, "route.created") # {} /\ OfRoute(rows, r, "route.deleted") = {}
    /\ \A e \in open : e.route # r

NewEvents ==
    {Event(nextId, "mine", "route.created", r, b) :
        r \in {r \in RouteIds : Unborn(r) /\ \A q \in RouteIds : q < r => ~Unborn(q)},
        b \in {c \in NewRoutes : ~HostTaken(c.host)}}
    \cup {Event(nextId, "mine", "route.updated", r, [target |-> t]) : r \in {r \in RouteIds : Changeable(r)}, t \in Targets}
    \cup {Event(nextId, "mine", "route.deleted", r, NoBody) : r \in {r \in RouteIds : Changeable(r)}}
    \cup (IF tail.filter = "off" THEN {}
          ELSE {Event(nextId, "mine", "other", None, NoBody), Event(nextId, "other", "route.created", None, NoBody)})

\* An insert that commits at once, or one whose transaction stays open for a while.
AppendEvent ==
    /\ nextId <= MaxEvents
    /\ \E e \in NewEvents : rows' = rows \cup {e}
    /\ nextId' = nextId + 1
    /\ UNCHANGED <<open, wire, tail, turns>>

InsertEvent ==
    /\ nextId <= MaxEvents /\ open = {}
    /\ \E e \in NewEvents : open' = {e}
    /\ nextId' = nextId + 1
    /\ IF tail.filter = "off" THEN Turn ELSE UNCHANGED turns
    /\ UNCHANGED <<rows, wire, tail>>

CommitEvent ==
    /\ \E e \in open :
         /\ open' = open \ {e}
         /\ rows' = rows \cup {[e EXCEPT !.late = \E f \in rows : f.id > e.id]}
    /\ UNCHANGED <<nextId, wire, tail, turns>>

----------------------------------------------------------------------------
(* Queries.                                                                *)

\* Events by id: the k-th has k - 1 of them before it.
InOrder(S) ==
    [k \in 1 .. Cardinality(S) |-> CHOOSE e \in S : Cardinality({f \in S : f.id < e.id}) = k - 1]
FirstOf(s, n) == SubSeq(s, 1, IF Len(s) < n THEN Len(s) ELSE n)

\* query_by_org_after_cursor and query_by_type_after_cursor, which asks for no organization
QueryByOrg(after, n) == FirstOf(InOrder({e \in rows : e.org = "mine" /\ e.id > after}), n)
QueryByType(type, after, n) == FirstOf(InOrder({e \in rows : e.type = type /\ e.id > after}), n)

\* populate_protobuf_payload on the way in, event_payload_json on the way out: the keys of a
\* payload that went through its protobuf message, or through to_proto_json, are spelled in
\* lower camel case. A feed that passes on what was stored would keep them.
EncodePayload(spelling) == "message"
EventPayloadJson(spelling) ==
    IF wire.keys = "as_stored" THEN spelling
    ELSE IF EncodePayload(spelling) = "message" THEN "lower_camel" ELSE spelling

\* list_events, without filters, as the edge asks; nothing read leaves the cursor alone.
ListEvents(after, n) ==
    LET items == QueryByOrg(after, n)
    IN  [items |-> items, next |-> IF items = <<>> THEN after ELSE Last(items).id,
         keys |-> EventPayloadJson("snake")]

----------------------------------------------------------------------------
(* stream_events.                                                          *)

\* filter: "all", "created" for one event type, or an environment; "off" is no client
Matches(e, filter) ==
    /\ e.org = "mine"
    /\ filter = "created" => e.type = "route.created"
    /\ filter \notin {"all", "created"} => e.env = filter

TailInit(filter) == [filter |-> filter, last |-> 0, buffer |-> <<>>, sent |-> <<>>]

StreamRows ==
    IF tail.filter = "created" THEN QueryByType("route.created", tail.last, StreamLimit * FetchFactor)
    ELSE QueryByOrg(tail.last, StreamLimit)

\* The cursor moves past what was read, matching or not.
StreamPoll ==
    /\ tail.filter # "off" /\ tail.buffer = <<>> /\ StreamRows # <<>>
    /\ tail' = [tail EXCEPT !.last = Last(StreamRows).id,
                            !.buffer = SelectSeq(StreamRows, LAMBDA e : Matches(e, tail.filter))]
    /\ UNCHANGED <<rows, open, nextId, wire, turns>>

StreamLine ==
    /\ tail.buffer # <<>>
    /\ tail' = [tail EXCEPT !.buffer = Tail(@), !.sent = Append(@, Head(tail.buffer).id)]
    /\ UNCHANGED <<rows, open, nextId, wire, turns>>

\* Every matching event that was not committed behind a later one has been sent, in order.
TailComplete ==
    /\ \A k \in 1 .. Len(tail.sent) - 1 : tail.sent[k] < tail.sent[k + 1]
    /\ \A e \in rows : tail.filter # "off" /\ Matches(e, tail.filter) /\ ~e.late =>
          \E k \in 1 .. Len(tail.sent) : tail.sent[k] = e.id

\* There is a route already. A tail is looked at where nothing else disturbs the edge.
FeedInit(spellings, filters) ==
    /\ open = {} /\ nextId = 2
    /\ wire \in spellings
    /\ \E f \in filters : tail = TailInit(f) /\ turns = IF f = "off" THEN 0 ELSE MaxTurns
    /\ \E b \in NewRoutes : \E r \in RouteIds :
         (\A q \in RouteIds : r <= q) /\ rows = {Event(1, "mine", "route.created", r, b)}

FeedNext == AppendEvent \/ InsertEvent \/ CommitEvent \/ StreamPoll \/ StreamLine

=============================================================================
