------------------------------ MODULE EdgeRoutes ------------------------------
(***************************************************************************)
(* The edge's route sync loop: it polls the event feed, folds route events *)
(* into its routes, publishes the route table the listeners read, and      *)
(* saves routes and cursor, or the cursor alone.                           *)
(***************************************************************************)
EXTENDS EventFeed

CONSTANTS
    FetchLimit,  \* GHOST_SYNC_LIMIT
    Stores       \* configurations: "state", "cursor" or "none", the file that is named

ASSUME RoutesAssumption == FetchLimit \in Nat /\ Stores \subseteq {"state", "cursor", "none"}

VARIABLES
    routes,  \* the loop's map: [RouteIds -> route or NoRoute]
    table,   \* the snapshot of RouteTable
    cursor,
    sync,    \* where the loop is: [pc, resp]
    store,   \* the configuration
    saved,   \* what that file holds
    from,    \* events up to here are not in routes
    shown    \* the cursor when the table was last published

rvars == <<routes, table, cursor, sync, store, saved, from, shown>>

NoRoute == [host |-> "none"]
NoRoutes == [r \in RouteIds |-> NoRoute]
NoResp == [items |-> <<>>, next |-> 0, keys |-> "snake"]
FreshState == [cursor |-> 0, routes |-> NoRoutes, from |-> 0]

\* x with what has been found out about it.
Knowing(x, new) == [f \in DOMAIN new \cup DOMAIN x |-> IF f \in DOMAIN new THEN new[f] ELSE x[f]]

\* RouteState::from_created and apply_update: an update of a route that is not there is left
\* out.
FromCreated(e) == Knowing(e.body, [id |-> e.route, env |-> e.env])
ApplyUpdate(route, e) == [route EXCEPT !.target = e.body.target]

\* apply_route_event
ApplyRouteEvent(rs, e) ==
    CASE e.type = "route.created" -> [rs EXCEPT ![e.route] = FromCreated(e)]
      [] e.type = "route.updated" /\ rs[e.route] # NoRoute -> [rs EXCEPT ![e.route] = ApplyUpdate(@, e)]
      [] e.type = "route.deleted" -> [rs EXCEPT ![e.route] = NoRoute]
      [] OTHER -> rs

\* The routes after the first k of a response's items, for each k, and after all of them.
Applied(rs, items) ==
    LET after[k \in 0 .. Len(items)] == IF k = 0 THEN rs ELSE ApplyRouteEvent(after[k - 1], items[k])
    IN  after
ApplyItems(rs, items) == Applied(rs, items)[Len(items)]

\* A payload whose keys are not those of the payload types ends the loop.
Readable(resp) == resp.keys = "snake" \/ \A k \in 1 .. Len(resp.items) : resp.items[k].type = "other"

\* StatePersistence::load, read_cursor
Load(kind, file) ==
    CASE kind = "state" -> file
      [] kind = "cursor" -> [FreshState EXCEPT !.cursor = file.cursor, !.from = file.cursor]
      [] kind = "none" -> FreshState

RoutesInit ==
    /\ routes = NoRoutes /\ table = NoRoutes /\ cursor = 0 /\ from = 0 /\ shown = 0
    /\ sync = [pc |-> "fetch", resp |-> NoResp]
    /\ store \in Stores
    /\ saved = FreshState

\* fetch_events, answered with something to do
FetchEvents ==
    /\ sync.pc = "fetch"
    /\ \E resp \in {ListEvents(cursor, FetchLimit)} :
         resp.items # <<>> /\ sync' = [pc |-> "apply", resp |-> resp]
    /\ UNCHANGED <<routes, table, cursor, store, saved, from, shown>>

\* the items of one response, and update_proxy_route_table when a route event was among them
ApplyResponse ==
    /\ sync.pc = "apply" /\ Readable(sync.resp)
    /\ routes' = ApplyItems(routes, sync.resp.items)
    /\ table' = IF \A k \in 1 .. Len(sync.resp.items) : sync.resp.items[k].type = "other" THEN table ELSE routes'
    /\ cursor' = sync.resp.next
    /\ shown' = cursor'
    /\ sync' = [sync EXCEPT !.pc = "save"]
    /\ UNCHANGED <<store, saved, from>>

\* ... or the loop, and with it the process, ends.
RejectResponse ==
    /\ sync.pc = "apply" /\ ~Readable(sync.resp)
    /\ sync' = [pc |-> "dead", resp |-> NoResp]
    /\ UNCHANGED <<routes, table, cursor, store, saved, from, shown>>

\* Mutant: the cursor is saved with the routes of the response before.
SaveCursorFirst ==
    /\ sync.pc = "save"
    /\ saved' = IF store = "none" THEN saved ELSE [cursor |-> cursor, routes |-> saved.routes, from |-> from]
    /\ sync' = [pc |-> "fetch", resp |-> NoResp]
    /\ UNCHANGED <<routes, table, cursor, store, from, shown>>

\* save_with_cursor, write_cursor
SaveState ==
    /\ sync.pc = "save"
    /\ saved' = IF store = "none" THEN saved ELSE [cursor |-> cursor, routes |-> routes, from |-> from]
    /\ sync' = [pc |-> "fetch", resp |-> NoResp]
    /\ UNCHANGED <<routes, table, cursor, store, from, shown>>

\* A failed save of the state is passed over, one of the cursor ends the loop.
SaveFails ==
    /\ sync.pc = "save" /\ store # "none"
    /\ sync' = [pc |-> IF store = "state" THEN "fetch" ELSE "dead", resp |-> NoResp]
    /\ UNCHANGED <<routes, table, cursor, store, saved, from, shown>>

\* The process is gone: nothing it held is left but the files.
SyncDies ==
    /\ sync.pc # "dead"
    /\ sync' = [pc |-> "dead", resp |-> NoResp]
    /\ UNCHANGED <<routes, table, cursor, store, saved, from, shown>>

\* run_route_sync_loop up to its loop, in a new process. No routes, no table.
SyncStarts ==
    LET s == Load(store, saved)
    IN  /\ sync.pc = "dead"
        /\ routes' = s.routes /\ table' = s.routes
        /\ cursor' = s.cursor /\ shown' = s.cursor /\ from' = s.from
        /\ sync' = [pc |-> "fetch", resp |-> NoResp]
        /\ UNCHANGED <<store, saved>>

----------------------------------------------------------------------------
(* What the log says.                                                      *)

\* The routes after the events of (lo, hi] that are visible.
Window(lo, hi) == {e \in rows : e.org = "mine" /\ lo < e.id /\ e.id <= hi}
Logged(lo, hi) == ApplyItems(NoRoutes, InOrder(Window(lo, hi)))
LateIn(lo, hi) == \E e \in rows : e.late /\ lo < e.id /\ e.id <= hi

=============================================================================
