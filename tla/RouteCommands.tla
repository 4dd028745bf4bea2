----------------------------- MODULE RouteCommands -----------------------------
(* The routes of an environment: api/v1/routes.rs with its projection.  Its   *)
(* handlers read the route's own events where the others read the view.  What *)
(* a route forwards to is left out.                                           *)
EXTENDS ResourceLog

EnvExists == LiveOf("env") # {}

\* delete_env of another request: the check and the append in one step, since only its
\* effect on env_exists matters here (EnvCommands has the handler).
DeleteEnvOf(bound) ==
    /\ EnvExists
    /\ Len(rlog) < bound
    /\ \A i \in 1 .. Len(rlog) : rlog[i].table = "env" => rlog[i].kind = "created"
    /\ rlog' = Append(rlog, Ev("env", "deleted", 1, None, 0, None))
    /\ UNCHANGED <<focus, rdone, rrows, rworker, rreq, rraced>>

EnvsApply(rows, e) ==
    {IF r.table = "env" /\ r.id = e.id THEN [r EXCEPT !.live = FALSE, !.version = @ + 1] ELSE r
       : r \in rows}

\* The positions of a route's events.
RouteEvents(id) == {i \in 1 .. Len(rlog) : rlog[i].table = "route" /\ rlog[i].id = id}

\* load_route_from_events, fold_route_events: the last event decides; resource_version is
\* its aggregate_seq.
RouteState(id) ==
    LET es == RouteEvents(id)
    IN  [found |-> es # {}, version |-> Cardinality(es),
         deleted |-> \E i \in es : rlog[i].kind = "deleted",
         key |-> IF es = {} THEN None ELSE rlog[CHOOSE i \in es : \A j \in es : i <= j].key]

\* Mutant: the hostname is checked against the view alone.
HostnameInView(h) == \E r \in LiveOf("route") : r.key = h

\* create_route: a live row, or a route.created with no route.deleted, has the hostname.
HostnameExists(h) ==
    \/ \E r \in LiveOf("route") : r.key = h
    \/ \E i \in 1 .. Len(rlog) :
         /\ rlog[i].table = "route" /\ rlog[i].kind = "created" /\ rlog[i].key = h
         /\ ~\E j \in 1 .. Len(rlog) :
              rlog[j].table = "route" /\ rlog[j].kind = "deleted" /\ rlog[j].id = rlog[i].id

RouteCreated(h) == <<Ev("route", "created", -1, h, 0, None)>>

\* create_route up to the append.
CreateRoute(c, h) ==
    /\ rreq[c].phase = "idle"
    /\ EnvExists
    /\ ~HostnameExists(h)
    /\ Proceed(c, "checked", RouteCreated(h), 1)
    /\ CheckedInLog(c, "route", h)

RouteUpdated(id) == <<Ev("route", "updated", id, RouteState(id).key, 0, None)>>

\* update_route: the log has the route, not deleted, at the expected_version.
UpdateRoute(c, id) ==
    /\ rreq[c].phase = "idle"
    /\ RouteState(id).found /\ ~RouteState(id).deleted
    /\ Proceed(c, "checked", RouteUpdated(id), RouteState(id).version + 1)
    /\ UNCHANGED rraced

RouteDeleted(id) == <<Ev("route", "deleted", id, RouteState(id).key, 0, None)>>

\* delete_route: a route the log has as deleted is answered at once.
DeleteRoute(c, id) ==
    /\ rreq[c].phase = "idle"
    /\ RouteState(id).found /\ ~RouteState(id).deleted
    /\ Proceed(c, "checked", RouteDeleted(id), RouteState(id).version + 1)
    /\ UNCHANGED rraced

\* RoutesProjection
RoutesApply(rows, e) ==
    IF e.kind = "created"
    THEN rows \cup {Inserted(e)}
    ELSE {CASE r.table = "route" /\ r.id = e.id /\ e.kind = "deleted" ->
                  [r EXCEPT !.live = FALSE, !.version = @ + 1]
            [] r.table = "route" /\ r.id = e.id /\ e.kind = "updated" /\ r.live ->
                  [r EXCEPT !.version = @ + 1]
            [] OTHER -> r : r \in rows}

RouteReadBack(e) == \E r \in LiveOf("route") : r.id = e.id

\* get_route: the version of the live row, and else of the route's events, 0 for 404.
GetRoute(id) ==
    IF \E r \in LiveOf("route") : r.id = id
    THEN (CHOOSE r \in LiveOf("route") : r.id = id).version
    ELSE IF RouteState(id).deleted THEN 0 ELSE RouteState(id).version

============================================================================
