----------------------------- MODULE ListEndpoints -----------------------------
(* The paginated lists of resources.  A client walks one of them page by page *)
(* while the views change.                                                    *)
EXTENDS ResourceLog

CONSTANT PageLimit  \* limit of a page

\* limit.unwrap_or(50).clamp(1, 200)
ASSUME PageAssumption == PageLimit \in Nat \ {0}

VARIABLE rwalk      \* the walk of one client

NotWalking ==
    [state |-> "none", table |-> "none", of |-> 0, cursor |-> 0, seen |-> <<>>, base |-> {}]

\* The rows after the cursor in the order of their ids, at most a page of them.
FirstPage(rows, cursor) ==
    LET after == {r.id : r \in {r \in rows : r.id > cursor}}
        Rank(i) == Cardinality({j \in after : j < i})
    IN  {i \in after : Rank(i) < PageLimit}

\* Ascending sequence of a set of ids.
Ascending(ids) ==
    [k \in 1 .. Cardinality(ids) |->
        CHOOSE i \in ids : Cardinality({j \in ids : j < i}) = k - 1]

\* next_cursor: the last item of a full page, else none (0).
NextIfFull(page) == IF Len(page) = PageLimit THEN page[Len(page)] ELSE 0

\* next_cursor of list_projects: the last item of any page.
NextIfAny(page) == IF page # <<>> THEN page[Len(page)] ELSE 0

ListOf(rows, cursor) ==
    LET page == Ascending(FirstPage(rows, cursor))
    IN  [items |-> page, next |-> NextIfFull(page)]

\* Mutant: the next page starts at the last item itself.
ListAppsInclusive(cursor) ==
    LET page == Ascending(FirstPage(LiveOf("app"), IF cursor = 0 THEN 0 ELSE cursor - 1))
    IN  [items |-> page, next |-> IF Len(page) = PageLimit /\ page[Len(page)] # cursor
                                  THEN page[Len(page)] ELSE 0]

\* list_apps
ListApps(cursor) == ListOf(LiveOf("app"), cursor)

\* list_members of an organization
ListMembers(o, cursor) == ListOf({m \in LiveOf("member") : m.ref = o}, cursor)

\* list_projects
ListProjects(cursor) ==
    LET page == Ascending(FirstPage(LiveOf("project"), cursor))
    IN  [items |-> page, next |-> NextIfAny(page)]

\* list_releases of an application, live or not
ListReleases(a, cursor) == ListOf({r \in RowsOf("release") : r.ref = a}, cursor)

\* list_routes
ListRoutes(cursor) == ListOf(LiveOf("route"), cursor)

\* list_volumes
ListVolumes(cursor) == ListOf(LiveOf("volume"), cursor)

\* list_snapshots of a volume
ListSnapshots(v, cursor) == ListOf({s \in RowsOf("snapshot") : s.ref = v}, cursor)

\* list_snapshots answers 404 unless the volume is live.
ListRefused(t, of) == t = "snapshot" /\ ~\E v \in LiveOf("volume") : v.id = of

Listed == {"app", "member", "project", "release", "route", "volume", "snapshot"}

PageOf(t, of, cursor) ==
    CASE t = "app" -> ListApps(cursor)
      [] t = "member" -> ListMembers(of, cursor)
      [] t = "project" -> ListProjects(cursor)
      [] t = "release" -> ListReleases(of, cursor)
      [] t = "route" -> ListRoutes(cursor)
      [] t = "volume" -> ListVolumes(cursor)
      [] t = "snapshot" -> ListSnapshots(of, cursor)

\* The first request of a walk, without a cursor, by a client with no other request.
StartWalk(c, t) ==
    /\ rreq[c].phase = "idle"
    /\ rwalk.state = "none"
    /\ \E of \in {IF t \in {"member", "release", "snapshot"} THEN r.ref ELSE 0 : r \in LiveOf(t)} :
         LET p == PageOf(t, of, 0)
         IN  /\ ~ListRefused(t, of)
             /\ rwalk' = [state |-> IF p.next = 0 THEN "done" ELSE "walking", table |-> t,
                          of |-> of, cursor |-> p.next, seen |-> p.items,
                          base |-> {r.id : r \in {r \in LiveOf(t) : of \in {0, r.ref}}}]
    /\ rreq' = [rreq EXCEPT ![c].phase = "walking"]
    /\ UNCHANGED <<focus, rlog, rdone, rrows, rworker, rraced>>

\* The next page, or a refusal, which ends the walk.
NextPage ==
    /\ rwalk.state = "walking"
    /\ LET p == PageOf(rwalk.table, rwalk.of, rwalk.cursor)
       IN  rwalk' = IF ListRefused(rwalk.table, rwalk.of)
                    THEN [rwalk EXCEPT !.state = "refused"]
                    ELSE [rwalk EXCEPT !.state = IF p.next = 0 THEN "done" ELSE "walking",
                                       !.cursor = p.next, !.seen = @ \o p.items]
    /\ UNCHANGED resourceVars

\* The walk has come to its end, or the client gives it up.
EndWalk(c) ==
    /\ rreq[c].phase = "walking"
    /\ rwalk' = NotWalking
    /\ rreq' = [rreq EXCEPT ![c] = NoRequest]
    /\ UNCHANGED <<focus, rlog, rdone, rrows, rworker, rraced>>

============================================================================
