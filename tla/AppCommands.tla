------------------------------ MODULE AppCommands ------------------------------
(* Applications and their releases: api/v1/apps.rs and releases.rs with their *)
(* projections.                                                               *)
EXTENDS ResourceLog

AppCreated(n) == <<Ev("app", "created", -1, n, 0, None)>>

\* create_app: no live application has the name.
CreateApp(c, n) ==
    /\ rreq[c].phase = "idle"
    /\ \A r \in LiveOf("app") : r.key # n
    /\ Proceed(c, "checked", AppCreated(n), 1)
    /\ CheckedInView(c, "app", n)

AppUpdated(r, n) == <<Ev("app", "updated", r.id, n, 0, None)>>

\* update_app up to the name check: the row has the expected_version.  A description
\* alone (n = None) needs no check.
LoadApp(c, r, n) ==
    /\ rreq[c].phase = "idle"
    /\ r \in LiveOf("app")
    /\ Proceed(c, IF n \in {None, r.key} THEN "checked" ELSE "loaded",
               AppUpdated(r, n), r.version + 1)
    /\ UNCHANGED rraced

\* update_app: no other live application has the new name.
CheckAppName(c) ==
    /\ rreq[c].phase = "loaded"
    /\ rreq[c].batch[1].table = "app"
    /\ LET e == rreq[c].batch[1]
       IN  /\ \A r \in LiveOf("app") : r.id # e.id => r.key # e.key
           /\ CheckedInView(c, "app", e.key)
    /\ rreq' = [rreq EXCEPT ![c].phase = "checked"]
    /\ UNCHANGED <<focus, rlog, rdone, rrows, rworker>>

AppDeleted(r) == <<Ev("app", "deleted", r.id, r.key, 0, None)>>

\* delete_app: the row's version numbers the event; a deleted row answers ok at once.
DeleteApp(c, r) ==
    /\ rreq[c].phase = "idle"
    /\ r \in LiveOf("app")
    /\ Proceed(c, "checked", AppDeleted(r), r.version + 1)
    /\ UNCHANGED rraced

\* AppsProjection
AppsApply(rows, e) ==
    IF e.kind = "created"
    THEN rows \cup {Inserted(e)}
    ELSE {CASE r.table = "app" /\ r.id = e.id /\ e.kind = "deleted" ->
                  [r EXCEPT !.live = FALSE, !.version = @ + 1]
            [] r.table = "app" /\ r.id = e.id /\ e.kind = "updated" /\ r.live ->
                  [r EXCEPT !.key = IF e.key = None THEN @ ELSE e.key, !.version = @ + 1]
            [] OTHER -> r : r \in rows}

\* get_app
GetApp(id) == {r \in LiveOf("app") : r.id = id}

AppReadBack(e) == GetApp(e.id) # {}

----------------------------------------------------------------------------

ReleaseCreated(a) == <<Ev("release", "created", -1, None, a.id, None)>>

\* create_release: the application is live.
CreateRelease(c, a) ==
    /\ rreq[c].phase = "idle"
    /\ a \in LiveOf("app")
    /\ Proceed(c, "checked", ReleaseCreated(a), 1)
    /\ UNCHANGED rraced

\* ReleasesProjection: a release never changes.
ReleasesApply(rows, e) == rows \cup {Inserted(e)}

\* get_release
GetRelease(a, id) == {r \in RowsOf("release") : r.id = id /\ r.ref = a}

ReleaseReadBack(e) == GetRelease(e.ref, e.id) # {}

============================================================================
