---------------------------- MODULE TenancyCommands ----------------------------
(* Organizations, their members and projects: api/v1/orgs.rs, members.rs and  *)
(* projects.rs with their projections.  Members of an organization act on     *)
(* it; its projects are a family of their own, with one caller who may write. *)
EXTENDS ResourceLog

\* The role of the caller, a member of organization o in org_members_view.
RequireOrgMember(o, roles) == \E m \in LiveOf("member") : m.ref = o /\ m.attr \in roles

RequireOrgWrite == {"owner", "admin", "developer"}

RequireOrgAdmin == {"owner", "admin"}

\* create_org: org.created and org_member.added in one batch.
OrgWithOwner(email) ==
    <<Ev("org", "created", -1, None, 0, None), Ev("member", "created", -2, email, -1, "owner")>>

\* create_org: any authenticated user; names are not unique.
CreateOrg(c, email) ==
    /\ rreq[c].phase = "idle"
    /\ Proceed(c, "checked", OrgWithOwner(email), 1)
    /\ UNCHANGED rraced

OrgUpdated(o) == <<Ev("org", "updated", o.id, None, 0, None)>>

\* update_org: the row has the expected_version.
UpdateOrg(c, o) ==
    /\ rreq[c].phase = "idle"
    /\ o \in RowsOf("org")
    /\ RequireOrgMember(o.id, RequireOrgWrite)
    /\ Proceed(c, "checked", OrgUpdated(o), o.version + 1)
    /\ UNCHANGED rraced

\* OrgsProjection
OrgsApply(rows, e) ==
    IF e.kind = "created"
    THEN rows \cup {Inserted(e)}
    ELSE {IF r.table = "org" /\ r.id = e.id
          THEN [r EXCEPT !.version = @ + 1] ELSE r : r \in rows}

OrgReadBack(e) == \E r \in RowsOf("org") : r.id = e.id

\* list_orgs: the organizations a user is a member of.
ListOrgs(email) ==
    {o \in RowsOf("org") : \E m \in LiveOf("member") : m.ref = o.id /\ m.key = email}

----------------------------------------------------------------------------

MemberAdded(o, email, role) == <<Ev("member", "created", -1, email, o.id, role)>>

\* create_member: an admin adds an email that is no live member of the organization.
CreateMember(c, o, email, role) ==
    /\ rreq[c].phase = "idle"
    /\ o \in RowsOf("org")
    /\ RequireOrgMember(o.id, RequireOrgAdmin)
    /\ \A m \in LiveOf("member") : m.ref = o.id => m.key # email
    /\ Proceed(c, "checked", MemberAdded(o, email, role), 1)
    /\ CheckedInView(c, "member", email)

RoleUpdated(m, role) == <<Ev("member", "updated", m.id, m.key, m.ref, role)>>

\* update_member up to the owner count: another role, and the expected_version.
LoadMember(c, m, role) ==
    /\ rreq[c].phase = "idle"
    /\ m \in LiveOf("member")
    /\ RequireOrgMember(m.ref, RequireOrgAdmin)
    /\ m.attr # role
    /\ Proceed(c, IF m.attr = "owner" THEN "loaded" ELSE "checked",
               RoleUpdated(m, role), m.version + 1)
    /\ UNCHANGED rraced

MemberRemoved(m) == <<Ev("member", "deleted", m.id, m.key, m.ref, m.attr)>>

\* delete_member up to the owner count: a removed member is answered at once.
LoadMemberToDelete(c, m) ==
    /\ rreq[c].phase = "idle"
    /\ m \in LiveOf("member")
    /\ RequireOrgMember(m.ref, RequireOrgAdmin)
    /\ Proceed(c, IF m.attr = "owner" THEN "loaded" ELSE "checked",
               MemberRemoved(m), m.version + 1)
    /\ UNCHANGED rraced

OwnersIn(o) == {m \in LiveOf("member") : m.ref = o /\ m.attr = "owner"}

\* Someone else is about to take an owner away, or has, in an event not projected yet.
OwnerLeaving(c) ==
    \/ \E i \in Unprojected : rlog[i].table = "member" /\ rlog[i].kind # "created"
    \/ \E d \in Handlers \ {c} :
         rreq[d].phase = "checked" /\ rreq[d].batch[1].table = "member"
           /\ rreq[d].batch[1].kind # "created"

\* Mutant: the owners are not counted.
CountNothing(c) ==
    /\ rreq[c].phase = "loaded"
    /\ rreq[c].batch[1].table = "member"
    /\ rreq' = [rreq EXCEPT ![c].phase = "checked"]
    /\ rraced' = IF OwnerLeaving(c) THEN rraced \cup {<<"owner", None>>} ELSE rraced
    /\ UNCHANGED <<focus, rlog, rdone, rrows, rworker>>

\* update_member, delete_member: the owner is not the last one in the view.
CountOwners(c) ==
    /\ rreq[c].phase = "loaded"
    /\ rreq[c].batch[1].table = "member"
    /\ Cardinality(OwnersIn(rreq[c].batch[1].ref)) > 1
    /\ rreq' = [rreq EXCEPT ![c].phase = "checked"]
    /\ rraced' = IF OwnerLeaving(c) THEN rraced \cup {<<"owner", None>>} ELSE rraced
    /\ UNCHANGED <<focus, rlog, rdone, rrows, rworker>>

\* Mutant: a new role leaves the version as it is.
MembersApplyUnversioned(rows, e) ==
    IF e.kind = "created"
    THEN rows \cup {Inserted(e)}
    ELSE {CASE r.table = "member" /\ r.id = e.id /\ e.kind = "deleted" ->
                  [r EXCEPT !.live = FALSE, !.version = @ + 1]
            [] r.table = "member" /\ r.id = e.id /\ e.kind = "updated" /\ r.live ->
                  [r EXCEPT !.attr = e.attr]
            [] OTHER -> r : r \in rows}

\* MembersProjection
MembersApply(rows, e) ==
    IF e.kind = "created"
    THEN rows \cup {Inserted(e)}
    ELSE {CASE r.table = "member" /\ r.id = e.id /\ e.kind = "deleted" ->
                  [r EXCEPT !.live = FALSE, !.version = @ + 1]
            [] r.table = "member" /\ r.id = e.id /\ e.kind = "updated" /\ r.live ->
                  [r EXCEPT !.attr = e.attr, !.version = @ + 1]
            [] OTHER -> r : r \in rows}

MemberReadBack(e) == \E m \in LiveOf("member") : m.id = e.id

----------------------------------------------------------------------------

ProjectCreated(n) == <<Ev("project", "created", -1, n, 0, None)>>

\* create_project: no live project has the name.
CreateProject(c, n) ==
    /\ rreq[c].phase = "idle"
    /\ \A r \in LiveOf("project") : r.key # n
    /\ Proceed(c, "checked", ProjectCreated(n), 1)
    /\ CheckedInView(c, "project", n)

ProjectUpdated(r, n) == <<Ev("project", "updated", r.id, n, 0, None)>>

\* update_project up to the name check: the row has the expected_version.
LoadProject(c, r, n) ==
    /\ rreq[c].phase = "idle"
    /\ r \in LiveOf("project")
    /\ Proceed(c, IF n = r.key THEN "checked" ELSE "loaded",
               ProjectUpdated(r, n), r.version + 1)
    /\ UNCHANGED rraced

\* update_project: no other live project has the new name.
CheckProjectName(c) ==
    /\ rreq[c].phase = "loaded"
    /\ rreq[c].batch[1].table = "project"
    /\ LET e == rreq[c].batch[1]
       IN  /\ \A r \in LiveOf("project") : r.id # e.id => r.key # e.key
           /\ CheckedInView(c, "project", e.key)
    /\ rreq' = [rreq EXCEPT ![c].phase = "checked"]
    /\ UNCHANGED <<focus, rlog, rdone, rrows, rworker>>

\* ProjectsProjection; no handler appends project.deleted.
ProjectsApply(rows, e) ==
    IF e.kind = "created"
    THEN rows \cup {Inserted(e)}
    ELSE {IF r.table = "project" /\ r.id = e.id
          THEN [r EXCEPT !.key = e.key, !.version = @ + 1] ELSE r : r \in rows}

\* get_project
GetProject(id) == {r \in LiveOf("project") : r.id = id}

ProjectReadBack(e) == GetProject(e.id) # {}

============================================================================
