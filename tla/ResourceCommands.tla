---------------------------- MODULE ResourceCommands ----------------------------
(***************************************************************************)
(* The commands on the resources of an organization, composed: handlers of *)
(* one family compete, the projection worker follows the log, and a client *)
(* walks a list.                                                           *)
(***************************************************************************)
EXTENDS TenancyCommands, AppCommands, RouteCommands, SecretCommands, VolumeCommands,
        ListEndpoints

rvars == <<focus, rlog, rdone, rrows, rworker, rreq, rraced, sversions, rwalk>>

FirstKey == CHOOSE k \in Keys : TRUE

\* What earlier requests have left: an organization with its owner; an environment; an
\* environment, a volume and a snapshot of it.
InitialLog(f) ==
    CASE f = "org" -> <<Ev("org", "created", 1, None, 0, None),
                        Ev("member", "created", 2, FirstKey, 1, "owner")>>
      [] f \in {"route", "secret"} -> <<Ev("env", "created", 1, None, 0, None)>>
      [] f = "volume" -> <<Ev("env", "created", 1, None, 0, None),
                           Ev("volume", "created", 2, None, 0, None),
                           Ev("snapshot", "created", 3, None, 2, "queued")>>
      [] OTHER -> <<>>

ResourceInit ==
    /\ focus \in Families
    /\ rlog = InitialLog(focus)
    /\ rdone = Len(rlog)
    /\ rrows = {Inserted(rlog[i]) : i \in 1 .. Len(rlog)}
    /\ rworker = "running"
    /\ rreq = [c \in Handlers |-> NoRequest]
    /\ rraced = {}
    /\ sversions = {}
    /\ rwalk = NotWalking

LogBound == Len(InitialLog(focus)) + EventBound

\* The views after an event, if their indexes allow it.
ViewsAfter(e) ==
    CASE e.table = "org" -> OrgsApply(rrows, e)
      [] e.table = "member" -> MembersApply(rrows, e)
      [] e.table = "project" -> ProjectsApply(rrows, e)
      [] e.table = "app" -> AppsApply(rrows, e)
      [] e.table = "release" -> ReleasesApply(rrows, e)
      [] e.table = "env" -> EnvsApply(rrows, e)
      [] e.table = "route" -> RoutesApply(rrows, e)
      [] e.table = "bundle" -> BundlesApply(rrows, e)
      [] e.table = "volume" -> VolumesApply(rrows, e)
      [] e.table = "snapshot" -> SnapshotsApply(rrows, e)
      [] e.table = "restore" -> RestoresApply(rrows, e)
      [] e.table = "attachment" -> AttachmentsApply(rrows, e)

\* The unique indexes of the views, over live rows: names, hostnames and mount paths, the
\* emails of an organization, the bundle of an environment.
Clashes(r, s) ==
    /\ r.table = s.table /\ r.id # s.id /\ r.live /\ s.live
    /\ r.table \in {"app", "project", "route", "attachment", "bundle", "member"}
    /\ r.key = s.key
    /\ r.table = "member" => r.ref = s.ref

IndexViolated(e) == \E r, s \in ViewsAfter(e) : Clashes(r, s)

\* The projections apply the next event.
ProjectResource ==
    /\ rworker = "running"
    /\ rdone < Len(rlog)
    /\ ~IndexViolated(rlog[rdone + 1])
    /\ rrows' = ViewsAfter(rlog[rdone + 1])
    /\ rdone' = rdone + 1
    /\ UNCHANGED <<focus, rlog, rworker, rreq, rraced, sversions, rwalk>>

\* The statement fails on an index: the transaction is rolled back and the worker ends.
ProjectRefused ==
    /\ rworker = "running"
    /\ rdone < Len(rlog)
    /\ IndexViolated(rlog[rdone + 1])
    /\ rworker' = "failed"
    /\ UNCHANGED <<focus, rlog, rdone, rrows, rreq, rraced, sversions, rwalk>>

\* The control plane is started again and resumes at its checkpoints.
RestartWorker ==
    /\ rworker = "failed"
    /\ rworker' = "running"
    /\ UNCHANGED <<focus, rlog, rdone, rrows, rreq, rraced, sversions, rwalk>>

OrgNext(c) ==
    /\ focus = "org"
    /\ \/ \E email \in Keys : CreateOrg(c, email)
       \/ \E o \in RowsOf("org") : UpdateOrg(c, o)
       \/ \E o \in RowsOf("org"), email \in Keys, role \in {"owner", "readonly"} :
            CreateMember(c, o, email, role)
       \/ \E m \in LiveOf("member"), role \in {"owner", "admin"} : LoadMember(c, m, role)
       \/ \E m \in LiveOf("member") : LoadMemberToDelete(c, m)
       \/ CountOwners(c)

ProjectNext(c) ==
    /\ focus = "project"
    /\ \/ \E n \in Keys : CreateProject(c, n)
       \/ \E r \in LiveOf("project"), n \in Keys : LoadProject(c, r, n)
       \/ CheckProjectName(c)

AppNext(c) ==
    /\ focus = "app"
    /\ \/ \E n \in Keys : CreateApp(c, n)
       \/ \E r \in LiveOf("app"), n \in Keys \cup {None} : LoadApp(c, r, n)
       \/ CheckAppName(c)
       \/ \E r \in LiveOf("app") : DeleteApp(c, r)
       \/ \E a \in LiveOf("app") : CreateRelease(c, a)

RouteNext(c) ==
    /\ focus = "route"
    /\ \/ \E h \in Keys : CreateRoute(c, h)
       \/ \E id \in 1 .. Len(rlog) : UpdateRoute(c, id) \/ DeleteRoute(c, id)

SecretNext(c) ==
    /\ focus = "secret"
    /\ \/ Cardinality(sversions) < EventBound /\ \E v \in Values : LoadBundle(c, v)
       \/ NumberBundle(c)
       \/ StoreSecretMaterial(c)
       \/ MaterialRefused(c)

VolumeNext(c) ==
    /\ focus = "volume"
    /\ \/ CreateVolume(c)
       \/ \E v \in LiveOf("volume") : LoadVolumeToDelete(c, v) \/ CreateSnapshot(c, v)
       \/ NumberDelete(c)
       \/ \E v \in LiveOf("volume"), s \in RowsOf("snapshot") : RestoreVolume(c, v, s)
       \/ \E v \in LiveOf("volume") : CreateAttachment(c, v, FirstKey)
       \/ \E a \in LiveOf("attachment") : LoadAttachmentToDelete(c, a)

ResourceNext ==
    \/ \E c \in Handlers :
         \/ /\ \/ OrgNext(c) \/ ProjectNext(c) \/ AppNext(c) \/ RouteNext(c) \/ VolumeNext(c)
               \/ Abandon(c) \/ AppendBatch(c, LogBound) \/ RefuseNumber(c) \/ AnswerRequest(c)
            /\ UNCHANGED <<sversions, rwalk>>
         \/ SecretNext(c) /\ UNCHANGED rwalk
    \/ focus \in {"route", "secret", "volume"} /\ DeleteEnvOf(LogBound)
         /\ UNCHANGED <<sversions, rwalk>>
    \/ ProjectResource
    \/ ProjectRefused
    \/ RestartWorker
    \/ /\ \/ NextPage
          \/ \E c \in Handlers : EndWalk(c) \/ \E t \in Listed : StartWalk(c, t)
       /\ UNCHANGED sversions

ResourceSpec == ResourceInit /\ [][ResourceNext]_rvars

----------------------------------------------------------------------------

ResourceTypeOK ==
    /\ focus \in Families
    /\ rlog \in Seq(ResourceEvent)
    /\ rdone \in 0 .. Len(rlog)
    /\ rrows \subseteq ResourceRow
    /\ rworker \in {"running", "failed"}
    /\ rreq \in [Handlers -> ResourceRequest]
    /\ rraced \subseteq (Tables \cup {"owner"}) \X (Keys \cup {None})
    /\ sversions \subseteq SecretVersion
    /\ rwalk.seen \in Seq(Nat) /\ rwalk.cursor \in Nat

\* The log can be replayed into the views up to its end, whatever names, emails,
\* hostnames, mount paths and bundles were claimed, unless a claim was checked while a
\* rival was out of sight.  A lagging view hides rivals of every claim but a hostname's.
IndexesHoldUnlessRaced ==
    rdone < Len(rlog) /\ IndexViolated(rlog[rdone + 1]) =>
        <<rlog[rdone + 1].table, rlog[rdone + 1].key>> \in rraced

\* Members as the whole log has them, projected or not.
MembersInLog(o) ==
    {i \in 1 .. Len(rlog) :
        /\ rlog[i].table = "member" /\ rlog[i].kind # "deleted" /\ rlog[i].ref = o
        /\ ~\E j \in (i + 1) .. Len(rlog) : rlog[j].table = "member" /\ rlog[j].id = rlog[i].id}

\* An organization keeps an owner, whoever is demoted and removed, unless owners were
\* counted while another of them was on the way out (members.rs: last_owner).
OwnerLeftUnlessRaced ==
    <<"owner", None>> \in rraced
      \/ \A o \in RowsOf("org") : \E i \in MembersInLog(o.id) : rlog[i].attr = "owner"

ParentTable(r) ==
    CASE r.table = "member" -> "org"
      [] r.table = "release" -> "app"
      [] r.table = "snapshot" -> "volume"
      [] r.table = "attachment" -> "volume"
      [] r.table = "restore" -> IF r.attr = "succeeded" THEN "volume" ELSE "snapshot"
      [] OTHER -> "none"

\* What a row names can be read: its parent has a row, a succeeded restore its volume, and
\* the current version of a bundle its stored material, with the content that was put.
ReferencesResolve ==
    \A r \in rrows :
        /\ ParentTable(r) # "none" => \E p \in RowsOf(ParentTable(r)) : p.id = r.ref
        /\ r.table = "bundle" /\ r.ref # 0 =>
             /\ \E s \in sversions : s.bundle = r.id /\ s.version = r.ref
             /\ GetSecretMaterial(r.ref) = {r.attr} /\ GrpcGetSecretMaterial(r.ref) = {r.attr}

\* A row counts the applied events of its aggregate, so that the version a client is
\* shown is the one its next write has to follow; and nothing but a repeated delete
\* follows a delete, whatever the other handlers had loaded.  The two readings of a
\* route's events agree: the projection's, and the fold its handlers use.
HistoriesWellFormed ==
    /\ \A r \in RowsOf("route") :
         /\ GetRoute(r.id) <= RouteState(r.id).version
         /\ rdone = Len(rlog) =>
              /\ r.live = ~RouteState(r.id).deleted
              /\ r.version = RouteState(r.id).version
    /\ \A r \in rrows : r.version = LogSeq(rdone, r.table, r.id)
    /\ \A i, j \in 1 .. Len(rlog) :
         i < j /\ rlog[i].kind = "deleted" /\ rlog[j].table = rlog[i].table
           /\ rlog[j].id = rlog[i].id => rlog[j].kind = "deleted"

\* The row that a handler reads back for its answer.
ReadBack(e) ==
    CASE e.kind = "deleted" -> TRUE
      [] e.table = "org" -> OrgReadBack(e)
      [] e.table = "member" -> MemberReadBack(e)
      [] e.table = "project" -> ProjectReadBack(e)
      [] e.table = "app" -> AppReadBack(e)
      [] e.table = "release" -> ReleaseReadBack(e)
      [] e.table = "route" -> RouteReadBack(e)
      [] e.table = "bundle" -> SecretsReadBack
      [] e.table = "volume" -> VolumeReadBack(e)
      [] e.table = "snapshot" -> SnapshotReadBack(e)
      [] e.table = "attachment" -> AttachmentReadBack(e)

\* A handler whose wait is over finds its row ("was not materialized" is never answered),
\* unless the resource has been deleted since; and list_orgs shows a new organization to
\* the user who created it, unless that membership has changed.
MaterializedWhenAwaited ==
    \A c \in Handlers :
        rreq[c].phase = "waiting" /\ rdone >= rreq[c].upto =>
            LET e == rlog[rreq[c].shown]
                owner == rlog[rreq[c].upto]
                Followed(f) == \E i \in 1 .. rdone :
                     rlog[i].table = f.table /\ rlog[i].id = f.id /\ rlog[i].kind = "deleted"
            IN  /\ ReadBack(e) \/ Followed(e)
                /\ e.table = "org" /\ e.kind = "created" =>
                     Followed(owner) \/ \E o \in ListOrgs(owner.key) : o.id = e.id

\* A finished walk returned nothing twice, and every row that was there when it began and
\* still is, although rows came and went between its pages.
PagesComplete ==
    rwalk.state = "done" =>
        /\ \A i, j \in 1 .. Len(rwalk.seen) : i < j => rwalk.seen[i] < rwalk.seen[j]
        /\ \A id \in rwalk.base :
             (\E r \in LiveOf(rwalk.table) : r.id = id)
               => \E i \in 1 .. Len(rwalk.seen) : rwalk.seen[i] = id

============================================================================
