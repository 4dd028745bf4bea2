---------------------------- MODULE VolumeCommands ----------------------------
(* Volumes, their snapshots, restores and attachments: api/v1/volumes.rs and  *)
(* volume_attachments.rs with their projections.  No component reports on     *)
(* snapshots: they stay queued.                                               *)
EXTENDS ResourceLog

VolumeCreated == <<Ev("volume", "created", -1, None, 0, None)>>

\* create_volume: names are not unique.
CreateVolume(c) ==
    /\ rreq[c].phase = "idle"
    /\ Proceed(c, "checked", VolumeCreated, 1)
    /\ UNCHANGED rraced

VolumeDeleted(v) == <<Ev("volume", "deleted", v.id, None, 0, None)>>

\* delete_volume: the row is live in the view; attachments and snapshots are not looked at.
LoadVolumeToDelete(c, v) ==
    /\ rreq[c].phase = "idle"
    /\ v \in LiveOf("volume")
    /\ Proceed(c, "loaded", VolumeDeleted(v), 0)
    /\ UNCHANGED rraced

\* delete_volume, delete_attachment: the number of the event is read from the log.
NumberDelete(c) ==
    /\ rreq[c].phase = "loaded"
    /\ rreq[c].batch[1].table \in {"volume", "attachment"}
    /\ rreq' = [rreq EXCEPT ![c].phase = "checked",
                            ![c].seq = LogSeq(Len(rlog), rreq[c].batch[1].table,
                                              rreq[c].batch[1].id) + 1]
    /\ UNCHANGED <<focus, rlog, rdone, rrows, rworker, rraced>>

\* VolumesProjection
VolumesApply(rows, e) ==
    IF e.kind = "created"
    THEN rows \cup {Inserted(e)}
    ELSE {IF r.table = "volume" /\ r.id = e.id
          THEN [r EXCEPT !.live = FALSE, !.version = @ + 1] ELSE r : r \in rows}

\* load_attachments_for_volumes
AttachmentsOf(v) == {a \in LiveOf("attachment") : a.ref = v}

\* get_volume: the live row with its live attachments.
GetVolume(id) == {[row |-> r, attachments |-> AttachmentsOf(id)] : r \in
                    {r \in LiveOf("volume") : r.id = id}}

----------------------------------------------------------------------------

VolumeReadBack(e) == GetVolume(e.id) # {}

SnapshotCreated(v) == <<Ev("snapshot", "created", -1, None, v.id, "queued")>>

\* create_snapshot: the volume is live.
CreateSnapshot(c, v) ==
    /\ rreq[c].phase = "idle"
    /\ v \in LiveOf("volume")
    /\ Proceed(c, "checked", SnapshotCreated(v), 1)
    /\ UNCHANGED rraced

\* SnapshotsProjection
SnapshotsApply(rows, e) == rows \cup {Inserted(e)}

SnapshotReadBack(e) == \E r \in RowsOf("snapshot") : r.id = e.id

\* Mutant: the job is reported before its volume.
RestoreBatchJobFirst(s) ==
    <<Ev("restore", "created", -1, None, s.id, "queued"),
      Ev("restore", "updated", -1, None, -3, "succeeded"),
      Ev("volume", "created", -3, None, 0, None)>>

\* restore_volume: restore_job.created, volume.created and restore_job.status_changed.
RestoreBatch(s) ==
    <<Ev("restore", "created", -1, None, s.id, "queued"),
      Ev("volume", "created", -2, None, 0, None),
      Ev("restore", "updated", -1, None, -2, "succeeded")>>

\* restore_volume: the volume is live and the snapshot is one of it, queued or not.
RestoreVolume(c, v, s) ==
    /\ rreq[c].phase = "idle"
    /\ v \in LiveOf("volume")
    /\ s \in RowsOf("snapshot")
    /\ s.ref = v.id
    /\ Proceed(c, "checked", RestoreBatch(s), 1)
    /\ UNCHANGED rraced

\* RestoreJobsProjection
RestoresApply(rows, e) ==
    IF e.kind = "created"
    THEN rows \cup {Inserted(e)}
    ELSE {IF r.table = "restore" /\ r.id = e.id
          THEN [r EXCEPT !.ref = e.ref, !.attr = e.attr, !.version = @ + 1] ELSE r : r \in rows}

----------------------------------------------------------------------------

AttachmentCreated(v, path) == <<Ev("attachment", "created", -1, path, v.id, None)>>

\* create_attachment: environment and volume are live, and the mount path is free.
CreateAttachment(c, v, path) ==
    /\ rreq[c].phase = "idle"
    /\ LiveOf("env") # {}
    /\ v \in LiveOf("volume")
    /\ \A a \in LiveOf("attachment") : a.key # path
    /\ Proceed(c, "checked", AttachmentCreated(v, path), 1)
    /\ CheckedInView(c, "attachment", path)

AttachmentDeleted(a) == <<Ev("attachment", "deleted", a.id, a.key, a.ref, None)>>

\* delete_attachment: the row is live in the view.
LoadAttachmentToDelete(c, a) ==
    /\ rreq[c].phase = "idle"
    /\ a \in LiveOf("attachment")
    /\ Proceed(c, "loaded", AttachmentDeleted(a), 0)
    /\ UNCHANGED rraced

AttachmentReadBack(e) == \E a \in LiveOf("attachment") : a.id = e.id

\* VolumeAttachmentsProjection
AttachmentsApply(rows, e) ==
    IF e.kind = "created"
    THEN rows \cup {Inserted(e)}
    ELSE {IF r.table = "attachment" /\ r.id = e.id
          THEN [r EXCEPT !.live = FALSE, !.version = @ + 1] ELSE r : r \in rows}

============================================================================
