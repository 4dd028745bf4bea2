----------------------------- MODULE ImageStore -----------------------------
(***************************************************************************)
(* Root disks: the image puller and its cache, shared by the instances     *)
(* that start at the same time, the cache's eviction, and the image actor, *)
(* which keeps a book of its own about the same files.                     *)
(***************************************************************************)
EXTENDS Integers, Sequences, FiniteSets

CONSTANTS
    Pullers,      \* callers of ensure_image, one per instance being started
    Digests,
    HighWater,    \* entries above which needs_eviction
    LowWater,     \* entries evict comes down to
    ActorLimit,   \* entries above which the image actor collects
    MaxCalls      \* bound on calls of ensure_image and of EnsurePulled

VARIABLES
    entries,  \* ImageCache.rootdisks: [Digests -> reference count, or Absent]
    disk,     \* root disk files that exist
    content,  \* the images whose files a root disk holds
    temp,     \* the file rootdisk-<pid>.ext4 all builds of a process write
    locks,    \* the holder of a digest's build lock, or Nobody
    pulls,    \* where each caller is
    evictor,  \* maybe_evict in progress
    book,     \* the image actor's cache, least recently used first
    raced,    \* digests acquired against the eviction of the same digest
    gone,     \* digests the image actor has deleted
    mixed,    \* digests built while another one was
    calls     \* calls so far

ivars == <<entries, disk, content, temp, locks, pulls, evictor, book, raced, gone, mixed, calls>>

Absent == -1
Nobody == "nobody"

ASSUME ImageAssumption == Nobody \notin Pullers

IdlePull == [pc |-> "idle", digest |-> Nobody, pinned |-> FALSE]
IdleEvict == [pc |-> "idle", left |-> {}, digest |-> Nobody]
NoTemp == [there |-> FALSE, has |-> {}]

ImageInit ==
    /\ entries = [d \in Digests |-> Absent]
    /\ disk = {} /\ content = [d \in Digests |-> {}]
    /\ temp = NoTemp
    /\ locks = [d \in Digests |-> Nobody]
    /\ pulls = [c \in Pullers |-> IdlePull]
    /\ evictor = IdleEvict
    /\ book = <<>>
    /\ raced = {} /\ gone = {} /\ mixed = {}
    /\ calls = 0

Goes(c, pc) == pulls' = [pulls EXCEPT ![c].pc = pc]

----------------------------------------------------------------------------
(* ensure_image.                                                           *)

\* The eviction has taken the entry and is about to delete the file.
Doomed(d) == evictor.pc = "delete" /\ evictor.digest = d

\* acquire_rootdisk: a reference if the entry is there.
Acquire(c, d, miss) ==
    /\ entries' = IF entries[d] = Absent THEN entries ELSE [entries EXCEPT ![d] = @ + 1]
    /\ pulls' = [pulls EXCEPT ![c] = [pc |-> IF entries[d] = Absent THEN miss ELSE "held",
                                      digest |-> d, pinned |-> entries[d] # Absent]]
    /\ raced' = IF Doomed(d) \/ (entries[d] = Absent /\ miss = "held") THEN raced \cup {d} ELSE raced

\* register_rootdisk
Register(d) ==
    /\ entries' = [entries EXCEPT ![d] = IF @ = Absent THEN 0 ELSE @]
    /\ raced' = IF Doomed(d) THEN raced \cup {d} ELSE raced

\* the first lookup
EnsureImage(c, d) ==
    /\ pulls[c].pc = "idle"
    /\ calls < MaxCalls /\ calls' = calls + 1
    /\ Acquire(c, d, "exists")
    /\ UNCHANGED <<disk, content, temp, locks, evictor, book, gone, mixed>>

\* rootdisk_exists without the lock, and again under it
RootdiskExists(c) ==
    /\ pulls[c].pc \in {"exists", "recheck"}
    /\ pulls[c].digest \in disk
    /\ Register(pulls[c].digest)
    /\ Goes(c, "acquire")
    /\ UNCHANGED <<disk, content, temp, locks, evictor, book, gone, mixed, calls>>

AcquireRegistered(c) ==
    LET d == pulls[c].digest
    IN  /\ pulls[c].pc = "acquire"
        /\ Acquire(c, d, "held")
        /\ locks' = [e \in Digests |-> IF locks[e] = c THEN Nobody ELSE locks[e]]
        /\ UNCHANGED <<disk, content, temp, evictor, book, gone, mixed, calls>>

\* no file yet: get_build_lock
GetBuildLock(c) ==
    /\ pulls[c].pc = "exists" /\ pulls[c].digest \notin disk
    /\ Goes(c, "lock")
    /\ UNCHANGED <<entries, disk, content, temp, locks, evictor, book, raced, gone, mixed, calls>>

\* its lock, which the call may have waited for
TakeBuildLock(c) ==
    /\ pulls[c].pc = "lock"
    /\ locks[pulls[c].digest] = Nobody
    /\ locks' = [locks EXCEPT ![pulls[c].digest] = c]
    /\ Goes(c, "recheck")
    /\ UNCHANGED <<entries, disk, content, temp, evictor, book, raced, gone, mixed, calls>>

\* An error on the way ends the call and frees the lock.
PullFails(c) ==
    /\ pulls' = [pulls EXCEPT ![c] = IdlePull]
    /\ locks' = [e \in Digests |-> IF locks[e] = c THEN Nobody ELSE locks[e]]
    /\ UNCHANGED <<entries, disk, content, evictor, book, raced, gone, mixed, calls>>

\* pull_and_build: the manifest, checked against the digest, and the layers that are missing
PullManifest == {"ok", "digest_mismatch", "not_found"}
PullBlob == {"ok", "digest_mismatch", "timeout", "too_large"}

PullLayers(c) ==
    /\ pulls[c].pc = "recheck" /\ pulls[c].digest \notin disk
    /\ \/ Goes(c, "create") /\ UNCHANGED <<entries, disk, content, locks, evictor, book, raced, gone, mixed, calls>>
       \/ (PullManifest \cup PullBlob) # {"ok"} /\ PullFails(c)
    /\ UNCHANGED temp

Building(c) == pulls[c].pc \in {"copy", "rename"}

\* RootDiskBuilder::build up to the empty image of create_ext4_image. The name of the file
\* tells processes apart, not builds.
CreateImage(c) ==
    LET others == {pulls[b].digest : b \in {a \in Pullers \ {c} : Building(a)}}
    IN  /\ pulls[c].pc = "create"
        /\ temp' = [there |-> TRUE, has |-> {}]
        /\ mixed' = IF others = {} THEN mixed ELSE mixed \cup others \cup {pulls[c].digest}
        /\ Goes(c, "copy")
        /\ UNCHANGED <<entries, disk, content, locks, evictor, book, raced, gone, calls>>

\* mkfs, mount, cp, umount on the temporary file
CopyFiles(c) ==
    /\ pulls[c].pc = "copy"
    /\ \/ /\ temp.there
          /\ temp' = [temp EXCEPT !.has = @ \cup {pulls[c].digest}]
          /\ Goes(c, "rename")
          /\ UNCHANGED <<entries, disk, content, locks, evictor, book, raced, gone, mixed, calls>>
       \/ ~temp.there /\ PullFails(c) /\ UNCHANGED temp

\* rename over the final name
RenameImage(c) ==
    /\ pulls[c].pc = "rename" /\ temp.there
    /\ disk' = disk \cup {pulls[c].digest}
    /\ content' = [content EXCEPT ![pulls[c].digest] = temp.has]
    /\ temp' = NoTemp
    /\ Goes(c, "register")
    /\ UNCHANGED <<entries, locks, evictor, book, raced, gone, mixed, calls>>

RenameFails(c) == pulls[c].pc = "rename" /\ ~temp.there /\ PullFails(c) /\ UNCHANGED temp

RegisterBuilt(c) ==
    /\ pulls[c].pc = "register"
    /\ Register(pulls[c].digest)
    /\ Goes(c, "acquire")
    /\ UNCHANGED <<disk, content, temp, locks, evictor, book, gone, mixed, calls>>

\* release_image, release_rootdisk
ReleaseImage(c) ==
    LET d == pulls[c].digest
    IN  /\ pulls[c].pc = "held"
        /\ entries' = IF entries[d] > 0 THEN [entries EXCEPT ![d] = @ - 1] ELSE entries
        /\ pulls' = [pulls EXCEPT ![c] = IdlePull]
        /\ UNCHANGED <<disk, content, temp, locks, evictor, book, raced, gone, mixed, calls>>

----------------------------------------------------------------------------
(* Eviction.                                                               *)

Cached == {d \in Digests : entries[d] # Absent}

\* maybe_evict, and the candidates of evict
MaybeEvict ==
    /\ evictor.pc = "idle" /\ Cardinality(Cached) > HighWater
    /\ evictor' = [pc |-> "remove", left |-> {d \in Digests : entries[d] = 0}, digest |-> Nobody]
    /\ UNCHANGED <<entries, disk, content, temp, locks, pulls, book, raced, gone, mixed, calls>>

\* Mutant: the count is not looked at again.
RemoveListed ==
    /\ evictor.pc = "remove"
    /\ \E d \in evictor.left :
         /\ entries' = [entries EXCEPT ![d] = Absent]
         /\ evictor' = [pc |-> "delete", left |-> evictor.left \ {d}, digest |-> d]
    /\ UNCHANGED <<disk, content, temp, locks, pulls, book, raced, gone, mixed, calls>>

\* A caller has seen or built the file and has not counted itself yet.
Unpinned(d) == \E c \in Pullers : pulls[c].digest = d /\ pulls[c].pc \in {"register", "acquire"}

\* one candidate of the loop: still unused, its entry goes
RemoveEntry ==
    /\ evictor.pc = "remove"
    /\ \E d \in evictor.left :
         IF entries[d] > 0
         THEN /\ evictor' = [evictor EXCEPT !.left = @ \ {d}]
              /\ UNCHANGED <<entries, raced>>
         ELSE /\ Cardinality(Cached) > LowWater
              /\ entries' = [entries EXCEPT ![d] = Absent]
              /\ evictor' = [pc |-> "delete", left |-> evictor.left \ {d}, digest |-> d]
              /\ raced' = IF Unpinned(d) THEN raced \cup {d} ELSE raced
    /\ UNCHANGED <<disk, content, temp, locks, pulls, book, gone, mixed, calls>>

\* ... and then its file
DeleteFile ==
    /\ evictor.pc = "delete"
    /\ disk' = disk \ {evictor.digest}
    /\ evictor' = [evictor EXCEPT !.pc = "remove", !.digest = Nobody]
    /\ UNCHANGED <<entries, content, temp, locks, pulls, book, raced, gone, mixed, calls>>

EvictionEnds ==
    /\ evictor.pc = "remove"
    /\ evictor.left = {} \/ Cardinality(Cached) <= LowWater
    /\ evictor' = IdleEvict
    /\ UNCHANGED <<entries, disk, content, temp, locks, pulls, book, raced, gone, mixed, calls>>

----------------------------------------------------------------------------
(* ImagePullActor.                                                         *)

\* handle_ensure_pulled without a puller, as the supervisor builds it: a pull is only entered
\* in the book.
EnsurePulled(d) ==
    /\ book' = Append(SelectSeq(book, LAMBDA e : e # d), d)
    /\ calls < MaxCalls /\ calls' = calls + 1
    /\ UNCHANGED <<entries, disk, content, temp, locks, pulls, evictor, raced, gone, mixed>>

\* handle_gc_check: nothing ever enters refs, so the least recently used goes.
GcCheck ==
    /\ Len(book) > ActorLimit
    /\ book' = Tail(book)
    /\ disk' = disk \ {Head(book)}
    /\ gone' = gone \cup {Head(book)}
    /\ UNCHANGED <<entries, content, temp, locks, pulls, evictor, raced, mixed, calls>>

\* ImageCache::init in a new agent process; the temporary file of the old one is not its own.
CacheInit ==
    /\ entries' = [d \in Digests |-> IF d \in disk THEN 0 ELSE Absent]
    /\ temp' = NoTemp
    /\ locks' = [d \in Digests |-> Nobody]
    /\ pulls' = [c \in Pullers |-> IdlePull]
    /\ evictor' = IdleEvict
    /\ book' = <<>>
    /\ entries' # entries
    /\ UNCHANGED <<disk, content, raced, gone, mixed, calls>>

ImageNext ==
    \/ \E c \in Pullers :
         \/ \E d \in Digests : EnsureImage(c, d)
         \/ RootdiskExists(c) \/ AcquireRegistered(c) \/ GetBuildLock(c) \/ TakeBuildLock(c)
         \/ PullLayers(c) \/ CreateImage(c) \/ CopyFiles(c) \/ RenameImage(c) \/ RenameFails(c)
         \/ RegisterBuilt(c) \/ ReleaseImage(c)
    \/ MaybeEvict \/ RemoveEntry \/ DeleteFile \/ EvictionEnds
    \/ \E d \in Digests : EnsurePulled(d)
    \/ GcCheck \/ CacheInit

----------------------------------------------------------------------------

Holders(d) == {c \in Pullers : pulls[c].pc = "held" /\ pulls[c].pinned /\ pulls[c].digest = d}

\* A root disk an instance was given is on the disk for as long as the instance holds it, and
\* is counted, whatever the eviction does meanwhile, unless its eviction met a caller between
\* finding the file and counting itself, or the image actor, which knows of no holder, deleted
\* it.
HeldDisksThere ==
    \A d \in Digests \ (raced \cup gone) : Holders(d) # {} =>
        d \in disk /\ entries[d] = Cardinality(Holders(d))

\* A root disk holds the files of its image and no other, unless another image was being
\* built at the time.
DisksHoldTheirImage == \A d \in disk \ mixed : content[d] = {d}

\* What an instance boots from: the root disk it was given stays there and is that of its
\* image (ensure_image, ImageCache, RootDiskBuilder, the eviction).
RootDisksSound == HeldDisksThere /\ DisksHoldTheirImage

=============================================================================
