-------------------------- MODULE NodeAgent_proofs --------------------------
(***************************************************************************)
(* TLAPS proofs about a node's agent, for any number of instances,         *)
(* releases, callers and images.                                           *)
(*                                                                         *)
(* The store of images.  A caller of ensure_image is, between finding the  *)
(* file and counting itself, protected by nothing; the inductive invariant *)
(* says what each stage of the call may rely on, what the eviction's list  *)
(* means, and whose files the one temporary image holds.                   *)
(***************************************************************************)
EXTENDS NodeAgent, FiniteSetTheorems, TLAPS

PullPcs == {"idle", "exists", "lock", "recheck", "create", "copy", "rename", "register",
            "acquire", "held"}

Pull == [pc : PullPcs, digest : Digests \cup {Nobody}, pinned : BOOLEAN]

ImageTypeOK ==
    /\ entries \in [Digests -> Nat \cup {Absent}]
    /\ disk \subseteq Digests
    /\ content \in [Digests -> SUBSET Digests]
    /\ temp \in [there : BOOLEAN, has : SUBSET Digests]
    /\ locks \in [Digests -> Pullers \cup {Nobody}]
    /\ pulls \in [Pullers -> Pull]
    /\ \A c \in Pullers : pulls[c].pc # "idle" => pulls[c].digest \in Digests
    /\ evictor \in [pc : {"idle", "remove", "delete"}, left : SUBSET Digests,
                    digest : Digests \cup {Nobody}]

\* From the second look at the disk to the rename a caller has the build lock, and the file is
\* not there.
LockInv ==
    \A c \in Pullers :
        /\ pulls[c].pc \in {"recheck", "create", "copy", "rename"} => locks[pulls[c].digest] = c
        /\ pulls[c].pc \in {"create", "copy", "rename"} => pulls[c].digest \notin disk

\* Unless an eviction came between, the count is that of the holders, and an entry is there
\* for a caller about to count itself.
Counted(d) ==
    /\ IsFiniteSet(Holders(d))
    /\ \A c \in Pullers : pulls[c].pc = "held" /\ pulls[c].digest = d => pulls[c].pinned
    /\ \A c \in Pullers : pulls[c].pc = "acquire" /\ pulls[c].digest = d => entries[d] # Absent
    /\ entries[d] = Absent => Holders(d) = {}
    /\ entries[d] # Absent => entries[d] = Cardinality(Holders(d))

CountInv == \A d \in Digests \ raced : Counted(d)

\* Unless the image actor deleted it as well, a file is there for every entry, for an entry
\* just taken out, and for a caller who has just built it.
FileInv ==
    \A d \in Digests \ (raced \cup gone) :
        /\ entries[d] # Absent => d \in disk
        /\ Doomed(d) => d \in disk /\ entries[d] = Absent
        /\ \A c \in Pullers : pulls[c].pc = "register" /\ pulls[c].digest = d =>
              d \in disk /\ ~Doomed(d)

\* What is left of the eviction's list has its entry: nobody else takes entries out.
ListInv == \A d \in evictor.left : entries[d] # Absent

\* The temporary file holds what its only writer has written.
TempInv ==
    /\ \A b, c \in Pullers : Building(b) /\ Building(c) /\ b # c => pulls[c].digest \in mixed
    /\ \A c \in Pullers : pulls[c].pc = "copy" /\ pulls[c].digest \notin mixed /\ temp.there =>
          temp.has = {}
    /\ \A c \in Pullers : pulls[c].pc = "rename" /\ pulls[c].digest \notin mixed /\ temp.there =>
          temp.has = {pulls[c].digest}

ImageInv ==
    ImageTypeOK /\ LockInv /\ CountInv /\ FileInv /\ ListInv /\ TempInv /\ DisksHoldTheirImage

----------------------------------------------------------------------------
(* What the helpers of the actions do.                                     *)

\* A caller that goes on keeps its image, and no other caller moves.
LEMMA GoesEffect ==
    ASSUME ImageTypeOK, NEW c \in Pullers, NEW pc \in PullPcs, Goes(c, pc)
    PROVE  /\ pulls' \in [Pullers -> Pull]
           /\ pulls'[c].pc = pc /\ pulls'[c].digest = pulls[c].digest
           /\ pulls'[c].pinned = pulls[c].pinned
           /\ \A b \in Pullers : b # c => pulls'[b] = pulls[b]
<1>1. pulls' = [pulls EXCEPT ![c] = [pulls[c] EXCEPT !.pc = pc]]
  BY DEF Goes
<1>2. pulls[c] \in Pull /\ pulls \in [Pullers -> Pull]
  BY DEF ImageTypeOK
<1>3. [pulls[c] EXCEPT !.pc = pc] \in Pull
  BY <1>2 DEF Pull
<1> QED BY <1>1, <1>2, <1>3 DEF Pull

\* A failed call is as if it had not been made, and has no lock.
LEMMA PullFailsEffect ==
    ASSUME ImageTypeOK, NEW c \in Pullers, PullFails(c)
    PROVE  /\ pulls' \in [Pullers -> Pull]
           /\ pulls'[c].pc = "idle"
           /\ \A b \in Pullers : b # c => pulls'[b] = pulls[b]
           /\ locks' \in [Digests -> Pullers \cup {Nobody}]
           /\ \A e \in Digests : locks[e] # c => locks'[e] = locks[e]
<1>1. IdlePull \in Pull
  BY DEF IdlePull, Pull, PullPcs
<1>2. pulls' = [pulls EXCEPT ![c] = IdlePull] /\ pulls \in [Pullers -> Pull]
  BY DEF PullFails, ImageTypeOK
<1>3. pulls'[c] = IdlePull
  BY <1>2
<1> QED BY <1>1, <1>2, <1>3 DEF PullFails, ImageTypeOK, IdlePull

\* A reference is counted where there is an entry, and nowhere else.
LEMMA AcquireEffect ==
    ASSUME ImageTypeOK, NEW c \in Pullers, NEW d \in Digests, NEW miss \in PullPcs,
           Acquire(c, d, miss)
    PROVE  /\ pulls' \in [Pullers -> Pull]
           /\ pulls'[c].digest = d
           /\ entries[d] = Absent => pulls'[c].pc = miss /\ pulls'[c].pinned = FALSE
           /\ entries[d] # Absent => pulls'[c].pc = "held" /\ pulls'[c].pinned = TRUE
           /\ \A b \in Pullers : b # c => pulls'[b] = pulls[b]
           /\ entries' \in [Digests -> Nat \cup {Absent}]
           /\ entries[d] = Absent => entries' = entries
           /\ entries[d] # Absent => entries'[d] = entries[d] + 1
           /\ \A e \in Digests : e # d => entries'[e] = entries[e]
           /\ raced \subseteq raced' /\ raced' \subseteq raced \cup {d}
           /\ Doomed(d) => d \in raced'
           /\ entries[d] = Absent /\ miss = "held" => d \in raced'
<1> DEFINE new == [pc |-> IF entries[d] = Absent THEN miss ELSE "held",
                   digest |-> d, pinned |-> entries[d] # Absent]
<1>1. pulls' = [pulls EXCEPT ![c] = new] /\ pulls \in [Pullers -> Pull]
  BY DEF Acquire, ImageTypeOK
<1>2. new \in Pull
  BY DEF Pull, PullPcs
<1>3. /\ new.digest = d
      /\ entries[d] = Absent => new.pc = miss /\ new.pinned = FALSE
      /\ entries[d] # Absent => new.pc = "held" /\ new.pinned = TRUE
  OBVIOUS
<1> HIDE DEF new
<1>4. /\ pulls' \in [Pullers -> Pull] /\ pulls'[c] = new
      /\ \A b \in Pullers : b # c => pulls'[b] = pulls[b]
  BY <1>1, <1>2
<1>5. entries \in [Digests -> Nat \cup {Absent}] /\ Absent = -1
  BY DEF ImageTypeOK, Absent
<1>6. entries' = IF entries[d] = Absent THEN entries ELSE [entries EXCEPT ![d] = @ + 1]
  BY DEF Acquire
<1>7. /\ entries' \in [Digests -> Nat \cup {Absent}]
      /\ entries[d] = Absent => entries' = entries
      /\ entries[d] # Absent => entries'[d] = entries[d] + 1
      /\ \A e \in Digests : e # d => entries'[e] = entries[e]
  BY <1>5, <1>6
<1>8. /\ raced \subseteq raced' /\ raced' \subseteq raced \cup {d}
      /\ Doomed(d) => d \in raced'
      /\ entries[d] = Absent /\ miss = "held" => d \in raced'
  BY DEF Acquire
<1> QED BY <1>3, <1>4, <1>7, <1>8

\* An entry is made where there is none.
LEMMA RegisterEffect ==
    ASSUME ImageTypeOK, NEW d \in Digests, Register(d)
    PROVE  /\ entries' \in [Digests -> Nat \cup {Absent}]
           /\ entries[d] = Absent => entries'[d] = 0
           /\ entries[d] # Absent => entries'[d] = entries[d]
           /\ entries'[d] # Absent
           /\ \A e \in Digests : e # d => entries'[e] = entries[e]
           /\ raced \subseteq raced' /\ raced' \subseteq raced \cup {d}
           /\ Doomed(d) => d \in raced'
<1>1. entries \in [Digests -> Nat \cup {Absent}] /\ Absent = -1
  BY DEF ImageTypeOK, Absent
<1>2. entries' = [entries EXCEPT ![d] = IF entries[d] = Absent THEN 0 ELSE entries[d]]
  BY DEF Register
<1>3. /\ entries' \in [Digests -> Nat \cup {Absent}]
      /\ entries[d] = Absent => entries'[d] = 0
      /\ entries[d] # Absent => entries'[d] = entries[d]
      /\ entries'[d] # Absent
      /\ \A e \in Digests : e # d => entries'[e] = entries[e]
  BY <1>1, <1>2
<1> QED BY <1>3 DEF Register

----------------------------------------------------------------------------
(* Parts of the invariant that most steps leave alone.                     *)

\* Holders are the same as long as nobody takes or gives back a root disk.
LEMMA HoldersKept ==
    ASSUME NEW d,
           \A b \in Pullers : pulls'[b].pc = "held" \/ pulls[b].pc = "held" => pulls'[b] = pulls[b]
    PROVE  Holders(d)' = Holders(d)
BY DEF Holders

LEMMA CountKept ==
    ASSUME CountInv, entries' = entries, raced \subseteq raced',
           \A b \in Pullers : pulls'[b].pc \in {"held", "acquire"} \/ pulls[b].pc = "held" =>
               pulls'[b] = pulls[b]
    PROVE  CountInv'
<1> SUFFICES ASSUME NEW d \in Digests \ raced'
             PROVE  Counted(d)'
  BY DEF CountInv
<1>1. Holders(d)' = Holders(d)
  BY HoldersKept
<1>2. Counted(d)
  BY DEF CountInv
<1> QED BY <1>1, <1>2 DEF Counted

\* A caller's step says nothing about the images that are not its own.
LEMMA CountElsewhere ==
    ASSUME NEW c \in Pullers, NEW e, Counted(e), entries'[e] = entries[e],
           \A b \in Pullers : b # c => pulls'[b] = pulls[b],
           pulls'[c].pc \in {"held", "acquire"} => pulls'[c].digest # e,
           pulls[c].pc = "held" => pulls[c].digest # e
    PROVE  Counted(e)'
<1>1. Holders(e)' = Holders(e)
  BY DEF Holders
<1> QED BY <1>1 DEF Counted

\* One more holder, one more reference.
LEMMA CountUp ==
    ASSUME NEW c \in Pullers, NEW d, Counted(d), entries[d] \in Nat,
           entries'[d] = entries[d] + 1,
           \A b \in Pullers : b # c => pulls'[b] = pulls[b],
           pulls[c].pc # "held",
           pulls'[c].pc = "held", pulls'[c].digest = d, pulls'[c].pinned = TRUE
    PROVE  Counted(d)'
<1>1. Holders(d)' = Holders(d) \cup {c} /\ c \notin Holders(d)
  BY DEF Holders
<1>2. IsFiniteSet(Holders(d)) /\ entries[d] = Cardinality(Holders(d))
  BY DEF Counted, Absent
<1>3. /\ IsFiniteSet(Holders(d) \cup {c})
      /\ Cardinality(Holders(d) \cup {c}) = Cardinality(Holders(d)) + 1
  BY <1>1, <1>2, FS_AddElement
<1>4. entries'[d] # Absent
  BY DEF Absent
<1> QED BY <1>1, <1>2, <1>3, <1>4 DEF Counted

\* A step without writing to the temporary image, or to a root disk.
LEMMA TempKept ==
    ASSUME TempInv, temp' = temp, mixed' = mixed,
           \A b \in Pullers : pulls'[b].pc \in {"copy", "rename"} => pulls'[b] = pulls[b]
    PROVE  TempInv'
BY DEF TempInv, Building

\* A step that leaves the disk, the entries and the eviction alone.
LEMMA FileKept ==
    ASSUME FileInv, entries' = entries, disk' = disk, evictor' = evictor,
           raced \subseteq raced', gone \subseteq gone',
           \A b \in Pullers : pulls'[b].pc = "register" => pulls'[b] = pulls[b]
    PROVE  FileInv'
BY DEF FileInv, Doomed

----------------------------------------------------------------------------
(* One lemma per step of ensure_image and release_image.                   *)

LEMMA EnsureImageKeeps ==
    ASSUME ImageInv, NEW c \in Pullers, NEW d \in Digests, EnsureImage(c, d)
    PROVE  ImageInv'
<1>1. /\ pulls[c].pc = "idle" /\ Acquire(c, d, "exists") /\ "exists" \in PullPcs
      /\ UNCHANGED <<disk, content, temp, locks, evictor, book, gone, mixed>>
  BY DEF EnsureImage, PullPcs
<1>2. ImageTypeOK
  BY DEF ImageInv
<1>3. /\ pulls' \in [Pullers -> Pull]
      /\ pulls'[c].digest = d
      /\ entries[d] = Absent => pulls'[c].pc = "exists" /\ pulls'[c].pinned = FALSE
      /\ entries[d] # Absent => pulls'[c].pc = "held" /\ pulls'[c].pinned = TRUE
      /\ \A b \in Pullers : b # c => pulls'[b] = pulls[b]
      /\ entries' \in [Digests -> Nat \cup {Absent}]
      /\ entries[d] = Absent => entries' = entries
      /\ entries[d] # Absent => entries'[d] = entries[d] + 1
      /\ \A e \in Digests : e # d => entries'[e] = entries[e]
      /\ raced \subseteq raced' /\ raced' \subseteq raced \cup {d}
      /\ Doomed(d) => d \in raced'
  BY <1>1, <1>2, AcquireEffect
<1>4. ImageTypeOK'
  BY <1>1, <1>2, <1>3 DEF ImageTypeOK
<1>5. LockInv'
  BY <1>1, <1>3 DEF ImageInv, LockInv
<1>6. CountInv'
  <2>1. CASE entries[d] = Absent
    BY <1>1, <1>3, <2>1, CountKept DEF ImageInv
  <2>2. CASE entries[d] # Absent
    <3>1. entries[d] \in Nat
      BY <1>2, <2>2 DEF ImageTypeOK
    <3> SUFFICES ASSUME NEW e \in Digests \ raced'
                 PROVE  Counted(e)'
      BY DEF CountInv
    <3>2. Counted(e)
      BY <1>3 DEF ImageInv, CountInv
    <3>3. CASE e # d
      BY <1>1, <1>3, <3>2, <3>3, CountElsewhere
    <3>4. CASE e = d
      BY <1>1, <1>3, <2>2, <3>1, <3>2, <3>4, CountUp
    <3> QED BY <3>3, <3>4
  <2> QED BY <2>1, <2>2
<1>7. FileInv'
  BY <1>1, <1>3 DEF ImageInv, FileInv, Doomed
<1>8. ListInv'
  BY <1>1, <1>2, <1>3 DEF ImageInv, ListInv, ImageTypeOK, Absent
<1>9. TempInv'
  BY <1>1, <1>3, TempKept DEF ImageInv
<1>10. DisksHoldTheirImage'
  BY <1>1 DEF ImageInv, DisksHoldTheirImage
<1> QED BY <1>4, <1>5, <1>6, <1>7, <1>8, <1>9, <1>10 DEF ImageInv

LEMMA RootdiskExistsKeeps ==
    ASSUME ImageInv, NEW c \in Pullers, RootdiskExists(c)
    PROVE  ImageInv'
<1> DEFINE d == pulls[c].digest
<1>1. /\ pulls[c].pc \in {"exists", "recheck"} /\ d \in disk /\ Register(d) /\ Goes(c, "acquire")
      /\ "acquire" \in PullPcs
      /\ UNCHANGED <<disk, content, temp, locks, evictor, book, gone, mixed>>
  BY DEF RootdiskExists, PullPcs
<1>2. ImageTypeOK
  BY DEF ImageInv
<1>a. d \in Digests
  BY <1>1, <1>2 DEF ImageTypeOK
<1> HIDE DEF d
<1>b. d = pulls[c].digest
  BY DEF d
<1>3. /\ pulls' \in [Pullers -> Pull]
      /\ pulls'[c].pc = "acquire" /\ pulls'[c].digest = pulls[c].digest
      /\ pulls'[c].pinned = pulls[c].pinned
      /\ \A b \in Pullers : b # c => pulls'[b] = pulls[b]
      /\ entries' \in [Digests -> Nat \cup {Absent}]
      /\ entries[d] = Absent => entries'[d] = 0
      /\ entries[d] # Absent => entries'[d] = entries[d]
      /\ entries'[d] # Absent
      /\ \A e \in Digests : e # d => entries'[e] = entries[e]
      /\ raced \subseteq raced' /\ raced' \subseteq raced \cup {d}
      /\ Doomed(d) => d \in raced'
  BY <1>1, <1>2, <1>a, GoesEffect, RegisterEffect
<1>4. ImageTypeOK'
  BY <1>1, <1>2, <1>3, <1>a, <1>b DEF ImageTypeOK
<1>5. LockInv'
  BY <1>1, <1>3 DEF ImageInv, LockInv
<1>6. CountInv'
  <2> SUFFICES ASSUME NEW e \in Digests \ raced'
               PROVE  Counted(e)'
    BY DEF CountInv
  <2>1. Counted(e)
    BY <1>3 DEF ImageInv, CountInv
  <2>2. CASE e # d
    BY <1>1, <1>3, <1>b, <2>1, <2>2, CountElsewhere
  <2>3. CASE e = d
    <3>1. Holders(e)' = Holders(e)
      BY <1>1, <1>3, HoldersKept
    <3>2. CASE entries[e] = Absent
      <4>1. Holders(e) = {} /\ IsFiniteSet({}) /\ Cardinality({}) = 0
        BY <2>1, <3>2, FS_EmptySet DEF Counted
      <4> QED BY <1>1, <1>3, <2>1, <2>3, <3>1, <3>2, <4>1 DEF Counted
    <3>3. CASE entries[e] # Absent
      BY <1>1, <1>3, <2>1, <2>3, <3>1, <3>3 DEF Counted
    <3> QED BY <3>2, <3>3
  <2> QED BY <2>2, <2>3
<1>7. FileInv'
  BY <1>1, <1>3, <1>b DEF ImageInv, FileInv, Doomed
<1>8. ListInv'
  BY <1>1, <1>2, <1>3 DEF ImageInv, ListInv, ImageTypeOK, Absent
<1>9. TempInv'
  BY <1>1, <1>3, TempKept DEF ImageInv
<1>10. DisksHoldTheirImage'
  BY <1>1 DEF ImageInv, DisksHoldTheirImage
<1> QED BY <1>4, <1>5, <1>6, <1>7, <1>8, <1>9, <1>10 DEF ImageInv

LEMMA RegisterBuiltKeeps ==
    ASSUME ImageInv, NEW c \in Pullers, RegisterBuilt(c)
    PROVE  ImageInv'
<1> DEFINE d == pulls[c].digest
<1>1. /\ pulls[c].pc = "register" /\ Register(d) /\ Goes(c, "acquire")
      /\ "acquire" \in PullPcs
      /\ UNCHANGED <<disk, content, temp, locks, evictor, book, gone, mixed>>
  BY DEF RegisterBuilt, PullPcs
<1>2. ImageTypeOK
  BY DEF ImageInv
<1>a. d \in Digests
  BY <1>1, <1>2 DEF ImageTypeOK
<1> HIDE DEF d
<1>b. d = pulls[c].digest
  BY DEF d
<1>3. /\ pulls' \in [Pullers -> Pull]
      /\ pulls'[c].pc = "acquire" /\ pulls'[c].digest = pulls[c].digest
      /\ pulls'[c].pinned = pulls[c].pinned
      /\ \A b \in Pullers : b # c => pulls'[b] = pulls[b]
      /\ entries' \in [Digests -> Nat \cup {Absent}]
      /\ entries[d] = Absent => entries'[d] = 0
      /\ entries[d] # Absent => entries'[d] = entries[d]
      /\ entries'[d] # Absent
      /\ \A e \in Digests : e # d => entries'[e] = entries[e]
      /\ raced \subseteq raced' /\ raced' \subseteq raced \cup {d}
      /\ Doomed(d) => d \in raced'
  BY <1>1, <1>2, <1>a, GoesEffect, RegisterEffect
<1>4. ImageTypeOK'
  BY <1>1, <1>2, <1>3, <1>a, <1>b DEF ImageTypeOK
<1>5. LockInv'
  BY <1>1, <1>3 DEF ImageInv, LockInv
<1>6. CountInv'
  <2> SUFFICES ASSUME NEW e \in Digests \ raced'
               PROVE  Counted(e)'
    BY DEF CountInv
  <2>1. Counted(e)
    BY <1>3 DEF ImageInv, CountInv
  <2>2. CASE e # d
    BY <1>1, <1>3, <1>b, <2>1, <2>2, CountElsewhere
  <2>3. CASE e = d
    <3>1. Holders(e)' = Holders(e)
      BY <1>1, <1>3, HoldersKept
    <3>2. CASE entries[e] = Absent
      <4>1. Holders(e) = {} /\ IsFiniteSet({}) /\ Cardinality({}) = 0
        BY <2>1, <3>2, FS_EmptySet DEF Counted
      <4> QED BY <1>1, <1>3, <2>1, <2>3, <3>1, <3>2, <4>1 DEF Counted
    <3>3. CASE entries[e] # Absent
      BY <1>1, <1>3, <2>1, <2>3, <3>1, <3>3 DEF Counted
    <3> QED BY <3>2, <3>3
  <2> QED BY <2>2, <2>3
<1>7. FileInv'
  BY <1>1, <1>3, <1>b DEF ImageInv, FileInv, Doomed
<1>8. ListInv'
  BY <1>1, <1>2, <1>3 DEF ImageInv, ListInv, ImageTypeOK, Absent
<1>9. TempInv'
  BY <1>1, <1>3, TempKept DEF ImageInv
<1>10. DisksHoldTheirImage'
  BY <1>1 DEF ImageInv, DisksHoldTheirImage
<1> QED BY <1>4, <1>5, <1>6, <1>7, <1>8, <1>9, <1>10 DEF ImageInv

LEMMA AcquireRegisteredKeeps ==
    ASSUME ImageInv, NEW c \in Pullers, AcquireRegistered(c)
    PROVE  ImageInv'
<1> DEFINE d == pulls[c].digest
<1>1. /\ pulls[c].pc = "acquire" /\ Acquire(c, d, "held") /\ "held" \in PullPcs
      /\ locks' = [e \in Digests |-> IF locks[e] = c THEN Nobody ELSE locks[e]]
      /\ UNCHANGED <<disk, content, temp, evictor, book, gone, mixed>>
  BY DEF AcquireRegistered, PullPcs
<1>2. ImageTypeOK
  BY DEF ImageInv
<1>a. d \in Digests
  BY <1>1, <1>2 DEF ImageTypeOK
<1> HIDE DEF d
<1>b. d = pulls[c].digest
  BY DEF d
<1>3. /\ pulls' \in [Pullers -> Pull]
      /\ pulls'[c].digest = d
      /\ entries[d] = Absent => pulls'[c].pc = "held" /\ pulls'[c].pinned = FALSE
      /\ entries[d] # Absent => pulls'[c].pc = "held" /\ pulls'[c].pinned = TRUE
      /\ \A b \in Pullers : b # c => pulls'[b] = pulls[b]
      /\ entries' \in [Digests -> Nat \cup {Absent}]
      /\ entries[d] = Absent => entries' = entries
      /\ entries[d] # Absent => entries'[d] = entries[d] + 1
      /\ \A e \in Digests : e # d => entries'[e] = entries[e]
      /\ raced \subseteq raced' /\ raced' \subseteq raced \cup {d}
      /\ Doomed(d) => d \in raced'
      /\ entries[d] = Absent => d \in raced'
  BY <1>1, <1>2, <1>a, AcquireEffect
<1>c. /\ locks' \in [Digests -> Pullers \cup {Nobody}]
      /\ \A e \in Digests : locks[e] # c => locks'[e] = locks[e]
  BY <1>1, <1>2 DEF ImageTypeOK
<1>4. ImageTypeOK'
  BY <1>1, <1>2, <1>3, <1>a, <1>c DEF ImageTypeOK
<1>5. LockInv'
  <2> SUFFICES ASSUME NEW b \in Pullers, pulls'[b].pc \in {"recheck", "create", "copy", "rename"}
               PROVE  /\ locks'[pulls'[b].digest] = b
                      /\ pulls'[b].pc # "recheck" => pulls'[b].digest \notin disk'
    BY DEF LockInv
  <2>1. b # c /\ pulls'[b] = pulls[b]
    BY <1>3
  <2>2. locks[pulls[b].digest] = b /\ pulls[b].digest \in Digests
    BY <1>2, <2>1 DEF ImageInv, LockInv, ImageTypeOK
  <2> QED BY <1>1, <1>c, <2>1, <2>2 DEF ImageInv, LockInv
<1>6. CountInv'
  <2> SUFFICES ASSUME NEW e \in Digests \ raced'
               PROVE  Counted(e)'
    BY DEF CountInv
  <2>1. Counted(e)
    BY <1>3 DEF ImageInv, CountInv
  <2>2. CASE e # d
    BY <1>1, <1>3, <2>1, <2>2, CountElsewhere
  <2>3. CASE e = d
    <3>1. entries[d] # Absent /\ entries[d] \in Nat
      BY <1>2, <1>3, <2>3 DEF ImageTypeOK
    <3> QED BY <1>1, <1>3, <2>1, <2>3, <3>1, CountUp
  <2> QED BY <2>2, <2>3
<1>7. FileInv'
  BY <1>1, <1>3 DEF ImageInv, FileInv, Doomed
<1>8. ListInv'
  BY <1>1, <1>2, <1>3 DEF ImageInv, ListInv, ImageTypeOK, Absent
<1>9. TempInv'
  BY <1>1, <1>3, TempKept DEF ImageInv
<1>10. DisksHoldTheirImage'
  BY <1>1 DEF ImageInv, DisksHoldTheirImage
<1> QED BY <1>4, <1>5, <1>6, <1>7, <1>8, <1>9, <1>10 DEF ImageInv

LEMMA GetBuildLockKeeps ==
    ASSUME ImageInv, NEW c \in Pullers, GetBuildLock(c)
    PROVE  ImageInv'
<1>1. /\ pulls[c].pc = "exists" /\ Goes(c, "lock") /\ "lock" \in PullPcs
      /\ UNCHANGED <<entries, disk, content, temp, locks, evictor, book, raced, gone, mixed>>
  BY DEF GetBuildLock, PullPcs
<1>2. ImageTypeOK
  BY DEF ImageInv
<1>3. /\ pulls' \in [Pullers -> Pull]
      /\ pulls'[c].pc = "lock" /\ pulls'[c].digest = pulls[c].digest
      /\ pulls'[c].pinned = pulls[c].pinned
      /\ \A b \in Pullers : b # c => pulls'[b] = pulls[b]
  BY <1>1, <1>2, GoesEffect
<1>4. ImageTypeOK'
  BY <1>1, <1>2, <1>3 DEF ImageTypeOK
<1>5. LockInv'
  BY <1>1, <1>3 DEF ImageInv, LockInv
<1>6. CountInv'
  BY <1>1, <1>3, CountKept DEF ImageInv
<1>7. FileInv'
  BY <1>1, <1>3, FileKept DEF ImageInv
<1>8. ListInv'
  BY <1>1 DEF ImageInv, ListInv
<1>9. TempInv'
  BY <1>1, <1>3, TempKept DEF ImageInv
<1>10. DisksHoldTheirImage'
  BY <1>1 DEF ImageInv, DisksHoldTheirImage
<1> QED BY <1>4, <1>5, <1>6, <1>7, <1>8, <1>9, <1>10 DEF ImageInv

LEMMA TakeBuildLockKeeps ==
    ASSUME ImageInv, NEW c \in Pullers, TakeBuildLock(c)
    PROVE  ImageInv'
<1>1. /\ pulls[c].pc = "lock" /\ Goes(c, "recheck") /\ "recheck" \in PullPcs
      /\ locks[pulls[c].digest] = Nobody
      /\ locks' = [locks EXCEPT ![pulls[c].digest] = c]
      /\ UNCHANGED <<entries, disk, content, temp, evictor, book, raced, gone, mixed>>
  BY DEF TakeBuildLock, PullPcs
<1>2. ImageTypeOK
  BY DEF ImageInv
<1>3. /\ pulls' \in [Pullers -> Pull]
      /\ pulls'[c].pc = "recheck" /\ pulls'[c].digest = pulls[c].digest
      /\ pulls'[c].pinned = pulls[c].pinned
      /\ \A b \in Pullers : b # c => pulls'[b] = pulls[b]
  BY <1>1, <1>2, GoesEffect
<1>a. pulls[c].digest \in Digests
  BY <1>1, <1>2 DEF ImageTypeOK
<1>b. /\ locks' \in [Digests -> Pullers \cup {Nobody}]
      /\ locks'[pulls[c].digest] = c
      /\ \A e \in Digests : locks[e] # Nobody => locks'[e] = locks[e]
  BY <1>1, <1>2, <1>a DEF ImageTypeOK
<1>4. ImageTypeOK'
  BY <1>1, <1>2, <1>3, <1>a, <1>b DEF ImageTypeOK
<1>5. LockInv'
  <2> SUFFICES ASSUME NEW b \in Pullers, pulls'[b].pc \in {"recheck", "create", "copy", "rename"}
               PROVE  /\ locks'[pulls'[b].digest] = b
                      /\ pulls'[b].pc # "recheck" => pulls'[b].digest \notin disk'
    BY DEF LockInv
  <2>1. CASE b = c
    BY <1>3, <1>b, <2>1
  <2>2. CASE b # c
    <3>1. /\ pulls'[b] = pulls[b] /\ locks[pulls[b].digest] = b
          /\ pulls[b].digest \in Digests /\ b # Nobody
      BY <1>2, <1>3, <2>2, ImageAssumption DEF ImageInv, LockInv, ImageTypeOK
    <3> QED BY <1>1, <1>b, <3>1 DEF ImageInv, LockInv
  <2> QED BY <2>1, <2>2
<1>6. CountInv'
  BY <1>1, <1>3, CountKept DEF ImageInv
<1>7. FileInv'
  BY <1>1, <1>3, FileKept DEF ImageInv
<1>8. ListInv'
  BY <1>1 DEF ImageInv, ListInv
<1>9. TempInv'
  BY <1>1, <1>3, TempKept DEF ImageInv
<1>10. DisksHoldTheirImage'
  BY <1>1 DEF ImageInv, DisksHoldTheirImage
<1> QED BY <1>4, <1>5, <1>6, <1>7, <1>8, <1>9, <1>10 DEF ImageInv

\* An error wherever a call may have one.
LEMMA PullFailsKeeps ==
    ASSUME ImageInv, NEW c \in Pullers, PullFails(c), temp' = temp, pulls[c].pc # "held"
    PROVE  ImageInv'
<1>1. UNCHANGED <<entries, disk, content, temp, evictor, book, raced, gone, mixed>>
  BY DEF PullFails
<1>2. ImageTypeOK
  BY DEF ImageInv
<1>3. /\ pulls' \in [Pullers -> Pull]
      /\ pulls'[c].pc = "idle"
      /\ \A b \in Pullers : b # c => pulls'[b] = pulls[b]
      /\ locks' \in [Digests -> Pullers \cup {Nobody}]
      /\ \A e \in Digests : locks[e] # c => locks'[e] = locks[e]
  BY <1>2, PullFailsEffect
<1>4. ImageTypeOK'
  BY <1>1, <1>2, <1>3 DEF ImageTypeOK
<1>5. LockInv'
  <2> SUFFICES ASSUME NEW b \in Pullers, pulls'[b].pc \in {"recheck", "create", "copy", "rename"}
               PROVE  /\ locks'[pulls'[b].digest] = b
                      /\ pulls'[b].pc # "recheck" => pulls'[b].digest \notin disk'
    BY DEF LockInv
  <2>1. b # c /\ pulls'[b] = pulls[b]
    BY <1>3
  <2>2. locks[pulls[b].digest] = b /\ pulls[b].digest \in Digests
    BY <1>2, <2>1 DEF ImageInv, LockInv, ImageTypeOK
  <2> QED BY <1>1, <1>3, <2>1, <2>2 DEF ImageInv, LockInv
<1>6. CountInv'
  BY <1>1, <1>3, CountKept DEF ImageInv
<1>7. FileInv'
  BY <1>1, <1>3, FileKept DEF ImageInv
<1>8. ListInv'
  BY <1>1 DEF ImageInv, ListInv
<1>9. TempInv'
  BY <1>1, <1>3, TempKept DEF ImageInv
<1>10. DisksHoldTheirImage'
  BY <1>1 DEF ImageInv, DisksHoldTheirImage
<1> QED BY <1>4, <1>5, <1>6, <1>7, <1>8, <1>9, <1>10 DEF ImageInv

LEMMA PullLayersKeeps ==
    ASSUME ImageInv, NEW c \in Pullers, PullLayers(c)
    PROVE  ImageInv'
<1>1. SUFFICES ASSUME Goes(c, "create"),
                      UNCHANGED <<entries, disk, content, locks, evictor, book, raced, gone, mixed>>
               PROVE  ImageInv'
  BY PullFailsKeeps DEF PullLayers
<1>a. /\ pulls[c].pc = "recheck" /\ pulls[c].digest \notin disk
      /\ temp' = temp /\ "create" \in PullPcs
  BY DEF PullLayers, PullPcs
<1>2. ImageTypeOK
  BY DEF ImageInv
<1>3. /\ pulls' \in [Pullers -> Pull]
      /\ pulls'[c].pc = "create" /\ pulls'[c].digest = pulls[c].digest
      /\ pulls'[c].pinned = pulls[c].pinned
      /\ \A b \in Pullers : b # c => pulls'[b] = pulls[b]
  BY <1>1, <1>a, <1>2, GoesEffect
<1>4. ImageTypeOK'
  BY <1>1, <1>a, <1>2, <1>3 DEF ImageTypeOK
<1>5. LockInv'
  BY <1>1, <1>a, <1>3 DEF ImageInv, LockInv
<1>6. CountInv'
  BY <1>1, <1>a, <1>3, CountKept DEF ImageInv
<1>7. FileInv'
  BY <1>1, <1>a, <1>3, FileKept DEF ImageInv
<1>8. ListInv'
  BY <1>1, <1>a DEF ImageInv, ListInv
<1>9. TempInv'
  BY <1>1, <1>a, <1>3, TempKept DEF ImageInv
<1>10. DisksHoldTheirImage'
  BY <1>1, <1>a DEF ImageInv, DisksHoldTheirImage
<1> QED BY <1>4, <1>5, <1>6, <1>7, <1>8, <1>9, <1>10 DEF ImageInv

LEMMA CreateImageKeeps ==
    ASSUME ImageInv, NEW c \in Pullers, CreateImage(c)
    PROVE  ImageInv'
<1> DEFINE others == {pulls[b].digest : b \in {a \in Pullers \ {c} : Building(a)}}
<1>1. /\ pulls[c].pc = "create" /\ Goes(c, "copy") /\ "copy" \in PullPcs
      /\ temp' = [there |-> TRUE, has |-> {}]
      /\ mixed' = IF others = {} THEN mixed ELSE mixed \cup others \cup {pulls[c].digest}
      /\ UNCHANGED <<entries, disk, content, locks, evictor, book, raced, gone>>
  BY DEF CreateImage, PullPcs
<1>2. ImageTypeOK
  BY DEF ImageInv
<1>3. /\ pulls' \in [Pullers -> Pull]
      /\ pulls'[c].pc = "copy" /\ pulls'[c].digest = pulls[c].digest
      /\ pulls'[c].pinned = pulls[c].pinned
      /\ \A b \in Pullers : b # c => pulls'[b] = pulls[b]
  BY <1>1, <1>2, GoesEffect
<1>a. /\ mixed \subseteq mixed'
      /\ \A b \in Pullers : b # c /\ Building(b) =>
            pulls[b].digest \in mixed' /\ pulls[c].digest \in mixed'
  BY <1>1
<1>4. ImageTypeOK'
  BY <1>1, <1>2, <1>3 DEF ImageTypeOK
<1>5. LockInv'
  BY <1>1, <1>3 DEF ImageInv, LockInv
<1>6. CountInv'
  BY <1>1, <1>3, CountKept DEF ImageInv
<1>7. FileInv'
  BY <1>1, <1>3, FileKept DEF ImageInv
<1>8. ListInv'
  BY <1>1 DEF ImageInv, ListInv
<1>9. TempInv'
  <2>1. \A a, b \in Pullers : Building(a)' /\ Building(b)' /\ a # b => pulls'[b].digest \in mixed'
    BY <1>3, <1>a DEF ImageInv, TempInv, Building
  <2>2. temp'.has = {}
    BY <1>1
  <2>3. \A b \in Pullers : pulls'[b].pc = "rename" => pulls'[b].digest \in mixed'
    BY <1>3, <1>a DEF Building
  <2> QED BY <2>1, <2>2, <2>3 DEF TempInv
<1>10. DisksHoldTheirImage'
  BY <1>1, <1>a DEF ImageInv, DisksHoldTheirImage
<1> QED BY <1>4, <1>5, <1>6, <1>7, <1>8, <1>9, <1>10 DEF ImageInv

LEMMA CopyFilesKeeps ==
    ASSUME ImageInv, NEW c \in Pullers, CopyFiles(c)
    PROVE  ImageInv'
<1>1. SUFFICES ASSUME temp.there, Goes(c, "rename"),
                      temp' = [temp EXCEPT !.has = @ \cup {pulls[c].digest}],
                      UNCHANGED <<entries, disk, content, locks, evictor, book, raced, gone, mixed>>
               PROVE  ImageInv'
  BY PullFailsKeeps DEF CopyFiles
<1>a. pulls[c].pc = "copy" /\ "rename" \in PullPcs
  BY DEF CopyFiles, PullPcs
<1>2. ImageTypeOK
  BY DEF ImageInv
<1>3. /\ pulls' \in [Pullers -> Pull]
      /\ pulls'[c].pc = "rename" /\ pulls'[c].digest = pulls[c].digest
      /\ pulls'[c].pinned = pulls[c].pinned
      /\ \A b \in Pullers : b # c => pulls'[b] = pulls[b]
  BY <1>1, <1>a, <1>2, GoesEffect
<1>b. /\ temp' \in [there : BOOLEAN, has : SUBSET Digests]
      /\ temp'.has = temp.has \cup {pulls[c].digest} /\ temp'.there = temp.there
  BY <1>1, <1>2, <1>a DEF ImageTypeOK
<1>4. ImageTypeOK'
  BY <1>1, <1>2, <1>3, <1>a, <1>b DEF ImageTypeOK
<1>5. LockInv'
  BY <1>1, <1>3, <1>a DEF ImageInv, LockInv
<1>6. CountInv'
  BY <1>1, <1>a, <1>3, CountKept DEF ImageInv
<1>7. FileInv'
  BY <1>1, <1>a, <1>3, FileKept DEF ImageInv
<1>8. ListInv'
  BY <1>1, <1>a DEF ImageInv, ListInv
<1>9. TempInv'
  <2>1. Building(c)
    BY <1>a DEF Building
  <2>2. \A b \in Pullers : Building(b)' => Building(b)
    BY <1>3, <2>1 DEF Building
  <2>3. \A b \in Pullers : b # c /\ Building(b) => pulls[b].digest \in mixed
    BY <2>1 DEF ImageInv, TempInv
  <2>4. pulls[c].digest \notin mixed => temp'.has = {pulls[c].digest}
    BY <1>1, <1>a, <1>b DEF ImageInv, TempInv
  <2>5. \A a, b \in Pullers : Building(a)' /\ Building(b)' /\ a # b => pulls'[b].digest \in mixed'
    BY <1>1, <1>3, <2>2 DEF ImageInv, TempInv
  <2>6. \A b \in Pullers : b # c /\ pulls'[b].pc \in {"copy", "rename"} => pulls'[b].digest \in mixed'
    BY <1>1, <1>3, <2>3 DEF Building
  <2> QED BY <1>1, <1>3, <2>4, <2>5, <2>6 DEF TempInv
<1>10. DisksHoldTheirImage'
  BY <1>1 DEF ImageInv, DisksHoldTheirImage
<1> QED BY <1>4, <1>5, <1>6, <1>7, <1>8, <1>9, <1>10 DEF ImageInv

LEMMA RenameImageKeeps ==
    ASSUME ImageInv, NEW c \in Pullers, RenameImage(c)
    PROVE  ImageInv'
<1>1. /\ pulls[c].pc = "rename" /\ temp.there /\ Goes(c, "register") /\ "register" \in PullPcs
      /\ disk' = disk \cup {pulls[c].digest}
      /\ content' = [content EXCEPT ![pulls[c].digest] = temp.has]
      /\ temp' = NoTemp
      /\ UNCHANGED <<entries, locks, evictor, book, raced, gone, mixed>>
  BY DEF RenameImage, PullPcs
<1>2. ImageTypeOK
  BY DEF ImageInv
<1>3. /\ pulls' \in [Pullers -> Pull]
      /\ pulls'[c].pc = "register" /\ pulls'[c].digest = pulls[c].digest
      /\ pulls'[c].pinned = pulls[c].pinned
      /\ \A b \in Pullers : b # c => pulls'[b] = pulls[b]
  BY <1>1, <1>2, GoesEffect
<1>a. pulls[c].digest \in Digests
  BY <1>1, <1>2 DEF ImageTypeOK
<1>b. /\ content' \in [Digests -> SUBSET Digests]
      /\ content'[pulls[c].digest] = temp.has
      /\ \A e \in Digests : e # pulls[c].digest => content'[e] = content[e]
  BY <1>1, <1>2, <1>a DEF ImageTypeOK
<1>c. temp' \in [there : BOOLEAN, has : SUBSET Digests] /\ temp'.there = FALSE
  BY <1>1 DEF NoTemp
<1>4. ImageTypeOK'
  BY <1>1, <1>2, <1>3, <1>a, <1>b, <1>c DEF ImageTypeOK
<1>5. LockInv'
  <2>1. locks[pulls[c].digest] = c
    BY <1>1 DEF ImageInv, LockInv
  <2>2. \A b \in Pullers : b # c /\ pulls[b].pc \in {"create", "copy", "rename"} =>
            pulls[b].digest # pulls[c].digest
    BY <2>1 DEF ImageInv, LockInv
  <2> QED BY <1>1, <1>3, <2>2 DEF ImageInv, LockInv
<1>6. CountInv'
  BY <1>1, <1>3, CountKept DEF ImageInv
<1>7. FileInv'
  <2> SUFFICES ASSUME NEW e \in Digests \ (raced' \cup gone')
               PROVE  /\ entries'[e] # Absent => e \in disk'
                      /\ Doomed(e)' => e \in disk' /\ entries'[e] = Absent
                      /\ \A b \in Pullers : pulls'[b].pc = "register" /\ pulls'[b].digest = e =>
                            e \in disk' /\ ~Doomed(e)'
    BY DEF FileInv
  <2>1. /\ entries[e] # Absent => e \in disk
        /\ Doomed(e) => e \in disk /\ entries[e] = Absent
        /\ \A b \in Pullers : pulls[b].pc = "register" /\ pulls[b].digest = e =>
              e \in disk /\ ~Doomed(e)
    BY <1>1 DEF ImageInv, FileInv
  <2>2. Doomed(e)' <=> Doomed(e)
    BY <1>1 DEF Doomed
  <2>3. pulls[c].digest \notin disk
    BY <1>1 DEF ImageInv, LockInv
  <2> QED BY <1>1, <1>3, <2>1, <2>2, <2>3
<1>8. ListInv'
  BY <1>1 DEF ImageInv, ListInv
<1>9. TempInv'
  <2>1. \A b \in Pullers : Building(b)' => b # c /\ Building(b) /\ pulls'[b] = pulls[b]
    BY <1>3 DEF Building
  <2> QED BY <1>1, <1>c, <2>1 DEF ImageInv, TempInv
<1>10. DisksHoldTheirImage'
  <2>1. pulls[c].digest \notin mixed => temp.has = {pulls[c].digest}
    BY <1>1 DEF ImageInv, TempInv
  <2> QED BY <1>1, <1>2, <1>b, <2>1 DEF ImageInv, DisksHoldTheirImage, ImageTypeOK
<1> QED BY <1>4, <1>5, <1>6, <1>7, <1>8, <1>9, <1>10 DEF ImageInv

LEMMA ReleaseImageKeeps ==
    ASSUME ImageInv, NEW c \in Pullers, ReleaseImage(c)
    PROVE  ImageInv'
<1> DEFINE d == pulls[c].digest
<1>1. /\ pulls[c].pc = "held"
      /\ entries' = IF entries[d] > 0 THEN [entries EXCEPT ![d] = @ - 1] ELSE entries
      /\ pulls' = [pulls EXCEPT ![c] = IdlePull]
      /\ UNCHANGED <<disk, content, temp, locks, evictor, book, raced, gone, mixed>>
  BY DEF ReleaseImage
<1>2. ImageTypeOK
  BY DEF ImageInv
<1>a. d \in Digests
  BY <1>1, <1>2 DEF ImageTypeOK
<1>3. /\ pulls' \in [Pullers -> Pull]
      /\ pulls'[c].pc = "idle"
      /\ \A b \in Pullers : b # c => pulls'[b] = pulls[b]
  BY <1>1, <1>2 DEF ImageTypeOK, IdlePull, Pull, PullPcs
<1> HIDE DEF d
<1>b. entries \in [Digests -> Nat \cup {Absent}] /\ Absent = -1
  BY <1>2 DEF ImageTypeOK, Absent
<1>c. /\ entries' \in [Digests -> Nat \cup {Absent}]
      /\ \A e \in Digests : entries'[e] = Absent <=> entries[e] = Absent
      /\ \A e \in Digests : e # d => entries'[e] = entries[e]
      /\ entries[d] > 0 => entries'[d] = entries[d] - 1
  BY <1>1, <1>a, <1>b
<1>4. ImageTypeOK'
  BY <1>1, <1>2, <1>3, <1>c DEF ImageTypeOK
<1>5. LockInv'
  BY <1>1, <1>3 DEF ImageInv, LockInv
<1>6. CountInv'
  <2> SUFFICES ASSUME NEW e \in Digests \ raced'
               PROVE  Counted(e)'
    BY DEF CountInv
  <2>1. Counted(e)
    BY <1>1 DEF ImageInv, CountInv
  <2>2. CASE e # d
    <3>1. pulls[c].digest # e
      BY <2>2 DEF d
    <3> QED BY <1>1, <1>3, <1>c, <2>1, <2>2, <3>1, CountElsewhere
  <2>3. CASE e = d
    <3>1. Holders(e)' = Holders(e) \ {c} /\ c \in Holders(e)
      BY <1>1, <1>3, <2>1, <2>3 DEF Holders, Counted, d
    <3>2. IsFiniteSet(Holders(e)) /\ entries[e] = Cardinality(Holders(e)) /\ entries[e] # Absent
      BY <2>1, <3>1 DEF Counted
    <3>3. /\ IsFiniteSet(Holders(e) \ {c})
          /\ Cardinality(Holders(e) \ {c}) = Cardinality(Holders(e)) - 1
      BY <3>1, <3>2, FS_RemoveElement
    <3>4. Cardinality(Holders(e)) \in Nat /\ Cardinality(Holders(e)) # 0
      BY <3>1, <3>2, FS_CardinalityType, FS_EmptySet
    <3>5. entries'[e] = Cardinality(Holders(e)')
      BY <1>c, <2>3, <3>1, <3>2, <3>3, <3>4
    <3> QED BY <1>1, <1>3, <1>c, <2>1, <2>3, <3>1, <3>2, <3>3, <3>5 DEF Counted
  <2> QED BY <2>2, <2>3
<1>7. FileInv'
  BY <1>1, <1>3, <1>c DEF ImageInv, FileInv, Doomed
<1>8. ListInv'
  BY <1>1, <1>2, <1>c DEF ImageInv, ListInv, ImageTypeOK
<1>9. TempInv'
  BY <1>1, <1>3, TempKept DEF ImageInv
<1>10. DisksHoldTheirImage'
  BY <1>1 DEF ImageInv, DisksHoldTheirImage
<1> QED BY <1>4, <1>5, <1>6, <1>7, <1>8, <1>9, <1>10 DEF ImageInv

----------------------------------------------------------------------------
(* One lemma per step of the eviction, of the image actor and of a restart. *)

LEMMA MaybeEvictKeeps ==
    ASSUME ImageInv, MaybeEvict
    PROVE  ImageInv'
<1>1. /\ evictor.pc = "idle"
      /\ evictor' = [pc |-> "remove", left |-> {d \in Digests : entries[d] = 0}, digest |-> Nobody]
      /\ UNCHANGED <<entries, disk, content, temp, locks, pulls, book, raced, gone, mixed>>
  BY DEF MaybeEvict
<1>2. ImageTypeOK
  BY DEF ImageInv
<1>4. ImageTypeOK'
  BY <1>1, <1>2 DEF ImageTypeOK
<1>5. LockInv'
  BY <1>1 DEF ImageInv, LockInv
<1>6. CountInv'
  BY <1>1, CountKept DEF ImageInv
<1>7. FileInv'
  BY <1>1 DEF ImageInv, FileInv, Doomed
<1>8. ListInv'
  BY <1>1 DEF ListInv, Absent
<1>9. TempInv'
  BY <1>1, TempKept DEF ImageInv
<1>10. DisksHoldTheirImage'
  BY <1>1 DEF ImageInv, DisksHoldTheirImage
<1> QED BY <1>4, <1>5, <1>6, <1>7, <1>8, <1>9, <1>10 DEF ImageInv

LEMMA RemoveEntryKeeps ==
    ASSUME ImageInv, RemoveEntry
    PROVE  ImageInv'
<1>1. PICK d \in evictor.left :
         IF entries[d] > 0
         THEN /\ evictor' = [evictor EXCEPT !.left = @ \ {d}]
              /\ UNCHANGED <<entries, raced>>
         ELSE /\ entries' = [entries EXCEPT ![d] = Absent]
              /\ evictor' = [pc |-> "delete", left |-> evictor.left \ {d}, digest |-> d]
              /\ raced' = IF Unpinned(d) THEN raced \cup {d} ELSE raced
  BY DEF RemoveEntry
<1>3. /\ evictor.pc = "remove"
      /\ UNCHANGED <<disk, content, temp, locks, pulls, book, gone, mixed>>
  BY DEF RemoveEntry
<1>2. ImageTypeOK
  BY DEF ImageInv
<1>a. d \in Digests /\ entries \in [Digests -> Nat \cup {Absent}] /\ Absent = -1
  BY <1>2 DEF ImageTypeOK, Absent
<1>b. entries[d] # Absent
  BY DEF ImageInv, ListInv
<1>c. CASE entries[d] > 0
  <2>1. /\ UNCHANGED <<entries, raced>>
        /\ evictor' = [evictor EXCEPT !.left = @ \ {d}]
    BY <1>1, <1>c
  <2>2. /\ evictor' \in [pc : {"idle", "remove", "delete"}, left : SUBSET Digests,
                          digest : Digests \cup {Nobody}]
        /\ evictor'.pc = "remove" /\ evictor'.left \subseteq evictor.left
    BY <1>2, <1>3, <2>1 DEF ImageTypeOK
  <2>3. ImageTypeOK'
    BY <1>2, <1>3, <2>1, <2>2 DEF ImageTypeOK
  <2>4. LockInv' /\ DisksHoldTheirImage'
    BY <1>3 DEF ImageInv, LockInv, DisksHoldTheirImage
  <2>5. CountInv' /\ TempInv'
    BY <1>3, <2>1, CountKept, TempKept DEF ImageInv
  <2>6. FileInv'
    BY <1>3, <2>1, <2>2 DEF ImageInv, FileInv, Doomed
  <2>7. ListInv'
    BY <2>1, <2>2 DEF ImageInv, ListInv
  <2> QED BY <2>3, <2>4, <2>5, <2>6, <2>7 DEF ImageInv
<1>d. SUFFICES ASSUME ~(entries[d] > 0)
              PROVE  ImageInv'
  BY <1>c
<1>e. /\ entries' = [entries EXCEPT ![d] = Absent]
      /\ evictor' = [pc |-> "delete", left |-> evictor.left \ {d}, digest |-> d]
      /\ raced' = IF Unpinned(d) THEN raced \cup {d} ELSE raced
  BY <1>1, <1>d
<1>f. /\ entries' \in [Digests -> Nat \cup {Absent}]
      /\ entries[d] = 0 /\ entries'[d] = Absent
      /\ \A e \in Digests : e # d => entries'[e] = entries[e]
  BY <1>a, <1>b, <1>d, <1>e
<1>g. /\ evictor' \in [pc : {"idle", "remove", "delete"}, left : SUBSET Digests,
                        digest : Digests \cup {Nobody}]
      /\ evictor'.left = evictor.left \ {d} /\ evictor'.digest = d /\ evictor'.pc = "delete"
  BY <1>2, <1>a, <1>e DEF ImageTypeOK
<1>h. /\ raced \subseteq raced'
      /\ d \notin raced' => \A c \in Pullers : pulls[c].digest = d =>
                              pulls[c].pc \notin {"register", "acquire"}
  BY <1>e DEF Unpinned
<1>4. ImageTypeOK'
  BY <1>2, <1>3, <1>f, <1>g DEF ImageTypeOK
<1>5. LockInv'
  BY <1>3 DEF ImageInv, LockInv
<1>6. CountInv'
  <2> SUFFICES ASSUME NEW e \in Digests \ raced'
               PROVE  Counted(e)'
    BY DEF CountInv
  <2>1. Counted(e) /\ Holders(e)' = Holders(e)
    BY <1>3, <1>h DEF ImageInv, CountInv, Holders
  <2>2. CASE e # d
    BY <1>3, <1>f, <2>1, <2>2 DEF Counted
  <2>3. CASE e = d
    <3>1. Holders(e) = {}
      BY <1>b, <1>f, <2>1, <2>3, FS_EmptySet DEF Counted
    <3> QED BY <1>3, <1>f, <1>h, <2>1, <2>3, <3>1 DEF Counted
  <2> QED BY <2>2, <2>3
<1>7. FileInv'
  <2> SUFFICES ASSUME NEW e \in Digests \ (raced' \cup gone')
               PROVE  /\ entries'[e] # Absent => e \in disk'
                      /\ Doomed(e)' => e \in disk' /\ entries'[e] = Absent
                      /\ \A b \in Pullers : pulls'[b].pc = "register" /\ pulls'[b].digest = e =>
                            e \in disk' /\ ~Doomed(e)'
    BY DEF FileInv
  <2>1. /\ entries[e] # Absent => e \in disk
        /\ \A b \in Pullers : pulls[b].pc = "register" /\ pulls[b].digest = e => e \in disk
    BY <1>3, <1>h DEF ImageInv, FileInv
  <2>2. Doomed(e)' <=> e = d
    BY <1>g DEF Doomed
  <2> QED BY <1>3, <1>b, <1>f, <1>h, <2>1, <2>2
<1>8. ListInv'
  BY <1>2, <1>f, <1>g DEF ImageInv, ListInv, ImageTypeOK
<1>9. TempInv'
  BY <1>3, TempKept DEF ImageInv
<1>10. DisksHoldTheirImage'
  BY <1>3 DEF ImageInv, DisksHoldTheirImage
<1> QED BY <1>4, <1>5, <1>6, <1>7, <1>8, <1>9, <1>10 DEF ImageInv

LEMMA DeleteFileKeeps ==
    ASSUME ImageInv, DeleteFile
    PROVE  ImageInv'
<1>1. /\ evictor.pc = "delete"
      /\ disk' = disk \ {evictor.digest}
      /\ evictor' = [evictor EXCEPT !.pc = "remove", !.digest = Nobody]
      /\ UNCHANGED <<entries, content, temp, locks, pulls, book, raced, gone, mixed>>
  BY DEF DeleteFile
<1>2. ImageTypeOK
  BY DEF ImageInv
<1>3. /\ evictor' \in [pc : {"idle", "remove", "delete"}, left : SUBSET Digests,
                        digest : Digests \cup {Nobody}]
      /\ evictor'.pc = "remove" /\ evictor'.left = evictor.left
  BY <1>1, <1>2 DEF ImageTypeOK
<1>4. ImageTypeOK'
  BY <1>1, <1>2, <1>3 DEF ImageTypeOK
<1>5. LockInv'
  BY <1>1 DEF ImageInv, LockInv
<1>6. CountInv'
  BY <1>1, CountKept DEF ImageInv
<1>7. FileInv'
  BY <1>1, <1>3 DEF ImageInv, FileInv, Doomed
<1>8. ListInv'
  BY <1>1, <1>3 DEF ImageInv, ListInv
<1>9. TempInv'
  BY <1>1, TempKept DEF ImageInv
<1>10. DisksHoldTheirImage'
  BY <1>1 DEF ImageInv, DisksHoldTheirImage
<1> QED BY <1>4, <1>5, <1>6, <1>7, <1>8, <1>9, <1>10 DEF ImageInv

LEMMA EvictionEndsKeeps ==
    ASSUME ImageInv, EvictionEnds
    PROVE  ImageInv'
<1>1. /\ evictor' = IdleEvict
      /\ UNCHANGED <<entries, disk, content, temp, locks, pulls, book, raced, gone, mixed>>
  BY DEF EvictionEnds
<1>2. ImageTypeOK
  BY DEF ImageInv
<1>3. /\ evictor' \in [pc : {"idle", "remove", "delete"}, left : SUBSET Digests,
                        digest : Digests \cup {Nobody}]
      /\ evictor'.pc = "idle" /\ evictor'.left = {}
  BY <1>1 DEF IdleEvict
<1>4. ImageTypeOK'
  BY <1>1, <1>2, <1>3 DEF ImageTypeOK
<1>5. LockInv'
  BY <1>1 DEF ImageInv, LockInv
<1>6. CountInv'
  BY <1>1, CountKept DEF ImageInv
<1>7. FileInv'
  BY <1>1, <1>3 DEF ImageInv, FileInv, Doomed
<1>8. ListInv'
  BY <1>3 DEF ListInv
<1>9. TempInv'
  BY <1>1, TempKept DEF ImageInv
<1>10. DisksHoldTheirImage'
  BY <1>1 DEF ImageInv, DisksHoldTheirImage
<1> QED BY <1>4, <1>5, <1>6, <1>7, <1>8, <1>9, <1>10 DEF ImageInv

\* The image actor may delete any file: what it deletes is in gone.
LEMMA GcCheckKeeps ==
    ASSUME ImageInv, GcCheck
    PROVE  ImageInv'
<1>1. /\ disk' = disk \ {Head(book)}
      /\ gone' = gone \cup {Head(book)}
      /\ UNCHANGED <<entries, content, temp, locks, pulls, evictor, raced, mixed>>
  BY DEF GcCheck
<1>2. ImageTypeOK
  BY DEF ImageInv
<1>4. ImageTypeOK'
  BY <1>1, <1>2 DEF ImageTypeOK
<1>5. LockInv'
  BY <1>1 DEF ImageInv, LockInv
<1>6. CountInv'
  BY <1>1, CountKept DEF ImageInv
<1>7. FileInv'
  BY <1>1 DEF ImageInv, FileInv, Doomed
<1>8. ListInv'
  BY <1>1 DEF ImageInv, ListInv
<1>9. TempInv'
  BY <1>1, TempKept DEF ImageInv
<1>10. DisksHoldTheirImage'
  BY <1>1 DEF ImageInv, DisksHoldTheirImage
<1> QED BY <1>4, <1>5, <1>6, <1>7, <1>8, <1>9, <1>10 DEF ImageInv

LEMMA CacheInitKeeps ==
    ASSUME ImageInv, CacheInit
    PROVE  ImageInv'
<1>1. /\ entries' = [d \in Digests |-> IF d \in disk THEN 0 ELSE Absent]
      /\ temp' = NoTemp
      /\ locks' = [d \in Digests |-> Nobody]
      /\ pulls' = [c \in Pullers |-> IdlePull]
      /\ evictor' = IdleEvict
      /\ UNCHANGED <<disk, content, raced, gone, mixed>>
  BY DEF CacheInit
<1>2. ImageTypeOK
  BY DEF ImageInv
<1>3. /\ pulls' \in [Pullers -> Pull]
      /\ \A c \in Pullers : pulls'[c].pc = "idle"
  BY <1>1 DEF IdlePull, Pull, PullPcs
<1>a. /\ evictor' \in [pc : {"idle", "remove", "delete"}, left : SUBSET Digests,
                        digest : Digests \cup {Nobody}]
      /\ evictor'.pc = "idle" /\ evictor'.left = {}
      /\ temp' \in [there : BOOLEAN, has : SUBSET Digests]
  BY <1>1 DEF IdleEvict, NoTemp
<1>4. ImageTypeOK'
  BY <1>1, <1>2, <1>3, <1>a DEF ImageTypeOK
<1>5. LockInv'
  BY <1>3 DEF LockInv
<1>6. CountInv'
  <2>1. \A d \in Digests : Holders(d)' = {}
    BY <1>3 DEF Holders
  <2>2. IsFiniteSet({}) /\ Cardinality({}) = 0
    BY FS_EmptySet
  <2> QED BY <1>1, <1>3, <2>1, <2>2 DEF CountInv, Counted
<1>7. FileInv'
  BY <1>1, <1>3, <1>a DEF FileInv, Doomed
<1>8. ListInv'
  BY <1>a DEF ListInv
<1>9. TempInv'
  BY <1>3 DEF TempInv, Building
<1>10. DisksHoldTheirImage'
  BY <1>1 DEF ImageInv, DisksHoldTheirImage
<1> QED BY <1>4, <1>5, <1>6, <1>7, <1>8, <1>9, <1>10 DEF ImageInv

----------------------------------------------------------------------------

LEMMA ImageInitially == AgentInit => ImageInv
<1> SUFFICES ASSUME ImageInit PROVE ImageInv
  BY DEF AgentInit
<1>1. /\ pulls \in [Pullers -> Pull]
      /\ \A c \in Pullers : pulls[c].pc = "idle"
  BY DEF ImageInit, IdlePull, Pull, PullPcs
<1>2. /\ evictor \in [pc : {"idle", "remove", "delete"}, left : SUBSET Digests,
                       digest : Digests \cup {Nobody}]
      /\ evictor.pc = "idle" /\ evictor.left = {}
      /\ temp \in [there : BOOLEAN, has : SUBSET Digests]
  BY DEF ImageInit, IdleEvict, NoTemp
<1>3. ImageTypeOK
  BY <1>1, <1>2 DEF ImageInit, ImageTypeOK
<1>4. CountInv
  <2>1. \A d \in Digests : Holders(d) = {}
    BY <1>1 DEF Holders
  <2>2. IsFiniteSet({}) /\ Cardinality({}) = 0
    BY FS_EmptySet
  <2> QED BY <1>1, <2>1, <2>2 DEF ImageInit, CountInv, Counted
<1>5. FileInv
  BY <1>1, <1>2 DEF ImageInit, FileInv, Doomed
<1>6. LockInv /\ ListInv /\ TempInv /\ DisksHoldTheirImage
  BY <1>1, <1>2 DEF ImageInit, LockInv, ListInv, TempInv, Building, DisksHoldTheirImage
<1> QED BY <1>3, <1>4, <1>5, <1>6 DEF ImageInv

LEMMA ImageUnchanged ==
    ASSUME ImageInv, UNCHANGED ivars
    PROVE  ImageInv'
<1>1. UNCHANGED <<entries, disk, content, temp, locks, pulls, evictor, raced, gone, mixed>>
  BY DEF ivars
<1>2. CountInv' /\ TempInv' /\ FileInv'
  BY <1>1, CountKept, TempKept, FileKept DEF ImageInv
<1> QED BY <1>1, <1>2 DEF ImageInv, ImageTypeOK, LockInv, ListInv, DisksHoldTheirImage

LEMMA ImageStep ==
    ASSUME ImageInv, ImageNext
    PROVE  ImageInv'
<1>1. CASE \E c \in Pullers : (\E d \in Digests : EnsureImage(c, d)) \/ RootdiskExists(c)
              \/ AcquireRegistered(c) \/ RegisterBuilt(c) \/ ReleaseImage(c)
  BY <1>1, EnsureImageKeeps, RootdiskExistsKeeps, AcquireRegisteredKeeps, RegisterBuiltKeeps,
     ReleaseImageKeeps
<1>2. CASE \E c \in Pullers : GetBuildLock(c) \/ TakeBuildLock(c) \/ PullLayers(c)
              \/ CreateImage(c) \/ CopyFiles(c) \/ RenameImage(c)
  BY <1>2, GetBuildLockKeeps, TakeBuildLockKeeps, PullLayersKeeps, CreateImageKeeps,
     CopyFilesKeeps, RenameImageKeeps
<1>3. CASE \E c \in Pullers : RenameFails(c)
  BY <1>3, PullFailsKeeps DEF RenameFails
<1>4. CASE MaybeEvict \/ RemoveEntry \/ DeleteFile \/ EvictionEnds \/ GcCheck \/ CacheInit
  BY <1>4, MaybeEvictKeeps, RemoveEntryKeeps, DeleteFileKeeps, EvictionEndsKeeps, GcCheckKeeps,
     CacheInitKeeps
<1>5. CASE \E d \in Digests : EnsurePulled(d)
  <2>1. UNCHANGED <<entries, disk, content, temp, locks, pulls, evictor, raced, gone, mixed>>
    BY <1>5 DEF EnsurePulled
  <2>2. CountInv' /\ TempInv' /\ FileInv'
    BY <2>1, CountKept, TempKept, FileKept DEF ImageInv
  <2> QED BY <2>1, <2>2 DEF ImageInv, ImageTypeOK, LockInv, ListInv, DisksHoldTheirImage
<1> QED BY <1>1, <1>2, <1>3, <1>4, <1>5 DEF ImageNext

LEMMA ImageInvariant == AgentSpec => []ImageInv
<1>1. AgentInit => ImageInv
  BY ImageInitially
<1>2. ImageInv /\ [AgentNext]_nodevars => ImageInv'
  <2> SUFFICES ASSUME ImageInv, [AgentNext]_nodevars PROVE ImageInv'
    OBVIOUS
  <2>1. CASE ImageNext
    BY <2>1, ImageStep
  <2>2. CASE UNCHANGED ivars
    BY <2>2, ImageUnchanged
  <2>3. ImageNext \/ UNCHANGED ivars
    BY DEF AgentNext, PlanChanges, GuestNext, ManagerNext, ActorsNext, RestartAgent, RebootHost,
           Begins, nodevars
  <2> QED BY <2>1, <2>2, <2>3
<1> QED BY <1>1, <1>2, PTL DEF AgentSpec

\* However many instances start at once from however many images, with eviction, failed
\* pulls, restarts of the agent and the image actor's own deletions in between: a root disk
\* that an instance holds is on the disk and counted, and a root disk holds its image, but
\* for the races that RootDisksSound names (ensure_image, release_image, ImageCache::evict,
\* RootDiskBuilder::build).
THEOREM RootDisksAreSound == AgentSpec => []RootDisksSound
<1>1. ImageInv => RootDisksSound
  <2> SUFFICES ASSUME ImageInv, NEW d \in Digests \ (raced \cup gone), Holders(d) # {}
               PROVE  d \in disk /\ entries[d] = Cardinality(Holders(d))
    BY DEF RootDisksSound, HeldDisksThere, ImageInv
  <2>1. entries[d] # Absent /\ entries[d] = Cardinality(Holders(d))
    BY DEF ImageInv, CountInv, Counted
  <2> QED BY <2>1 DEF ImageInv, FileInv
<1> QED BY <1>1, ImageInvariant, PTL

----------------------------------------------------------------------------
(* The VMs of a host.  Counts of references are those of the table, and of *)
(* starts that gave up; what an agent reads about a boot was said by the   *)
(* process it has a handle of.                                             *)

Guests == {"none", "boot", "configured", "applied", "up"}
States == {"config_applied", "ready", "failed", "unhealthy", "exited"}
Config == [inst : Insts, rel : Releases, mounts : Seq(Nat), secrets : BOOLEAN]
Vm == [n : Nat, inst : Insts, boot : Nat, rel : Releases, guest : Guests,
       conf : SUBSET Config, key : Int]
Entry == [n : Nat, boot : Nat, rel : Releases \cup {None}]
Host == [vms : SUBSET Vm, table : [Insts -> Entry], taps : SUBSET Insts,
         refs : [Releases -> Nat], kept : [Releases -> Nat], spawned : Nat, boots : Nat, lost : SUBSET Nat, faults : Nat]

\* The instances of a release in the table.
Users(h, r) == {i \in Insts : h.table[i].rel = r}

\* Processes have numbers of their own; the table names live or exited ones that are not lost
\* and owns the TAP device; every live process is in the table or lost.
TableInv(h) ==
    /\ \A v \in h.vms : v.n \in 1 .. h.spawned /\ v.boot >= 1
    /\ \A v, w \in h.vms : v.n = w.n => v = w
    /\ h.lost \subseteq 1 .. h.spawned
    /\ \A i \in Insts : h.table[i] # NoEntry =>
          i \in h.taps /\ h.table[i].n \in 1 .. h.spawned /\ h.table[i].rel \in Releases
    /\ \A i \in Insts : h.table[i].n \notin h.lost
    /\ \A v \in h.vms : v.n \notin h.lost =>
          v.guest # "none" /\ h.table[v.inst].n = v.n /\ h.table[v.inst].rel = v.rel

\* References are held by the table's entries and, since the agent began, by starts that gave
\* up before the socket.
RefsInv(h) ==
    \A r \in Releases :
        IsFiniteSet(Users(h, r)) /\ h.refs[r] = Cardinality(Users(h, r)) + h.kept[r]

HostInv(h) == h \in Host /\ TableInv(h) /\ RefsInv(h)

Phases == {"preparing", "booting", "ready", "draining", "failed", "stopped"}
Message == {m \in [kind : {"apply", "stop", "tick"}, rev : Nat,
                   want : {"running", "draining", "stopped", "none"}, rel : Releases \cup {None}] :
               m.want = "running" => m.rel \in Releases}
Actor == [inst : Insts, alive : BOOLEAN, phase : Phases, rev : Nat, n : Nat, boot : Nat,
          spec : Releases \cup {None}, box : Seq(Message)]
Instance == [rel : Releases \cup {None}, status : {"none", "booting", "ready", "failed", "stopped"},
             reported : {"none", "booting", "ready", "failed", "stopped"}, boot : Nat, n : Nat]
Spoken == [inst : Insts, boot : Int, state : States]

AgentTypeOK ==
    /\ mode \in {"legacy", "actors", "images"}
    /\ insts \in [Insts -> Instance]
    /\ actors \in Seq(Actor)
    /\ handles \in [Insts -> 0 .. Len(actors)]
    /\ rev \in Nat
    /\ cfgs \in [Insts -> Releases \cup {None}]
    /\ wire \in [1 .. MaxVms -> Seq(Spoken)]
    /\ statuses \subseteq Spoken

\* Who looks after the VM of an instance.
Keeps(x, i) ==
    x.inst = i /\ (x.n = host.table[i].n \/ (x.phase \in {"failed", "stopped"} /\ x.n = None))

OwnerInv ==
    /\ mode = "legacy" => actors = <<>> /\ \A i \in Insts : insts[i].n = host.table[i].n
    /\ mode # "legacy" => insts = [i \in Insts |-> NotThere]
    /\ mode = "actors" => \A i \in Insts : host.table[i] # NoEntry =>
                              \E a \in 1 .. Len(actors) : Keeps(actors[a], i)
    /\ mode = "images" => actors = <<>> /\ \A i \in Insts : host.table[i] = NoEntry
    /\ \A i \in Insts : insts[i].status \in {"booting", "ready"} => insts[i].n # None
    /\ \A a \in 1 .. Len(actors) :
          actors[a].phase \in {"booting", "ready", "draining"} <=> actors[a].n # None

\* The VMs somebody has a handle of: instance, process and boot.
Handles ==
    {<<i, insts[i].n, insts[i].boot>> : i \in {k \in Insts : insts[k].n # None}}
    \cup {<<actors[a].inst, actors[a].n, actors[a].boot>> : a \in {b \in 1 .. Len(actors) : actors[b].n # None}}

\* What instance i's boot b says is said by process n, as far as the handles go.
Names(i, b, n) ==
    \/ <<i, b>> \in old
    \/ /\ b <= host.boots
       /\ \A x \in Handles : x[1] = i /\ x[3] = b => x[2] = n

SpeechInv ==
    /\ \A x \in Handles : x[3] \in 1 .. host.boots
    /\ \A v \in host.vms : v.key \in {None, v.boot, -v.n} /\ Names(v.inst, v.boot, v.n)
    /\ \A n \in 1 .. MaxVms : \A k \in 1 .. Len(wire[n]) :
          /\ wire[n][k].state = "ready" => n \in said
          /\ wire[n][k].boot >= 1 => Names(wire[n][k].inst, wire[n][k].boot, n)
    /\ \A t \in statuses : t.boot >= 1 /\ t.state = "ready" =>
          \/ <<t.inst, t.boot>> \in old
          \/ /\ t.boot <= host.boots
             /\ \A x \in Handles : x[1] = t.inst /\ x[3] = t.boot => x[2] \in said

ConfigInv ==
    /\ \A i \in Insts : cfgs[i] # None => mode = "legacy" /\ host.table[i].rel = cfgs[i]
    /\ \A v \in host.vms : v.n \notin host.lost =>
          \A c \in v.conf : c.inst = v.inst /\ c.rel = v.rel /\ c.mounts = Volumes[v.rel]

AgentInv == HostInv(host) /\ AgentTypeOK /\ OwnerInv /\ SpeechInv /\ ConfigInv /\ ReadyMeansSaidSo

----------------------------------------------------------------------------
(* The runtime's operators, field by field.                                *)

LEMMA SpendFields ==
    ASSUME NEW h \in Host
    PROVE  /\ Spend(h) \in Host
           /\ Spend(h).vms = h.vms /\ Spend(h).table = h.table /\ Spend(h).taps = h.taps
           /\ Spend(h).refs = h.refs /\ Spend(h).spawned = h.spawned /\ Spend(h).boots = h.boots
           /\ Spend(h).lost = h.lost /\ Spend(h).kept = h.kept
BY DEF Host, Spend

LEMMA SpendKeeps ==
    ASSUME NEW h, HostInv(h)
    PROVE  HostInv(Spend(h))
<1>1. h \in Host
  BY DEF HostInv
<1> QED BY <1>1, SpendFields DEF HostInv, TableInv, RefsInv, Users

LEMMA ImageFailsFields ==
    ASSUME NEW h \in Host, NEW g, g = ImageFails(h)
    PROVE  /\ g \in Host
           /\ g.vms = h.vms /\ g.table = h.table /\ g.taps = h.taps /\ g.refs = h.refs /\ g.kept = h.kept
           /\ g.spawned = h.spawned /\ g.boots = h.boots + 1 /\ g.lost = h.lost
<1>1. PICK b : b = h.boots + 1
  OBVIOUS
<1>2. PICK f : f = h.faults + 1
  OBVIOUS
<1>3. b \in Nat /\ f \in Nat
  BY <1>1, <1>2 DEF Host
<1>4. g = [h EXCEPT !.faults = f, !.boots = b]
  BY <1>1, <1>2 DEF ImageFails, NextBootId, Spend, Host
<1> QED BY <1>1, <1>3, <1>4 DEF Host

LEMMA ConfigureFailsFields ==
    ASSUME NEW h \in Host, NEW g, g = ConfigureFails(h)
    PROVE  /\ g \in Host
           /\ g.vms = h.vms /\ g.table = h.table /\ g.taps = h.taps /\ g.refs = h.refs /\ g.kept = h.kept
           /\ g.spawned = h.spawned + 1 /\ g.boots = h.boots + 1 /\ g.lost = h.lost
<1>1. PICK b : b = h.boots + 1
  OBVIOUS
<1>2. PICK s : s = h.spawned + 1
  OBVIOUS
<1>3. b \in Nat /\ s \in Nat
  BY <1>1, <1>2 DEF Host
<1>4. g = [h EXCEPT !.boots = b, !.spawned = s]
  BY <1>1, <1>2 DEF ConfigureFails, NextBootId, Host
<1> QED BY <1>1, <1>2, <1>3, <1>4 DEF Host

LEMMA SpawnedFields ==
    ASSUME NEW h \in Host, NEW i \in Insts, NEW r \in Releases, NEW guest \in Guests, NEW v, v = Spawned(h, i, r, guest)
    PROVE  /\ v \in Vm
           /\ v.n = h.spawned + 1 /\ v.inst = i /\ v.boot = h.boots + 1 /\ v.rel = r
           /\ v.guest = guest /\ v.conf = {} /\ v.key = None
<1>1. h.spawned \in Nat /\ h.boots \in Nat
  BY DEF Host
<1> QED BY <1>1 DEF Spawned, NextBootId, Vm, None

LEMMA SpawnFailsFields ==
    ASSUME NEW h \in Host, NEW r \in Releases, NEW g, g = SpawnFails(h, r)
    PROVE  /\ g \in Host
           /\ g.vms = h.vms /\ g.table = h.table /\ g.taps = h.taps
           /\ g.refs = [h.refs EXCEPT ![r] = h.refs[r] + 1]
           /\ g.kept = [h.kept EXCEPT ![r] = h.kept[r] + 1]
           /\ g.spawned = h.spawned /\ g.boots = h.boots + 1 /\ g.lost = h.lost
<1>1. PICK f : f = [h.refs EXCEPT ![r] = h.refs[r] + 1]
  OBVIOUS
<1>2. PICK k : k = [h.kept EXCEPT ![r] = h.kept[r] + 1]
  OBVIOUS
<1>3. PICK b : b = h.boots + 1
  OBVIOUS
<1>4. PICK u : u = h.faults + 1
  OBVIOUS
<1>5. f \in [Releases -> Nat] /\ k \in [Releases -> Nat] /\ b \in Nat /\ u \in Nat
  BY <1>1, <1>2, <1>3, <1>4 DEF Host
<1>6. g = [h EXCEPT !.faults = u, !.boots = b, !.refs = f, !.kept = k]
  BY <1>1, <1>2, <1>3, <1>4 DEF SpawnFails, NextBootId, Spend, Host
<1>7. /\ g \in Host /\ g.vms = h.vms /\ g.table = h.table /\ g.taps = h.taps /\ g.refs = f
      /\ g.kept = k /\ g.spawned = h.spawned /\ g.boots = b /\ g.lost = h.lost
  BY <1>5, <1>6 DEF Host
<1> QED BY <1>1, <1>2, <1>3, <1>7

LEMMA SocketMissingFields ==
    ASSUME NEW h \in Host, NEW i \in Insts, NEW r \in Releases, NEW g, g = SocketMissing(h, i, r)
    PROVE  /\ g \in Host
           /\ g.vms = h.vms \cup {Spawned(h, i, r, "none")}
           /\ g.table = h.table /\ g.taps = h.taps
           /\ g.refs = [h.refs EXCEPT ![r] = h.refs[r] + 1]
           /\ g.kept = [h.kept EXCEPT ![r] = h.kept[r] + 1]
           /\ g.spawned = h.spawned + 1 /\ g.boots = h.boots + 1
           /\ g.lost = h.lost \cup {h.spawned + 1}
<1>1. PICK v : v = Spawned(h, i, r, "none")
  OBVIOUS
<1>2. v \in Vm
  BY <1>1, SpawnedFields DEF Guests
<1>3. PICK f : f = SpawnFails(h, r)
  OBVIOUS
<1>4. /\ f \in Host
      /\ f.vms = h.vms /\ f.table = h.table /\ f.taps = h.taps
      /\ f.refs = [h.refs EXCEPT ![r] = h.refs[r] + 1]
      /\ f.kept = [h.kept EXCEPT ![r] = h.kept[r] + 1]
      /\ f.spawned = h.spawned /\ f.boots = h.boots + 1 /\ f.lost = h.lost
  BY <1>3, SpawnFailsFields
<1>5. PICK s : s = h.spawned + 1
  OBVIOUS
<1>6. PICK V : V = h.vms \cup {v}
  OBVIOUS
<1>7. PICK l : l = h.lost \cup {s}
  OBVIOUS
<1>8. s \in Nat /\ V \subseteq Vm /\ l \subseteq Nat
  BY <1>2, <1>5, <1>6, <1>7 DEF Host
<1>9. g = [f EXCEPT !.spawned = s, !.vms = V, !.lost = l]
  BY <1>1, <1>3, <1>4, <1>5, <1>6, <1>7 DEF SocketMissing, Host
<1>10. /\ g \in Host /\ g.vms = V /\ g.table = f.table /\ g.taps = f.taps /\ g.refs = f.refs
       /\ g.kept = f.kept /\ g.spawned = s /\ g.boots = f.boots /\ g.lost = l
  BY <1>4, <1>8, <1>9 DEF Host
<1> QED BY <1>1, <1>4, <1>5, <1>6, <1>7, <1>10

LEMMA BootedFields ==
    ASSUME NEW h \in Host, NEW i \in Insts, NEW r \in Releases, NEW g, g = Booted(h, i, r)
    PROVE  /\ g \in Host
           /\ g.vms = h.vms \cup {Spawned(h, i, r, "boot")}
           /\ g.table = [h.table EXCEPT ![i] = [n |-> h.spawned + 1, boot |-> h.boots + 1, rel |-> r]]
           /\ g.taps = h.taps \cup {i}
           /\ g.refs = [h.refs EXCEPT ![r] = h.refs[r] + 1] /\ g.kept = h.kept
           /\ g.spawned = h.spawned + 1 /\ g.boots = h.boots + 1
           /\ g.lost = h.lost \cup (IF h.table[i].n \in Live(h) THEN {h.table[i].n} ELSE {})
<1>1. Spawned(h, i, r, "boot") \in Vm
  BY SpawnedFields DEF Guests
<1>2. PICK v : v = Spawned(h, i, r, "boot")
  OBVIOUS
<1>3. PICK f : f = [h.refs EXCEPT ![r] = h.refs[r] + 1]
  OBVIOUS
<1>4. PICK e : e = [n |-> h.spawned + 1, boot |-> h.boots + 1, rel |-> r]
  OBVIOUS
<1>5. PICK t : t = [h.table EXCEPT ![i] = e]
  OBVIOUS
<1>6. PICK l : l = h.lost \cup (IF h.table[i].n \in Live(h) THEN {h.table[i].n} ELSE {})
  OBVIOUS
<1>7. f \in [Releases -> Nat] /\ e \in Entry
  BY <1>3, <1>4 DEF Host, Entry
<1>8. t \in [Insts -> Entry] /\ h.table[i] \in Entry
  BY <1>5, <1>7 DEF Host
<1>9. l \subseteq Nat
  BY <1>6, <1>8 DEF Host, Entry
<1>b. PICK b : b = h.boots + 1
  OBVIOUS
<1>s. PICK s : s = h.spawned + 1
  OBVIOUS
<1>a. b \in Nat /\ s \in Nat
  BY <1>b, <1>s DEF Host
<1>c. PICK V : V = h.vms \cup {v}
  OBVIOUS
<1>d. PICK x : x = h.taps \cup {i}
  OBVIOUS
<1>10. V \subseteq Vm /\ x \subseteq Insts
  BY <1>1, <1>2, <1>c, <1>d DEF Host
<1>11. g = [h EXCEPT !.boots = b, !.spawned = s, !.refs = f, !.vms = V, !.taps = x, !.table = t,
                     !.lost = l]
  BY <1>2, <1>3, <1>4, <1>5, <1>6, <1>b, <1>s, <1>c, <1>d DEF Booted, NextBootId, Host
<1>12. /\ g \in Host /\ g.vms = V /\ g.table = t /\ g.taps = x /\ g.refs = f /\ g.kept = h.kept
       /\ g.spawned = s /\ g.boots = b /\ g.lost = l
  BY <1>7, <1>8, <1>9, <1>10, <1>11, <1>a DEF Host
<1> QED BY <1>2, <1>3, <1>4, <1>5, <1>6, <1>12, <1>b, <1>s, <1>c, <1>d

LEMMA StopVmFields ==
    ASSUME NEW h \in Host, NEW i \in Insts, h.table[i] # NoEntry, h.table[i].rel \in Releases, NEW g, g = StopVm(h, i),
           NEW r, r = h.table[i].rel
    PROVE  /\ g \in Host
           /\ g.vms = {v \in h.vms : v.n # h.table[i].n}
           /\ g.table = [h.table EXCEPT ![i] = NoEntry]
           /\ g.taps = h.taps \ {i}
           /\ g.refs = [h.refs EXCEPT ![r] = IF h.refs[r] = 0 THEN 0 ELSE h.refs[r] - 1]
           /\ g.kept = h.kept /\ g.spawned = h.spawned /\ g.boots = h.boots /\ g.lost = h.lost
<1>1. r = h.table[i].rel
  OBVIOUS
<1>2. PICK f : f = [h.refs EXCEPT ![r] = IF h.refs[r] = 0 THEN 0 ELSE h.refs[r] - 1]
  OBVIOUS
<1>3. PICK t : t = [h.table EXCEPT ![i] = NoEntry]
  OBVIOUS
<1>4. r \in Releases /\ h.refs \in [Releases -> Nat]
  BY <1>1 DEF Host
<1>5. f \in [Releases -> Nat]
  BY <1>2, <1>4
<1>6. NoEntry \in Entry
  BY DEF NoEntry, Entry, None
<1>7. t \in [Insts -> Entry]
  BY <1>3, <1>6 DEF Host
<1>8. PICK w : w = {v \in h.vms : v.n # h.table[i].n}
  OBVIOUS
<1>9. w \subseteq Vm
  BY <1>8 DEF Host
<1>10. PICK x : x = h.taps \ {i}
  OBVIOUS
<1>11. x \subseteq Insts
  BY <1>10 DEF Host
<1>12. g = [h EXCEPT !.table = t, !.taps = x, !.vms = w, !.refs = f]
  BY <1>1, <1>2, <1>3, <1>8, <1>10 DEF StopVm, DeleteTap, Host
<1>13. /\ g \in Host /\ g.vms = w /\ g.table = t /\ g.taps = x /\ g.refs = f /\ g.kept = h.kept
       /\ g.spawned = h.spawned /\ g.boots = h.boots /\ g.lost = h.lost
  BY <1>5, <1>7, <1>9, <1>11, <1>12 DEF Host
<1> QED BY <1>1, <1>2, <1>3, <1>8, <1>10, <1>13

----------------------------------------------------------------------------
(* The runtime's operators keep the invariant of a host.                   *)

LEMMA NoEntryFields == NoEntry \in Entry /\ NoEntry.n = 0 /\ NoEntry.boot = 0 /\ NoEntry.rel = 0
BY DEF NoEntry, Entry, None

\* Nothing but counters and faults.
LEMMA CountersKeep ==
    ASSUME NEW h, HostInv(h), NEW g \in Host,
           g.vms = h.vms, g.table = h.table, g.taps = h.taps, g.refs = h.refs, g.kept = h.kept,
           g.spawned = h.spawned \/ g.spawned = h.spawned + 1, g.lost = h.lost
    PROVE  HostInv(g)
<1>1. h \in Host /\ h.spawned \in Nat
  BY DEF HostInv, Host
<1>2. RefsInv(g)
  BY DEF HostInv, RefsInv, Users
<1>3. \A k : k \in 1 .. h.spawned => k \in 1 .. g.spawned
  BY <1>1
<1>4. TableInv(g)
  BY <1>3 DEF HostInv, TableInv
<1> QED BY <1>2, <1>4 DEF HostInv

\* A start that gives up before the socket takes a reference and keeps it.
LEMMA TakenAndKept ==
    ASSUME NEW h \in Host, HostInv(h), NEW g, NEW r \in Releases, g.table = h.table,
           g.refs = [h.refs EXCEPT ![r] = h.refs[r] + 1],
           g.kept = [h.kept EXCEPT ![r] = h.kept[r] + 1]
    PROVE  RefsInv(g)
<1> SUFFICES ASSUME NEW q \in Releases
             PROVE  IsFiniteSet(Users(g, q)) /\ g.refs[q] = Cardinality(Users(g, q)) + g.kept[q]
  BY DEF RefsInv
<1>1. h.refs \in [Releases -> Nat] /\ h.kept \in [Releases -> Nat]
  BY DEF Host
<1>2. Users(g, q) = Users(h, q)
  BY DEF Users
<1>3. IsFiniteSet(Users(h, q)) /\ h.refs[q] = Cardinality(Users(h, q)) + h.kept[q]
  BY DEF HostInv, RefsInv
<1>4. Cardinality(Users(h, q)) \in Nat
  BY <1>3, FS_CardinalityType
<1>5. CASE q = r
  BY <1>1, <1>2, <1>3, <1>4, <1>5
<1>6. CASE q # r
  BY <1>1, <1>2, <1>3, <1>6
<1> QED BY <1>5, <1>6

LEMMA SpawnFailsKeeps ==
    ASSUME NEW h, HostInv(h), NEW r \in Releases, NEW g, g = SpawnFails(h, r)
    PROVE  HostInv(g)
<1>1. h \in Host
  BY DEF HostInv
<1>2. /\ g \in Host
      /\ g.vms = h.vms /\ g.table = h.table /\ g.taps = h.taps
      /\ g.refs = [h.refs EXCEPT ![r] = h.refs[r] + 1]
      /\ g.kept = [h.kept EXCEPT ![r] = h.kept[r] + 1]
      /\ g.spawned = h.spawned /\ g.boots = h.boots + 1 /\ g.lost = h.lost
  BY <1>1, SpawnFailsFields
<1>3. TableInv(g)
  BY <1>2 DEF HostInv, TableInv
<1>4. RefsInv(g)
  BY <1>1, <1>2, TakenAndKept
<1> QED BY <1>2, <1>3, <1>4 DEF HostInv

LEMMA SocketMissingKeeps ==
    ASSUME NEW h, HostInv(h), NEW i \in Insts, NEW r \in Releases
    PROVE  HostInv(SocketMissing(h, i, r))
<1>1. PICK g : g = SocketMissing(h, i, r)
  OBVIOUS
<1>2. PICK v : v = Spawned(h, i, r, "none")
  OBVIOUS
<1>3. h \in Host /\ h.spawned \in Nat /\ h.refs \in [Releases -> Nat] /\ h.kept \in [Releases -> Nat]
  BY DEF HostInv, Host
<1>4. /\ g \in Host
      /\ g.vms = h.vms \cup {v}
      /\ g.table = h.table /\ g.taps = h.taps
      /\ g.refs = [h.refs EXCEPT ![r] = h.refs[r] + 1]
      /\ g.kept = [h.kept EXCEPT ![r] = h.kept[r] + 1]
      /\ g.spawned = h.spawned + 1 /\ g.boots = h.boots + 1
      /\ g.lost = h.lost \cup {h.spawned + 1}
  BY <1>1, <1>2, <1>3, SocketMissingFields
<1>5. /\ v \in Vm
      /\ v.n = h.spawned + 1 /\ v.inst = i /\ v.boot = h.boots + 1 /\ v.rel = r
      /\ v.guest = "none"
  BY <1>2, <1>3, SpawnedFields DEF Guests
<1>6. /\ \A k : k \in 1 .. h.spawned => k \in 1 .. g.spawned
      /\ h.spawned + 1 \notin 1 .. h.spawned /\ h.spawned + 1 \in 1 .. g.spawned
      /\ v.boot >= 1 /\ h.spawned + 1 # 0
  BY <1>3, <1>4, <1>5 DEF Host
<1>7. TableInv(g)
  <2>1. /\ \A w \in g.vms : w.n \in 1 .. g.spawned /\ w.boot >= 1
        /\ \A w, x \in g.vms : w.n = x.n => w = x
        /\ g.lost \subseteq 1 .. g.spawned
    BY <1>4, <1>5, <1>6 DEF HostInv, TableInv
  <2>2. \A k \in Insts : g.table[k] # NoEntry =>
          k \in g.taps /\ g.table[k].n \in 1 .. g.spawned /\ g.table[k].rel \in Releases
    BY <1>4, <1>6 DEF HostInv, TableInv
  <2>3. \A k \in Insts : g.table[k].n \notin g.lost
    BY <1>4, <1>6, NoEntryFields DEF HostInv, TableInv
  <2>4. \A w \in g.vms : w.n \notin g.lost =>
          w.guest # "none" /\ g.table[w.inst].n = w.n /\ g.table[w.inst].rel = w.rel
    BY <1>4, <1>5 DEF HostInv, TableInv
  <2> QED BY <2>1, <2>2, <2>3, <2>4 DEF TableInv
<1>8. RefsInv(g)
  BY <1>3, <1>4, TakenAndKept
<1> QED BY <1>1, <1>4, <1>7, <1>8 DEF HostInv

\* The name of the TAP device is free, so the table has no entry to overwrite.
LEMMA BootedKeeps ==
    ASSUME NEW h, HostInv(h), NEW i \in Insts, NEW r \in Releases, CreateTap(h, i)
    PROVE  HostInv(Booted(h, i, r)) /\ h.table[i] = NoEntry /\ Booted(h, i, r).lost = h.lost
<1>1. PICK g : g = Booted(h, i, r)
  OBVIOUS
<1>2. PICK v : v = Spawned(h, i, r, "boot")
  OBVIOUS
<1>3. h \in Host /\ h.spawned \in Nat /\ h.refs \in [Releases -> Nat] /\ h.kept \in [Releases -> Nat]
      /\ h.table \in [Insts -> Entry]
  BY DEF HostInv, Host
<1>4. h.table[i] = NoEntry
  BY DEF CreateTap, HostInv, TableInv
<1>5. h.table[i].n \notin Live(h)
  BY <1>4, NoEntryFields DEF HostInv, TableInv, Live
<1>6. PICK e : e = [n |-> h.spawned + 1, boot |-> h.boots + 1, rel |-> r]
  OBVIOUS
<1>a. /\ g \in Host
      /\ g.vms = h.vms \cup {Spawned(h, i, r, "boot")}
      /\ g.table = [h.table EXCEPT ![i] = [n |-> h.spawned + 1, boot |-> h.boots + 1, rel |-> r]]
      /\ g.taps = h.taps \cup {i}
      /\ g.refs = [h.refs EXCEPT ![r] = h.refs[r] + 1] /\ g.kept = h.kept
      /\ g.spawned = h.spawned + 1 /\ g.boots = h.boots + 1
      /\ g.lost = h.lost \cup (IF h.table[i].n \in Live(h) THEN {h.table[i].n} ELSE {})
  BY <1>1, <1>3, BootedFields
<1>7. /\ g \in Host
      /\ g.vms = h.vms \cup {v}
      /\ g.table = [h.table EXCEPT ![i] = e]
      /\ g.taps = h.taps \cup {i}
      /\ g.refs = [h.refs EXCEPT ![r] = h.refs[r] + 1] /\ g.kept = h.kept
      /\ g.spawned = h.spawned + 1 /\ g.boots = h.boots + 1
      /\ g.lost = h.lost
  BY <1>2, <1>5, <1>6, <1>a
<1>8. /\ v \in Vm
      /\ v.n = h.spawned + 1 /\ v.inst = i /\ v.boot = h.boots + 1 /\ v.rel = r
      /\ v.guest = "boot"
      /\ e.n = h.spawned + 1 /\ e.rel = r
  BY <1>2, <1>3, <1>6, SpawnedFields DEF Guests
<1>9. g.table[i] = e /\ \A k \in Insts : k # i => g.table[k] = h.table[k]
  BY <1>3, <1>7
<1>10. /\ \A k : k \in 1 .. h.spawned => k \in 1 .. g.spawned
       /\ h.spawned + 1 \notin 1 .. h.spawned /\ h.spawned + 1 \in 1 .. g.spawned
       /\ v.boot >= 1 /\ h.spawned + 1 # 0
  BY <1>3, <1>7, <1>8 DEF Host
<1>11. TableInv(g)
  <2>1. /\ \A w \in g.vms : w.n \in 1 .. g.spawned /\ w.boot >= 1
        /\ \A w, x \in g.vms : w.n = x.n => w = x
        /\ g.lost \subseteq 1 .. g.spawned
    BY <1>7, <1>8, <1>10 DEF HostInv, TableInv
  <2>2. \A k \in Insts : g.table[k] # NoEntry =>
          k \in g.taps /\ g.table[k].n \in 1 .. g.spawned /\ g.table[k].rel \in Releases
    BY <1>7, <1>8, <1>9, <1>10 DEF HostInv, TableInv
  <2>3. \A k \in Insts : g.table[k].n \notin g.lost
    BY <1>7, <1>8, <1>9, <1>10 DEF HostInv, TableInv
  <2>4. ASSUME NEW w \in g.vms, w.n \notin g.lost
        PROVE  w.guest # "none" /\ g.table[w.inst].n = w.n /\ g.table[w.inst].rel = w.rel
    <3>1. CASE w = v
      BY <1>8, <1>9, <3>1
    <3>2. CASE w # v
      <4>1. w \in h.vms /\ w.inst \in Insts
        BY <1>3, <1>7, <3>2 DEF Host, Vm
      <4>2. /\ w.guest # "none" /\ h.table[w.inst].n = w.n /\ h.table[w.inst].rel = w.rel
            /\ w.n # 0
        BY <1>7, <2>4, <4>1 DEF HostInv, TableInv
      <4>3. w.inst # i
        BY <1>4, <4>2, NoEntryFields
      <4> QED BY <1>9, <4>1, <4>2, <4>3
    <3> QED BY <3>1, <3>2
  <2> QED BY <2>1, <2>2, <2>3, <2>4 DEF TableInv
<1>12. RefsInv(g)
  <2> SUFFICES ASSUME NEW q \in Releases
               PROVE  IsFiniteSet(Users(g, q)) /\ g.refs[q] = Cardinality(Users(g, q)) + g.kept[q]
    BY DEF RefsInv
  <2>1. IsFiniteSet(Users(h, q)) /\ h.refs[q] = Cardinality(Users(h, q)) + h.kept[q]
    BY DEF HostInv, RefsInv
  <2>2. Cardinality(Users(h, q)) \in Nat /\ h.refs[q] \in Nat /\ h.kept[q] \in Nat
    BY <1>3, <2>1, FS_CardinalityType
  <2>3. i \notin Users(h, q)
    BY <1>4, NoEntryFields, RuntimeAssumption DEF Users, None
  <2>4. CASE q = r
    <3>1. Users(g, q) = Users(h, q) \cup {i}
      BY <1>8, <1>9, <2>4 DEF Users
    <3>2. /\ IsFiniteSet(Users(g, q))
          /\ Cardinality(Users(g, q)) = Cardinality(Users(h, q)) + 1
      BY <2>1, <2>3, <3>1, FS_AddElement
    <3>3. g.refs[q] = h.refs[q] + 1 /\ g.kept[q] = h.kept[q]
      BY <1>3, <1>7, <2>4
    <3> QED BY <2>1, <2>2, <3>2, <3>3
  <2>5. CASE q # r
    <3>1. Users(g, q) = Users(h, q)
      BY <1>8, <1>9, <2>3, <2>5 DEF Users
    <3>2. g.refs[q] = h.refs[q] /\ g.kept[q] = h.kept[q]
      BY <1>3, <1>7, <2>5
    <3> QED BY <2>1, <3>1, <3>2
  <2> QED BY <2>4, <2>5
<1> QED BY <1>1, <1>4, <1>7, <1>11, <1>12 DEF HostInv

LEMMA StopVmKeeps ==
    ASSUME NEW h, HostInv(h), NEW i \in Insts, NEW g, g = StopVm(h, i)
    PROVE  /\ HostInv(g)
           /\ g.vms \subseteq h.vms /\ g.boots = h.boots /\ g.spawned = h.spawned /\ g.lost = h.lost
           /\ g.table = [h.table EXCEPT ![i] = NoEntry]
<1>1. h \in Host /\ h.refs \in [Releases -> Nat] /\ h.kept \in [Releases -> Nat]
      /\ h.table \in [Insts -> Entry]
  BY DEF HostInv, Host
<1>2. CASE h.table[i] = NoEntry
  BY <1>1, <1>2 DEF StopVm
<1>3. CASE h.table[i] # NoEntry
  <2>1. PICK r : r = h.table[i].rel
    OBVIOUS
  <2>2. r \in Releases
    BY <1>3, <2>1 DEF HostInv, TableInv
  <2>3. /\ g \in Host
        /\ g.vms = {v \in h.vms : v.n # h.table[i].n}
        /\ g.table = [h.table EXCEPT ![i] = NoEntry]
        /\ g.taps = h.taps \ {i}
        /\ g.refs = [h.refs EXCEPT ![r] = IF h.refs[r] = 0 THEN 0 ELSE h.refs[r] - 1]
        /\ g.kept = h.kept /\ g.spawned = h.spawned /\ g.boots = h.boots /\ g.lost = h.lost
    BY <1>1, <1>3, <2>1, <2>2, StopVmFields
  <2>4. g.table[i] = NoEntry /\ \A k \in Insts : k # i => g.table[k] = h.table[k]
    BY <1>1, <2>3
  <2>5. TableInv(g)
    <3>1. /\ \A w \in g.vms : w.n \in 1 .. g.spawned /\ w.boot >= 1
          /\ \A w, x \in g.vms : w.n = x.n => w = x
          /\ g.lost \subseteq 1 .. g.spawned
      BY <2>3 DEF HostInv, TableInv
    <3>2. \A k \in Insts : g.table[k] # NoEntry =>
            k \in g.taps /\ g.table[k].n \in 1 .. g.spawned /\ g.table[k].rel \in Releases
      BY <2>3, <2>4 DEF HostInv, TableInv
    <3>3. \A k \in Insts : g.table[k].n \notin g.lost
      BY <2>3, <2>4, NoEntryFields DEF HostInv, TableInv
    <3>4. ASSUME NEW w \in g.vms, w.n \notin g.lost
          PROVE  w.guest # "none" /\ g.table[w.inst].n = w.n /\ g.table[w.inst].rel = w.rel
      <4>1. w \in h.vms /\ w.inst \in Insts /\ w.n # h.table[i].n
        BY <1>1, <2>3 DEF Host, Vm
      <4>2. w.guest # "none" /\ h.table[w.inst].n = w.n /\ h.table[w.inst].rel = w.rel
        BY <2>3, <3>4, <4>1 DEF HostInv, TableInv
      <4> QED BY <2>4, <4>1, <4>2
    <3> QED BY <3>1, <3>2, <3>3, <3>4 DEF TableInv
  <2>6. RefsInv(g)
    <3> SUFFICES ASSUME NEW q \in Releases
                 PROVE  IsFiniteSet(Users(g, q)) /\ g.refs[q] = Cardinality(Users(g, q)) + g.kept[q]
      BY DEF RefsInv
    <3>1. IsFiniteSet(Users(h, q)) /\ h.refs[q] = Cardinality(Users(h, q)) + h.kept[q]
      BY DEF HostInv, RefsInv
    <3>2. Cardinality(Users(h, q)) \in Nat /\ h.refs[q] \in Nat /\ h.kept[q] \in Nat
      BY <1>1, <3>1, FS_CardinalityType
    <3>3. i \notin Users(g, q)
      BY <2>4, NoEntryFields, RuntimeAssumption DEF Users, None
    <3>4. CASE q = r
      <4>1. Users(g, q) = Users(h, q) \ {i} /\ i \in Users(h, q)
        BY <2>1, <2>4, <3>3, <3>4 DEF Users
      <4>2. /\ IsFiniteSet(Users(g, q))
            /\ Cardinality(Users(g, q)) = Cardinality(Users(h, q)) - 1
        BY <3>1, <4>1, FS_RemoveElement
      <4>3. Cardinality(Users(h, q)) # 0
        BY <3>1, <4>1, FS_EmptySet
      <4>4. g.refs[q] = (IF h.refs[q] = 0 THEN 0 ELSE h.refs[q] - 1) /\ g.kept[q] = h.kept[q]
        BY <1>1, <2>3, <3>4
      <4> QED BY <3>1, <3>2, <4>2, <4>3, <4>4
    <3>5. CASE q # r
      <4>1. Users(g, q) = Users(h, q)
        BY <2>1, <2>4, <3>3, <3>5 DEF Users
      <4>2. g.refs[q] = h.refs[q] /\ g.kept[q] = h.kept[q]
        BY <1>1, <2>3, <3>5
      <4> QED BY <3>1, <4>1, <4>2
    <3> QED BY <3>4, <3>5
  <2> QED BY <2>3, <2>5, <2>6 DEF HostInv
<1> QED BY <1>2, <1>3

\* What may be new after a call of the runtime: one process, with the next number and the
\* next boot id.
Fresh(h, v, i) ==
    /\ v.inst = i /\ v.n = h.spawned + 1 /\ v.boot = h.boots + 1 /\ v.conf = {} /\ v.key = None

LEMMA StartVmEffect ==
    ASSUME NEW h, HostInv(h), NEW i \in Insts, NEW r \in Releases, NEW s \in StartVm(h, i, r)
    PROVE  /\ HostInv(s.host) /\ s.host.boots = h.boots + 1 /\ h.lost \subseteq s.host.lost
           /\ s.ok \in BOOLEAN
           /\ s.ok => /\ h.table[i] = NoEntry
                      /\ s.host.table = [h.table EXCEPT ![i] =
                            [n |-> h.spawned + 1, boot |-> h.boots + 1, rel |-> r]]
           /\ ~s.ok => s.host.table = h.table
           /\ \A v \in s.host.vms : v \in h.vms \/ Fresh(h, v, i)
<1>1. h \in Host /\ h.boots \in Nat
  BY DEF HostInv, Host
<1>2. CASE s = [ok |-> TRUE, host |-> Booted(h, i, r)] /\ CreateTap(h, i)
  <2>1. PICK g : g = Booted(h, i, r)
    OBVIOUS
  <2>2. s.ok = TRUE /\ s.host = g
    BY <1>2, <2>1
  <2>3. HostInv(g) /\ h.table[i] = NoEntry /\ g.lost = h.lost
    BY <1>2, <2>1, BootedKeeps
  <2>4. PICK v : v = Spawned(h, i, r, "boot")
    OBVIOUS
  <2>5. /\ g \in Host
        /\ g.vms = h.vms \cup {Spawned(h, i, r, "boot")}
        /\ g.table = [h.table EXCEPT ![i] = [n |-> h.spawned + 1, boot |-> h.boots + 1, rel |-> r]]
        /\ g.taps = h.taps \cup {i}
        /\ g.refs = [h.refs EXCEPT ![r] = h.refs[r] + 1] /\ g.kept = h.kept
        /\ g.spawned = h.spawned + 1 /\ g.boots = h.boots + 1
        /\ g.lost = h.lost \cup (IF h.table[i].n \in Live(h) THEN {h.table[i].n} ELSE {})
    BY <1>1, <2>1, BootedFields
  <2>6. Fresh(h, v, i)
    BY <1>1, <2>4, SpawnedFields DEF Fresh, Guests
  <2>7. \A w \in g.vms : w \in h.vms \/ Fresh(h, w, i)
    BY <2>4, <2>5, <2>6
  <2> QED BY <2>2, <2>3, <2>5, <2>7
<1>3. CASE s = [ok |-> FALSE, host |-> ConfigureFails(h)]
  <2>1. PICK g : g = ConfigureFails(h)
    OBVIOUS
  <2>2. s.ok = FALSE /\ s.host = g
    BY <1>3, <2>1
  <2>3. /\ g \in Host
        /\ g.vms = h.vms /\ g.table = h.table /\ g.taps = h.taps /\ g.refs = h.refs /\ g.kept = h.kept
        /\ g.spawned = h.spawned + 1 /\ g.boots = h.boots + 1 /\ g.lost = h.lost
    BY <1>1, <2>1, ConfigureFailsFields
  <2>4. HostInv(g)
    BY <2>3, CountersKeep
  <2> QED BY <2>2, <2>3, <2>4
<1>4. CASE s = [ok |-> FALSE, host |-> ConfigureFails(Spend(h))]
  <2>1. PICK f : f = Spend(h)
    OBVIOUS
  <2>2. PICK g : g = ConfigureFails(f)
    OBVIOUS
  <2>3. s.ok = FALSE /\ s.host = g
    BY <1>4, <2>1, <2>2
  <2>4. /\ f \in Host /\ HostInv(f)
        /\ f.vms = h.vms /\ f.table = h.table /\ f.boots = h.boots /\ f.lost = h.lost
    BY <1>1, <2>1, SpendFields, SpendKeeps
  <2>5. /\ g \in Host
        /\ g.vms = f.vms /\ g.table = f.table /\ g.taps = f.taps /\ g.refs = f.refs /\ g.kept = f.kept
        /\ g.spawned = f.spawned + 1 /\ g.boots = f.boots + 1 /\ g.lost = f.lost
    BY <2>2, <2>4, ConfigureFailsFields
  <2>6. HostInv(g)
    BY <2>4, <2>5, CountersKeep
  <2> QED BY <2>3, <2>4, <2>5, <2>6
<1>5. CASE s = [ok |-> FALSE, host |-> ImageFails(h)]
  <2>1. PICK g : g = ImageFails(h)
    OBVIOUS
  <2>2. s.ok = FALSE /\ s.host = g
    BY <1>5, <2>1
  <2>3. /\ g \in Host
        /\ g.vms = h.vms /\ g.table = h.table /\ g.taps = h.taps /\ g.refs = h.refs /\ g.kept = h.kept
        /\ g.spawned = h.spawned /\ g.boots = h.boots + 1 /\ g.lost = h.lost
    BY <1>1, <2>1, ImageFailsFields
  <2>4. HostInv(g)
    BY <2>3, CountersKeep
  <2> QED BY <2>2, <2>3, <2>4
<1>6. CASE s = [ok |-> FALSE, host |-> SocketMissing(h, i, r)]
  <2>1. PICK g : g = SocketMissing(h, i, r)
    OBVIOUS
  <2>2. s.ok = FALSE /\ s.host = g
    BY <1>6, <2>1
  <2>3. HostInv(g)
    BY <2>1, SocketMissingKeeps
  <2>4. PICK v : v = Spawned(h, i, r, "none")
    OBVIOUS
  <2>5. /\ g \in Host
        /\ g.vms = h.vms \cup {Spawned(h, i, r, "none")}
        /\ g.table = h.table /\ g.taps = h.taps
        /\ g.refs = [h.refs EXCEPT ![r] = h.refs[r] + 1]
        /\ g.kept = [h.kept EXCEPT ![r] = h.kept[r] + 1]
        /\ g.spawned = h.spawned + 1 /\ g.boots = h.boots + 1
        /\ g.lost = h.lost \cup {h.spawned + 1}
    BY <1>1, <2>1, SocketMissingFields
  <2>6. Fresh(h, v, i)
    BY <1>1, <2>4, SpawnedFields DEF Fresh, Guests
  <2>7. \A w \in g.vms : w \in h.vms \/ Fresh(h, w, i)
    BY <2>4, <2>5, <2>6
  <2> QED BY <2>2, <2>3, <2>5, <2>7
<1>10. CASE s = [ok |-> FALSE, host |-> SpawnFails(h, r)]
  <2>1. PICK g : g = SpawnFails(h, r)
    OBVIOUS
  <2>2. s.ok = FALSE /\ s.host = g
    BY <1>10, <2>1
  <2>3. /\ g \in Host
        /\ g.vms = h.vms /\ g.table = h.table /\ g.taps = h.taps
        /\ g.refs = [h.refs EXCEPT ![r] = h.refs[r] + 1]
        /\ g.kept = [h.kept EXCEPT ![r] = h.kept[r] + 1]
        /\ g.spawned = h.spawned /\ g.boots = h.boots + 1 /\ g.lost = h.lost
    BY <1>1, <2>1, SpawnFailsFields
  <2>4. HostInv(g)
    BY <2>1, SpawnFailsKeeps
  <2> QED BY <2>2, <2>3, <2>4
<1>7. \/ s = [ok |-> CreateTap(h, i), host |-> IF CreateTap(h, i) THEN Booted(h, i, r) ELSE ConfigureFails(h)]
      \/ \E g \in {ImageFails(h), SpawnFails(h, r), SocketMissing(h, i, r), ConfigureFails(Spend(h))} :
            s = [ok |-> FALSE, host |-> g]
  BY DEF StartVm
<1>8. CreateTap(h, i) \in BOOLEAN
  BY DEF CreateTap
<1>9. CASE s = [ok |-> CreateTap(h, i), host |-> IF CreateTap(h, i) THEN Booted(h, i, r) ELSE ConfigureFails(h)]
  <2>1. CASE CreateTap(h, i)
    <3>1. CreateTap(h, i) = TRUE
      BY <1>8, <2>1
    <3> QED BY <1>2, <1>9, <2>1, <3>1
  <2>2. CASE ~CreateTap(h, i)
    <3>1. CreateTap(h, i) = FALSE
      BY <1>8, <2>2
    <3> QED BY <1>3, <1>9, <2>2, <3>1
  <2> QED BY <2>1, <2>2
<1> QED BY <1>4, <1>5, <1>6, <1>7, <1>9, <1>10

\* A process that ends takes no reference with it.
LEMMA VmExitsKeeps ==
    ASSUME NEW h, HostInv(h), NEW v \in h.vms, NEW g, g = VmExits(h, v.n)
    PROVE  /\ HostInv(g)
           /\ g.vms \subseteq h.vms /\ g.boots = h.boots /\ g.lost = h.lost /\ g.table = h.table
<1>1. h \in Host
  BY DEF HostInv
<1>2. PICK w : w = {x \in h.vms : x.n # v.n}
  OBVIOUS
<1>3. w \subseteq Vm
  BY <1>1, <1>2 DEF Host
<1>4. g = [h EXCEPT !.vms = w]
  BY <1>2 DEF VmExits
<1>5. /\ g \in Host /\ g.vms = w /\ g.table = h.table /\ g.taps = h.taps /\ g.refs = h.refs /\ g.kept = h.kept
      /\ g.spawned = h.spawned /\ g.boots = h.boots /\ g.lost = h.lost
  BY <1>1, <1>3, <1>4 DEF Host
<1>6. TableInv(g)
  BY <1>2, <1>5 DEF HostInv, TableInv
<1>7. RefsInv(g)
  BY <1>5 DEF HostInv, RefsInv, Users
<1> QED BY <1>2, <1>5, <1>6, <1>7 DEF HostInv

\* A guest that goes on is still the same process.
LEMMA ReplaceKeeps ==
    ASSUME NEW h, HostInv(h), NEW v \in h.vms, NEW w \in Vm, NEW g,
           g = [h EXCEPT !.vms = (h.vms \ {v}) \cup {w}],
           v.guest # "none", w.guest # "none",
           w.n = v.n, w.inst = v.inst, w.boot = v.boot, w.rel = v.rel
    PROVE  /\ HostInv(g)
           /\ g.vms = (h.vms \ {v}) \cup {w}
           /\ g.boots = h.boots /\ g.lost = h.lost /\ g.table = h.table
<1>1. h \in Host
  BY DEF HostInv
<1>2. PICK m : m = (h.vms \ {v}) \cup {w}
  OBVIOUS
<1>3. m \subseteq Vm
  BY <1>1, <1>2 DEF Host
<1>5. /\ g \in Host /\ g.vms = m /\ g.table = h.table /\ g.taps = h.taps /\ g.refs = h.refs /\ g.kept = h.kept
      /\ g.spawned = h.spawned /\ g.boots = h.boots /\ g.lost = h.lost
  BY <1>1, <1>2, <1>3 DEF Host
<1>6. TableInv(g)
  <2>1. \A x \in g.vms : x = w \/ (x \in h.vms /\ x # v)
    BY <1>2, <1>5
  <2> QED BY <1>5, <2>1 DEF HostInv, TableInv
<1>7. RefsInv(g)
  BY <1>5 DEF HostInv, RefsInv, Users
<1> QED BY <1>2, <1>5, <1>6, <1>7 DEF HostInv

\* The host with all its connections closed.
Unheard(f) == [f EXCEPT !.vms = {[v EXCEPT !.key = None] : v \in f.vms}]

\* A new agent process on the host it finds: its table is empty and it holds no reference.
LEMMA RestartKeeps ==
    ASSUME NEW h, HostInv(h), NEW f, f = AgentRestarts(h) \/ f = HostReboots(h),
           NEW g, g = Unheard(f)
    PROVE  /\ HostInv(g)
           /\ g.table = [i \in Insts |-> NoEntry]
           /\ g.boots = 0
           /\ \A v \in g.vms : v.n \in g.lost /\ v.key = None
           /\ \A v \in g.vms : \E w \in h.vms : v.inst = w.inst /\ v.boot = w.boot /\ v.n = w.n
<1>1. h \in Host
  BY DEF HostInv
<1>2. PICK t : t = [i \in Insts |-> NoEntry]
  OBVIOUS
<1>3. PICK q : q = [r \in Releases |-> 0]
  OBVIOUS
<1>4. t \in [Insts -> Entry] /\ q \in [Releases -> Nat] /\ Live(h) \subseteq Nat
  BY <1>1, <1>2, <1>3, NoEntryFields DEF Live, Host, Vm
<1>5. PICK l : l = Live(h)
  OBVIOUS
<1>6. PICK z : z = 0
  OBVIOUS
<1>7. AgentRestarts(h) = [h EXCEPT !.table = t, !.refs = q, !.kept = q, !.boots = z, !.lost = l]
  BY <1>2, <1>3, <1>5, <1>6 DEF AgentRestarts
<1>8. /\ f \in Host /\ f.table = t /\ f.refs = q /\ f.kept = q /\ f.boots = 0 /\ f.spawned = h.spawned
      /\ f.vms \subseteq h.vms /\ f.lost \subseteq l
      /\ \A v \in f.vms : v.n \in f.lost
  <2>1. PICK k : k = AgentRestarts(h)
    OBVIOUS
  <2>2. /\ k \in Host /\ k.table = t /\ k.refs = q /\ k.kept = q /\ k.boots = z /\ k.spawned = h.spawned
        /\ k.vms = h.vms /\ k.lost = l
    <3>1. k = [h EXCEPT !.table = t, !.refs = q, !.kept = q, !.boots = z, !.lost = l]
      BY <1>7, <2>1
    <3>2. z \in Nat /\ l \subseteq Nat /\ t \in [Insts -> Entry] /\ q \in [Releases -> Nat]
      BY <1>4, <1>5, <1>6
    <3>3. h \in Host
      BY <1>1
    <3> HIDE <1>1, <1>4, <1>5, <1>6, <1>7
    <3> QED BY <3>1, <3>2, <3>3 DEF Host
  <2>3. CASE f = k
    BY <1>5, <1>6, <2>2, <2>3 DEF Live
  <2>4. CASE f = HostReboots(h)
    <3>1. PICK e : e = {}
      OBVIOUS
    <3>2. e \subseteq Vm /\ e \subseteq Insts /\ e \subseteq Nat
      BY <3>1
    <3>3. f = [k EXCEPT !.vms = e, !.taps = e, !.lost = e]
      BY <2>1, <2>4, <3>1 DEF HostReboots
    <3>4. /\ f \in Host /\ f.table = t /\ f.refs = q /\ f.kept = q /\ f.boots = z /\ f.spawned = h.spawned
          /\ f.vms = e /\ f.lost = e
      BY <2>2, <3>2, <3>3 DEF Host
    <3> QED BY <1>6, <3>1, <3>4
  <2> QED BY <2>1, <2>3, <2>4
<1>9. PICK F : F = [v \in f.vms |-> [v EXCEPT !.key = None]]
  OBVIOUS
<1>10. PICK m : m = {[v EXCEPT !.key = None] : v \in f.vms}
  OBVIOUS
<1>11. \A v \in f.vms : /\ F[v] \in Vm /\ F[v].key = None /\ F[v].n = v.n /\ F[v].inst = v.inst
                        /\ F[v].boot = v.boot /\ F[v].guest = v.guest /\ F[v].rel = v.rel
  <2> SUFFICES ASSUME NEW v \in f.vms
               PROVE  /\ F[v] \in Vm /\ F[v].key = None /\ F[v].n = v.n /\ F[v].inst = v.inst
                      /\ F[v].boot = v.boot /\ F[v].guest = v.guest /\ F[v].rel = v.rel
    OBVIOUS
  <2>1. v \in Vm /\ F[v] = [v EXCEPT !.key = None] /\ None \in Int
    BY <1>8, <1>9 DEF Host, None
  <2> QED BY <2>1 DEF Vm
<1>12. m = {F[v] : v \in f.vms}
  BY <1>9, <1>10
<1>13. m \subseteq Vm
  BY <1>11, <1>12
<1>14. /\ g \in Host /\ g.vms = m /\ g.table = t /\ g.refs = q /\ g.kept = q /\ g.boots = 0
       /\ g.spawned = h.spawned /\ g.lost = f.lost
  <2>1. g = [f EXCEPT !.vms = m]
    BY <1>10 DEF Unheard
  <2> QED BY <1>8, <1>13, <2>1 DEF Host
<1>18. \A i \in Insts : g.table[i] = NoEntry
  BY <1>2, <1>14
<1>19. TableInv(g)
  <2>1. \A v, w \in f.vms : v.n = w.n => v = w
    BY <1>8 DEF HostInv, TableInv
  <2>2. \A v, w \in m : v.n = w.n => v = w
    BY <1>11, <1>12, <2>1
  <2>3. \A v \in m : v.n \in 1 .. h.spawned /\ v.boot >= 1 /\ v.n \in f.lost
    BY <1>8, <1>11, <1>12 DEF HostInv, TableInv
  <2>4. l \subseteq 1 .. h.spawned
    BY <1>5 DEF Live, HostInv, TableInv
  <2>5. 0 \notin g.lost
    BY <1>8, <1>14, <2>4
  <2> QED BY <1>8, <1>14, <1>18, <2>2, <2>3, <2>4, <2>5, NoEntryFields DEF TableInv
<1>20. RefsInv(g)
  <2> SUFFICES ASSUME NEW r \in Releases
               PROVE  IsFiniteSet(Users(g, r)) /\ g.refs[r] = Cardinality(Users(g, r)) + g.kept[r]
    BY DEF RefsInv
  <2>1. Users(g, r) = {}
    BY <1>18, NoEntryFields, RuntimeAssumption DEF Users, None
  <2>2. IsFiniteSet({}) /\ Cardinality({}) = 0
    BY FS_EmptySet
  <2>3. g.refs[r] = 0 /\ g.kept[r] = 0
    BY <1>3, <1>14
  <2> QED BY <2>1, <2>2, <2>3
<1>21. \A v \in m : /\ v.n \in g.lost /\ v.key = None
                    /\ \E w \in h.vms : v.inst = w.inst /\ v.boot = w.boot /\ v.n = w.n
  BY <1>8, <1>11, <1>12, <1>14
<1> QED BY <1>2, <1>14, <1>19, <1>20, <1>21 DEF HostInv

----------------------------------------------------------------------------
(* Handles and what the guests say.                                        *)

\* What a handler leaves of a host: at most one process more, with the next boot id.
Evolves(h, g, i) ==
    /\ HostInv(g) /\ h.boots <= g.boots /\ h.lost \subseteq g.lost
    /\ \A v \in g.vms : v \in h.vms \/ (Fresh(h, v, i) /\ g.boots = h.boots + 1)

LEMMA HandlesKept ==
    ASSUME UNCHANGED <<insts, actors>>
    PROVE  Handles' = Handles /\ CalledReady' = CalledReady
BY DEF Handles, CalledReady

LEMMA OwnerKept ==
    ASSUME OwnerInv, UNCHANGED <<insts, actors, mode>>, host'.table = host.table
    PROVE  OwnerInv'
BY DEF OwnerInv, Keeps

\* The next boot id is nobody's yet, so handles and processes go on agreeing.
LEMMA SpeechKept ==
    ASSUME HostInv(host), AgentTypeOK, SpeechInv, UNCHANGED <<wire, statuses, old, said>>, NEW i,
           Evolves(host, host', i),
           \A x \in Handles' : \/ x \in Handles
                               \/ /\ x = <<i, host.spawned + 1, host.boots + 1>>
                                  /\ host'.boots = host.boots + 1
    PROVE  SpeechInv'
<1>1. host \in Host /\ host.boots \in Nat /\ host'.boots \in Nat /\ host.boots <= host'.boots
  BY DEF HostInv, Host, Evolves
<1>2. ASSUME NEW j, NEW b \in Int, NEW n, Names(j, b, n)
      PROVE  Names(j, b, n)'
  <2>1. CASE <<j, b>> \in old
    BY <2>1 DEF Names
  <2>2. CASE b <= host.boots /\ \A x \in Handles : x[1] = j /\ x[3] = b => x[2] = n
    <3>1. b <= host'.boots
      BY <1>1, <2>2
    <3>2. ASSUME NEW x \in Handles', x[1] = j, x[3] = b
          PROVE  x[2] = n
      <4>1. x \in Handles
        BY <1>1, <2>2, <3>2
      <4> QED BY <2>2, <3>2, <4>1
    <3> QED BY <3>1, <3>2 DEF Names
  <2> QED BY <1>2, <2>1, <2>2 DEF Names
<1>3. \A x \in Handles' : x[3] \in 1 .. host'.boots
  <2> SUFFICES ASSUME NEW x \in Handles' PROVE x[3] \in 1 .. host'.boots
    OBVIOUS
  <2>1. CASE x \in Handles
    BY <1>1, <2>1 DEF SpeechInv
  <2>2. CASE x = <<i, host.spawned + 1, host.boots + 1>> /\ host'.boots = host.boots + 1
    BY <1>1, <2>2
  <2> QED BY <2>1, <2>2
<1>4. ASSUME NEW v \in host'.vms
      PROVE  v.key \in {None, v.boot, -v.n} /\ Names(v.inst, v.boot, v.n)'
  <2>1. CASE v \in host.vms
    <3>1. v.boot \in Int
      BY <1>1, <2>1 DEF Host, Vm
    <3> QED BY <1>2, <2>1, <3>1 DEF SpeechInv
  <2>2. CASE Fresh(host, v, i) /\ host'.boots = host.boots + 1
    <3>1. v.inst = i /\ v.n = host.spawned + 1 /\ v.boot = host.boots + 1 /\ v.key = None
      BY <2>2 DEF Fresh
    <3>2. \A x \in Handles : x[3] # host.boots + 1
      BY <1>1 DEF SpeechInv
    <3>3. \A x \in Handles' : x[1] = i /\ x[3] = host.boots + 1 => x[2] = host.spawned + 1
      BY <3>2
    <3>4. v.boot <= host'.boots
      BY <1>1, <2>2, <3>1
    <3> QED BY <3>1, <3>3, <3>4 DEF Names
  <2> QED BY <2>1, <2>2 DEF Evolves
<1>5. ASSUME NEW n \in 1 .. MaxVms, NEW k \in 1 .. Len(wire'[n])
      PROVE  /\ wire'[n][k].state = "ready" => n \in said'
             /\ wire'[n][k].boot >= 1 => Names(wire[n][k].inst, wire[n][k].boot, n)'
  <2>1. PICK m : m = wire[n][k]
    OBVIOUS
  <2>2. m = wire'[n][k] /\ k \in 1 .. Len(wire[n])
    BY <2>1
  <2>3. /\ m.state = "ready" => n \in said
        /\ m.boot >= 1 => Names(m.inst, m.boot, n)
    BY <2>1, <2>2 DEF SpeechInv
  <2>4. m.boot \in Int
    <3>1. wire[n] \in Seq(Spoken)
      BY DEF AgentTypeOK
    <3>2. m \in Spoken
      BY <2>1, <2>2, <3>1
    <3> QED BY <3>2 DEF Spoken
  <2>5. m.boot >= 1 => Names(m.inst, m.boot, n)'
    BY <1>2, <2>3, <2>4
  <2> QED BY <2>2, <2>3, <2>5
<1>6. ASSUME NEW t \in statuses', t.boot >= 1, t.state = "ready"
      PROVE  \/ <<t.inst, t.boot>> \in old'
             \/ /\ t.boot <= host'.boots
                /\ \A x \in Handles' : x[1] = t.inst /\ x[3] = t.boot => x[2] \in said'
  <2>1. CASE <<t.inst, t.boot>> \in old
    BY <2>1
  <2>2. CASE /\ t.boot <= host.boots
             /\ \A x \in Handles : x[1] = t.inst /\ x[3] = t.boot => x[2] \in said
    <3>1. t.boot \in Int
      BY DEF AgentTypeOK, Spoken
    <3>2. t.boot <= host'.boots /\ t.boot # host.boots + 1
      BY <1>1, <2>2, <3>1
    <3> QED BY <2>2, <3>2
  <2> QED BY <1>6, <2>1, <2>2 DEF SpeechInv
<1> QED BY <1>3, <1>4, <1>5, <1>6 DEF SpeechInv

----------------------------------------------------------------------------
(* One lemma per step of a guest.                                          *)

\* The processes of a host after a step of one guest.
SameProcesses(V, W) ==
    \A x \in W : \E w \in V : x.inst = w.inst /\ x.boot = w.boot /\ x.n = w.n /\ x.key = w.key

\* Said once more, with the names of the hello.
LEMMA SayEffect ==
    ASSUME AgentTypeOK, NEW v \in Vm, NEW s \in States, wire' = Say(v, s)
    PROVE  /\ wire' \in [1 .. MaxVms -> Seq(Spoken)]
           /\ \A n \in 1 .. MaxVms : \A k \in 1 .. Len(wire'[n]) :
                 \/ k \in 1 .. Len(wire[n]) /\ wire'[n][k] = wire[n][k]
                 \/ /\ n = v.n /\ v.key # None
                    /\ wire'[n][k] = [inst |-> v.inst, boot |-> v.key, state |-> s]
<1>1. wire \in [1 .. MaxVms -> Seq(Spoken)]
  BY DEF AgentTypeOK
<1>2. CASE v.key = None
  BY <1>1, <1>2 DEF Say
<1>3. CASE v.key # None
  <2>1. PICK m : m = [inst |-> v.inst, boot |-> v.key, state |-> s]
    OBVIOUS
  <2>2. m \in Spoken
    BY <2>1 DEF Spoken, Vm
  <2>3. wire' = [wire EXCEPT ![v.n] = Append(wire[v.n], m)]
    BY <1>3, <2>1 DEF Say
  <2>4. ASSUME NEW n \in 1 .. MaxVms
        PROVE  /\ wire'[n] \in Seq(Spoken)
               /\ \A k \in 1 .. Len(wire'[n]) :
                     \/ k \in 1 .. Len(wire[n]) /\ wire'[n][k] = wire[n][k]
                     \/ n = v.n /\ wire'[n][k] = m
    <3>1. PICK q : q = wire[n]
      OBVIOUS
    <3>2. q \in Seq(Spoken)
      BY <1>1, <3>1
    <3>3. CASE n = v.n
      <4>1. wire'[n] = Append(q, m)
        BY <1>1, <2>3, <3>1, <3>3
      <4>2. /\ Append(q, m) \in Seq(Spoken)
            /\ \A k \in 1 .. Len(Append(q, m)) :
                  (k \in 1 .. Len(q) /\ Append(q, m)[k] = q[k]) \/ Append(q, m)[k] = m
        BY <2>2, <3>2
      <4> QED BY <3>1, <3>3, <4>1, <4>2
    <3>4. CASE n # v.n
      BY <1>1, <2>3, <3>4
    <3> QED BY <3>3, <3>4
  <2>5. wire' \in [1 .. MaxVms -> Seq(Spoken)]
    BY <1>1, <2>3, <2>4
  <2> QED BY <1>3, <2>1, <2>4, <2>5
<1> QED BY <1>2, <1>3

LEMMA GuestSpeaks ==
    ASSUME HostInv(host), AgentTypeOK, SpeechInv, NEW v \in host.vms, NEW s \in States,
           wire' = Say(v, s), UNCHANGED <<insts, actors, statuses, old>>,
           said \subseteq said', s = "ready" => v.n \in said',
           host'.boots = host.boots, SameProcesses(host.vms, host'.vms)
    PROVE  SpeechInv'
<1>1. Handles' = Handles
  BY HandlesKept
<1>2. \A j, b, n : Names(j, b, n)' <=> Names(j, b, n)
  BY <1>1 DEF Names
<1>3. v \in Vm /\ v.n \in Nat /\ v.n >= 1
  BY DEF HostInv, Host, TableInv, Vm
<1>4. \A n \in 1 .. MaxVms : \A k \in 1 .. Len(wire'[n]) :
        \/ k \in 1 .. Len(wire[n]) /\ wire'[n][k] = wire[n][k]
        \/ /\ n = v.n /\ v.key # None
           /\ wire'[n][k] = [inst |-> v.inst, boot |-> v.key, state |-> s]
  BY <1>3, SayEffect
<1>5. ASSUME NEW x \in host'.vms
      PROVE  x.key \in {None, x.boot, -x.n} /\ Names(x.inst, x.boot, x.n)'
  <2>1. PICK w \in host.vms : x.inst = w.inst /\ x.boot = w.boot /\ x.n = w.n /\ x.key = w.key
    BY DEF SameProcesses
  <2>2. w.key \in {None, w.boot, -w.n} /\ Names(w.inst, w.boot, w.n)
    BY DEF SpeechInv
  <2> QED BY <1>2, <2>1, <2>2
<1>6. ASSUME NEW n \in 1 .. MaxVms, NEW k \in 1 .. Len(wire'[n])
      PROVE  /\ wire'[n][k].state = "ready" => n \in said'
             /\ wire'[n][k].boot >= 1 => Names(wire[n][k].inst, wire[n][k].boot, n)'
  <2>1. PICK m : m = wire'[n][k]
    OBVIOUS
  <2>2. SUFFICES /\ m.state = "ready" => n \in said'
                 /\ m.boot >= 1 => Names(m.inst, m.boot, n)
    BY <1>2, <2>1
  <2>3. CASE k \in 1 .. Len(wire[n]) /\ wire'[n][k] = wire[n][k]
    BY <2>1, <2>3 DEF SpeechInv
  <2>4. CASE n = v.n /\ m = [inst |-> v.inst, boot |-> v.key, state |-> s]
    <3>1. m.inst = v.inst /\ m.boot = v.key /\ m.state = s
      BY <2>4
    <3>2. v.key \in {None, v.boot, -v.n} /\ Names(v.inst, v.boot, v.n)
      BY DEF SpeechInv
    <3>3. v.key >= 1 => v.key = v.boot
      BY <1>3, <3>2 DEF None
    <3> QED BY <2>4, <3>1, <3>2, <3>3
  <2> QED BY <1>4, <2>1, <2>3, <2>4
<1> QED BY <1>1, <1>5, <1>6 DEF SpeechInv

\* A guest that has got further, or has ended: everything but the speech.
LEMMA GuestMoves ==
    ASSUME AgentInv, UNCHANGED <<insts, actors, handles, rev, mode, old, cfgs>>,
           HostInv(host'), host'.boots = host.boots, host'.lost = host.lost,
           host'.table = host.table, said \subseteq said',
           \A x \in host'.vms : \E w \in host.vms :
               x.inst = w.inst /\ x.n = w.n /\ x.rel = w.rel /\ x.conf = w.conf
    PROVE  HostInv(host)' /\ OwnerInv' /\ ConfigInv' /\ ReadyMeansSaidSo'
<1>1. OwnerInv'
  BY OwnerKept DEF AgentInv
<1>2. ConfigInv'
  <2>1. ASSUME NEW x \in host'.vms, x.n \notin host'.lost, NEW c \in x.conf
        PROVE  c.inst = x.inst /\ c.rel = x.rel /\ c.mounts = Volumes[x.rel]
    <3>1. PICK w \in host.vms : x.inst = w.inst /\ x.n = w.n /\ x.rel = w.rel /\ x.conf = w.conf
      OBVIOUS
    <3> QED BY <2>1, <3>1 DEF AgentInv, ConfigInv
  <2> QED BY <2>1 DEF AgentInv, ConfigInv
<1>3. ReadyMeansSaidSo'
  BY HandlesKept DEF AgentInv, ReadyMeansSaidSo
<1> QED BY <1>1, <1>2, <1>3

LEMMA GuestRec ==
    ASSUME NEW v \in Vm, NEW guest \in Guests, NEW w, w = [v EXCEPT !.guest = guest]
    PROVE  /\ w \in Vm /\ w.guest = guest /\ w.n = v.n /\ w.inst = v.inst /\ w.boot = v.boot
           /\ w.rel = v.rel /\ w.conf = v.conf /\ w.key = v.key
BY DEF Vm

\* perform_setup, run and the health checks, with a status sent: the guest is replaced.
LEMMA GuestGoesOn ==
    ASSUME AgentInv, NEW v \in host.vms, v.guest # "none", NEW guest \in Guests \ {"none"},
           NEW h, h = [host EXCEPT !.vms = (host.vms \ {v}) \cup {[v EXCEPT !.guest = guest]}],
           host' = h \/ host' = Spend(h),
           NEW s \in States, wire' = Say(v, s),
           said \subseteq said', s = "ready" => v.n \in said',
           UNCHANGED <<insts, actors, handles, rev, mode, old, cfgs, statuses>>
    PROVE  AgentInv'
<1>1. HostInv(host) /\ AgentTypeOK /\ SpeechInv
  BY DEF AgentInv
<1>2. v \in Vm
  BY <1>1 DEF HostInv, Host
<1>3. PICK w : w = [v EXCEPT !.guest = guest]
  OBVIOUS
<1>4. /\ w \in Vm /\ w.guest = guest /\ w.n = v.n /\ w.inst = v.inst /\ w.boot = v.boot
      /\ w.rel = v.rel /\ w.conf = v.conf /\ w.key = v.key
  BY <1>2, <1>3, GuestRec
<1>5. h = [host EXCEPT !.vms = (host.vms \ {v}) \cup {w}]
  BY <1>3
<1>6. /\ HostInv(h) /\ h.vms = (host.vms \ {v}) \cup {w}
      /\ h.boots = host.boots /\ h.lost = host.lost /\ h.table = host.table
  <2>1. guest # "none" /\ w.guest # "none" /\ v.guest # "none"
    BY <1>4
  <2>2. w.n = v.n /\ w.inst = v.inst /\ w.boot = v.boot /\ w.rel = v.rel /\ w \in Vm
    BY <1>4
  <2>3. HostInv(host) /\ v \in host.vms
    BY <1>1
  <2> QED BY ONLY <1>5, <2>1, <2>2, <2>3, ReplaceKeeps
<1>7. /\ HostInv(Spend(h)) /\ Spend(h).vms = h.vms /\ Spend(h).boots = h.boots
      /\ Spend(h).lost = h.lost /\ Spend(h).table = h.table
  BY <1>6, SpendKeeps, SpendFields DEF HostInv
<1>8. /\ HostInv(host') /\ host'.vms = (host.vms \ {v}) \cup {w}
      /\ host'.boots = host.boots /\ host'.lost = host.lost /\ host'.table = host.table
  BY <1>6, <1>7
<1>9. SpeechInv'
  <2>1. SameProcesses(host.vms, host'.vms)
    BY <1>4, <1>8 DEF SameProcesses
  <2> QED BY <1>1, <1>8, <2>1, GuestSpeaks
<1>10. AgentTypeOK'
  BY <1>1, <1>2, SayEffect DEF AgentTypeOK
<1>11. \A x \in host'.vms : \E y \in host.vms :
         x.inst = y.inst /\ x.n = y.n /\ x.rel = y.rel /\ x.conf = y.conf
  BY <1>4, <1>8
<1> QED BY <1>8, <1>9, <1>10, <1>11, GuestMoves DEF AgentInv

\* report_failure, report_exit: the last word of a guest that ends.
LEMMA GuestEnds ==
    ASSUME AgentInv, NEW v \in host.vms, v.guest # "none", host' = Spend(VmExits(host, v.n)),
           NEW s \in States, s # "ready", wire' = Say(v, s),
           UNCHANGED <<insts, actors, handles, rev, mode, old, cfgs, statuses, said>>
    PROVE  AgentInv'
<1>1. HostInv(host) /\ AgentTypeOK /\ SpeechInv
  BY DEF AgentInv
<1>2. v \in Vm
  BY <1>1 DEF HostInv, Host
<1>3. PICK h : h = VmExits(host, v.n)
  OBVIOUS
<1>4. /\ HostInv(h) /\ h.vms \subseteq host.vms
      /\ h.boots = host.boots /\ h.lost = host.lost /\ h.table = host.table
  BY <1>1, <1>3, VmExitsKeeps
<1>5. /\ HostInv(Spend(h)) /\ Spend(h).vms = h.vms /\ Spend(h).boots = h.boots
      /\ Spend(h).lost = h.lost /\ Spend(h).table = h.table
  BY <1>4, SpendKeeps, SpendFields DEF HostInv
<1>6. /\ HostInv(host') /\ host'.vms \subseteq host.vms
      /\ host'.boots = host.boots /\ host'.lost = host.lost /\ host'.table = host.table
  BY <1>3, <1>4, <1>5
<1>7. SpeechInv'
  <2>1. SameProcesses(host.vms, host'.vms)
    BY <1>6 DEF SameProcesses
  <2> QED BY <1>1, <1>6, <2>1, GuestSpeaks
<1>8. AgentTypeOK'
  BY <1>1, <1>2, SayEffect DEF AgentTypeOK
<1>9. \A x \in host'.vms : \E y \in host.vms :
         x.inst = y.inst /\ x.n = y.n /\ x.rel = y.rel /\ x.conf = y.conf
  BY <1>6
<1> QED BY <1>6, <1>7, <1>8, <1>9, GuestMoves DEF AgentInv

\* The vars a guest's step leaves alone.
GuestFrame == UNCHANGED <<insts, actors, handles, rev, mode>>

\* The process ends without a word: its guest has no configuration, or there is no guest.
LEMMA EndsSilently ==
    ASSUME AgentInv, NEW v \in host.vms, host' = VmExits(host, v.n), GuestFrame,
           UNCHANGED <<cfgs, wire, statuses, old, said>>
    PROVE  AgentInv'
<1>1. HostInv(host) /\ AgentTypeOK /\ SpeechInv
  BY DEF AgentInv
<1>2. /\ HostInv(host') /\ host'.vms \subseteq host.vms
      /\ host'.boots = host.boots /\ host'.lost = host.lost /\ host'.table = host.table
  BY <1>1, VmExitsKeeps
<1>3. host.boots \in Nat
  BY <1>1 DEF HostInv, Host
<1>4. Evolves(host, host', v.inst)
  BY <1>2, <1>3 DEF Evolves
<1>5. Handles' = Handles
  BY HandlesKept DEF GuestFrame
<1>6. SpeechInv'
  BY <1>1, <1>4, <1>5, SpeechKept
<1>7. AgentTypeOK'
  BY <1>1 DEF AgentTypeOK, GuestFrame
<1>8. \A x \in host'.vms : \E y \in host.vms :
         x.inst = y.inst /\ x.n = y.n /\ x.rel = y.rel /\ x.conf = y.conf
  BY <1>2
<1>9. UNCHANGED <<insts, actors, handles, rev, mode, old, cfgs>> /\ said \subseteq said'
  BY DEF GuestFrame
<1> QED BY <1>2, <1>6, <1>7, <1>8, <1>9, GuestMoves DEF AgentInv

\* The guest takes the configuration of its instance, which is that of its own release
\* unless it is lost.
LEMMA HelloTakes ==
    ASSUME AgentInv, NEW v \in host.vms, v.guest # "none", cfgs[v.inst] # None, NEW key,
           key \in {v.boot, -v.n}, GuestFrame,
           host' = [host EXCEPT !.vms = (host.vms \ {v}) \cup
                       {[v EXCEPT !.guest = "configured",
                                  !.conf = {BuildConfigMessage(v.inst, cfgs[v.inst])}, !.key = key]}],
           cfgs' = [cfgs EXCEPT ![v.inst] = None], UNCHANGED <<wire, statuses, old, said>>
    PROVE  AgentInv'
<1>1. HostInv(host) /\ AgentTypeOK /\ SpeechInv /\ ConfigInv /\ OwnerInv
  BY DEF AgentInv
<1>2. v \in Vm
  BY <1>1 DEF HostInv, Host
<1>3. PICK i : i = v.inst
  OBVIOUS
<1>4. PICK r : r = cfgs[i]
  OBVIOUS
<1>5. i \in Insts /\ r \in Releases
  <2>1. i \in Insts
    BY <1>2, <1>3 DEF Vm
  <2>2. r \in Releases \cup {None} /\ r # None
    BY <1>1, <1>3, <1>4, <2>1 DEF AgentTypeOK
  <2> QED BY <2>1, <2>2
<1>6. PICK c : c = BuildConfigMessage(i, r)
  OBVIOUS
<1>7. c \in Config /\ c.inst = i /\ c.rel = r /\ c.mounts = Volumes[r]
  <2>1. Volumes[r] \in Seq(Nat)
    BY <1>5, RuntimeAssumption
  <2>2. (r \in WithSecrets) \in BOOLEAN
    OBVIOUS
  <2> QED BY <1>5, <1>6, <2>1, <2>2 DEF BuildConfigMessage, Config
<1>8. PICK C : C = {c}
  OBVIOUS
<1>9. PICK w : w = [v EXCEPT !.guest = "configured", !.conf = C, !.key = key]
  OBVIOUS
<1>10. key \in Int
  BY <1>2 DEF Vm
<1>11. /\ w \in Vm /\ w.guest = "configured" /\ w.n = v.n /\ w.inst = v.inst /\ w.boot = v.boot
       /\ w.rel = v.rel /\ w.conf = C /\ w.key = key
  <2>1. C \subseteq Config
    BY <1>7, <1>8
  <2>2. "configured" \in Guests
    BY DEF Guests
  <2> QED BY <1>2, <1>9, <1>10, <2>1, <2>2 DEF Vm
<1>12. host' = [host EXCEPT !.vms = (host.vms \ {v}) \cup {w}]
  BY <1>3, <1>4, <1>6, <1>8, <1>9
<1>13. /\ HostInv(host') /\ host'.vms = (host.vms \ {v}) \cup {w}
       /\ host'.boots = host.boots /\ host'.lost = host.lost /\ host'.table = host.table
  <2>1. w.guest # "none" /\ v.guest # "none"
    BY <1>11
  <2>2. w.n = v.n /\ w.inst = v.inst /\ w.boot = v.boot /\ w.rel = v.rel /\ w \in Vm
    BY <1>11
  <2>3. HostInv(host) /\ v \in host.vms
    BY <1>1
  <2> QED BY ONLY <1>12, <2>1, <2>2, <2>3, ReplaceKeeps
<1>14. Handles' = Handles
  BY HandlesKept DEF GuestFrame
<1>15. \A j, b, n : Names(j, b, n)' <=> Names(j, b, n)
  BY <1>13, <1>14 DEF Names
<1>16. SpeechInv'
  <2>1. \A x \in host'.vms : x.key \in {None, x.boot, -x.n} /\ Names(x.inst, x.boot, x.n)
    BY <1>1, <1>11, <1>13 DEF SpeechInv
  <2>2. \A n \in 1 .. MaxVms : \A k \in 1 .. Len(wire[n]) :
          /\ wire[n][k].state = "ready" => n \in said
          /\ wire[n][k].boot >= 1 => Names(wire[n][k].inst, wire[n][k].boot, n)
    BY <1>1 DEF SpeechInv
  <2>3. \A x \in Handles' : x[3] \in 1 .. host'.boots
    BY <1>1, <1>13, <1>14 DEF SpeechInv
  <2>4. \A t \in statuses : t.boot >= 1 /\ t.state = "ready" =>
          \/ <<t.inst, t.boot>> \in old
          \/ /\ t.boot <= host'.boots
             /\ \A x \in Handles' : x[1] = t.inst /\ x[3] = t.boot => x[2] \in said
    BY <1>1, <1>13, <1>14 DEF SpeechInv
  <2> QED BY <1>15, <2>1, <2>2, <2>3, <2>4 DEF SpeechInv
<1>17. AgentTypeOK'
  <2>1. cfgs' \in [Insts -> Releases \cup {None}]
    BY <1>1 DEF AgentTypeOK
  <2> QED BY <1>1, <2>1 DEF AgentTypeOK, GuestFrame
<1>18. OwnerInv'
  BY <1>1, <1>13, OwnerKept DEF GuestFrame
<1>19. ConfigInv'
  <2>1. \A j \in Insts : cfgs'[j] # None => mode' = "legacy" /\ host'.table[j].rel = cfgs'[j]
    BY <1>1, <1>13 DEF ConfigInv, AgentTypeOK, GuestFrame
  <2>2. v.n \notin host.lost => v.rel = r
    BY <1>1, <1>3, <1>4, <1>5 DEF ConfigInv, HostInv, TableInv
  <2>3. ASSUME NEW x \in host'.vms, x.n \notin host'.lost, NEW d \in x.conf
        PROVE  d.inst = x.inst /\ d.rel = x.rel /\ d.mounts = Volumes[x.rel]
    <3>1. CASE x = w
      BY <1>3, <1>7, <1>8, <1>11, <1>13, <2>2, <2>3, <3>1
    <3>2. CASE x \in host.vms
      BY <1>1, <1>13, <2>3, <3>2 DEF ConfigInv
    <3> QED BY <1>13, <3>1, <3>2
  <2> QED BY <2>1, <2>3 DEF ConfigInv
<1>20. ReadyMeansSaidSo'
  BY HandlesKept DEF AgentInv, ReadyMeansSaidSo, GuestFrame
<1> QED BY <1>13, <1>16, <1>17, <1>18, <1>19, <1>20 DEF AgentInv

LEMMA HelloKeeps ==
    ASSUME AgentInv, NEW v \in host.vms, NEW kind, Hello(v, kind), GuestFrame
    PROVE  AgentInv'
<1>1. v.guest # "none"
  BY DEF Hello
<1>2. CASE kind = "unnamed" \/ cfgs[v.inst] = None
  BY <1>1, <1>2, EndsSilently DEF Hello, Dies
<1>3. CASE ~(kind = "unnamed" \/ cfgs[v.inst] = None)
  <2>1. PICK key : key = IF kind = "told" THEN v.boot ELSE -v.n
    OBVIOUS
  <2>2. /\ host' = [host EXCEPT !.vms = (host.vms \ {v}) \cup
                       {[v EXCEPT !.guest = "configured",
                                  !.conf = {BuildConfigMessage(v.inst, cfgs[v.inst])}, !.key = key]}]
        /\ cfgs' = [cfgs EXCEPT ![v.inst] = None]
        /\ UNCHANGED <<wire, statuses, old, said>>
    BY <1>3, <2>1 DEF Hello, Replace, TakeConfig
  <2>3. key \in {v.boot, -v.n}
    BY <2>1
  <2> QED BY <1>1, <1>3, <2>2, <2>3, HelloTakes
<1> QED BY <1>2, <1>3

\* Everything else a guest does.
LEMMA GuestKeeps ==
    ASSUME AgentInv, NEW v \in host.vms, GuestFrame,
           \/ PerformSetup(v) \/ SetupFails(v) \/ BecomesReady(v)
           \/ BecomesUnhealthy(v) \/ WorkloadExits(v) \/ StuckExits(v)
    PROVE  AgentInv'
<1>1. {"applied", "up"} \subseteq Guests \ {"none"} /\ States = {"config_applied", "ready", "failed", "unhealthy", "exited"}
  BY DEF Guests, States
<1>2. CASE PerformSetup(v)
  <2>1. PICK h : h = [host EXCEPT !.vms = (host.vms \ {v}) \cup {[v EXCEPT !.guest = "applied"]}]
    OBVIOUS
  <2>2. host' = h /\ v.guest # "none" /\ wire' = Say(v, "config_applied") /\ said \subseteq said'
    BY <1>2, <2>1 DEF PerformSetup, Replace
  <2>3. UNCHANGED <<insts, actors, handles, rev, mode, old, cfgs, statuses>>
    BY <1>2 DEF PerformSetup, GuestFrame
  <2> QED BY <1>1, <2>1, <2>2, <2>3, GuestGoesOn
<1>3. CASE SetupFails(v)
  <2>1. host' = Spend(VmExits(host, v.n)) /\ v.guest # "none" /\ wire' = Say(v, "failed")
    BY <1>3 DEF SetupFails
  <2>2. UNCHANGED <<insts, actors, handles, rev, mode, old, cfgs, statuses, said>>
    BY <1>3 DEF SetupFails, GuestFrame
  <2> QED BY <1>1, <2>1, <2>2, GuestEnds
<1>4. CASE BecomesReady(v)
  <2>1. PICK h : h = [host EXCEPT !.vms = (host.vms \ {v}) \cup {[v EXCEPT !.guest = "up"]}]
    OBVIOUS
  <2>2. host' = h /\ v.guest # "none" /\ wire' = Say(v, "ready") /\ said \subseteq said' /\ v.n \in said'
    BY <1>4, <2>1 DEF BecomesReady, Replace
  <2>3. UNCHANGED <<insts, actors, handles, rev, mode, old, cfgs, statuses>>
    BY <1>4 DEF BecomesReady, GuestFrame
  <2> QED BY <1>1, <2>1, <2>2, <2>3, GuestGoesOn
<1>5. CASE BecomesUnhealthy(v)
  <2>1. PICK h : h = [host EXCEPT !.vms = (host.vms \ {v}) \cup {[v EXCEPT !.guest = "applied"]}]
    OBVIOUS
  <2>2. host' = Spend(h) /\ v.guest # "none" /\ wire' = Say(v, "unhealthy") /\ said \subseteq said'
    BY <1>5, <2>1 DEF BecomesUnhealthy
  <2>3. UNCHANGED <<insts, actors, handles, rev, mode, old, cfgs, statuses>>
    BY <1>5 DEF BecomesUnhealthy, GuestFrame
  <2> QED BY <1>1, <2>1, <2>2, <2>3, GuestGoesOn
<1>6. CASE WorkloadExits(v)
  <2>1. host' = Spend(VmExits(host, v.n)) /\ v.guest # "none" /\ wire' = Say(v, "exited")
    BY <1>6 DEF WorkloadExits
  <2>2. UNCHANGED <<insts, actors, handles, rev, mode, old, cfgs, statuses, said>>
    BY <1>6 DEF WorkloadExits, GuestFrame
  <2> QED BY <1>1, <2>1, <2>2, GuestEnds
<1>7. CASE StuckExits(v)
  BY <1>7, EndsSilently DEF StuckExits, Dies
<1> QED BY <1>2, <1>3, <1>4, <1>5, <1>6, <1>7

\* A status goes from the connection to the table of statuses.
LEMMA RecordKeeps ==
    ASSUME AgentInv, NEW n \in 1 .. MaxVms, RecordStatus(n), GuestFrame
    PROVE  AgentInv'
<1>1. HostInv(host) /\ AgentTypeOK /\ SpeechInv /\ ConfigInv /\ OwnerInv
  BY DEF AgentInv
<1>2. PICK q : q = wire[n]
  OBVIOUS
<1>3. q \in Seq(Spoken) /\ q # <<>> /\ 1 \in 1 .. Len(q)
  BY <1>1, <1>2 DEF AgentTypeOK, RecordStatus
<1>4. PICK m : m = q[1]
  OBVIOUS
<1>5. m \in Spoken /\ m = Head(q)
  BY <1>3, <1>4
<1>6. /\ m.state = "ready" => n \in said
      /\ m.boot >= 1 => Names(m.inst, m.boot, n)
  BY <1>1, <1>2, <1>3, <1>4 DEF SpeechInv
<1>7. /\ statuses' = {t \in statuses : t.inst # m.inst \/ t.boot # m.boot} \cup {m}
      /\ wire' = [wire EXCEPT ![n] = Tail(q)]
      /\ UNCHANGED <<host, cfgs, old, said>>
  BY <1>2, <1>5 DEF RecordStatus, Upsert
<1>8. Handles' = Handles /\ CalledReady' = CalledReady
  BY HandlesKept DEF GuestFrame
<1>9. \A j, b, p : Names(j, b, p)' <=> Names(j, b, p)
  BY <1>7, <1>8 DEF Names
<1>10. AgentTypeOK'
  <2>1. Tail(q) \in Seq(Spoken)
    BY <1>3
  <2>2. wire' \in [1 .. MaxVms -> Seq(Spoken)]
    BY <1>1, <1>7, <2>1 DEF AgentTypeOK
  <2>3. statuses' \subseteq Spoken
    BY <1>1, <1>5, <1>7 DEF AgentTypeOK
  <2> QED BY <1>1, <1>7, <2>2, <2>3 DEF AgentTypeOK, GuestFrame
<1>11. SpeechInv'
  <2>1. ASSUME NEW p \in 1 .. MaxVms, NEW k \in 1 .. Len(wire'[p])
        PROVE  /\ wire'[p][k].state = "ready" => p \in said'
               /\ wire'[p][k].boot >= 1 => Names(wire[p][k].inst, wire[p][k].boot, p)'
    <3>1. \E j \in 1 .. Len(wire[p]) : wire'[p][k] = wire[p][j]
      <4>1. CASE p = n
        <5>1. wire'[p] = Tail(q)
          BY <1>1, <1>7, <4>1 DEF AgentTypeOK
        <5>2. k + 1 \in 1 .. Len(q) /\ Tail(q)[k] = q[k + 1]
          BY <1>3, <5>1
        <5> QED BY <1>2, <4>1, <5>1, <5>2
      <4>2. CASE p # n
        BY <1>1, <1>7, <4>2 DEF AgentTypeOK
      <4> QED BY <4>1, <4>2
    <3>2. PICK e : e = wire'[p][k]
      OBVIOUS
    <3>3. /\ e.state = "ready" => p \in said
          /\ e.boot >= 1 => Names(e.inst, e.boot, p)
      BY <1>1, <3>1, <3>2 DEF SpeechInv
    <3> QED BY <1>7, <1>9, <3>2, <3>3
  <2>2. ASSUME NEW t \in statuses', t.boot >= 1, t.state = "ready"
        PROVE  \/ <<t.inst, t.boot>> \in old'
               \/ /\ t.boot <= host'.boots
                  /\ \A x \in Handles' : x[1] = t.inst /\ x[3] = t.boot => x[2] \in said'
    <3>1. CASE t = m
      BY <1>6, <1>7, <1>8, <2>2, <3>1 DEF Names
    <3>2. CASE t \in statuses
      BY <1>1, <1>7, <1>8, <2>2, <3>2 DEF SpeechInv
    <3> QED BY <1>7, <3>1, <3>2
  <2>3. \A v \in host'.vms : v.key \in {None, v.boot, -v.n} /\ Names(v.inst, v.boot, v.n)'
    BY <1>1, <1>7, <1>9 DEF SpeechInv
  <2>4. \A x \in Handles' : x[3] \in 1 .. host'.boots
    BY <1>1, <1>7, <1>8 DEF SpeechInv
  <2> QED BY <2>1, <2>2, <2>3, <2>4 DEF SpeechInv
<1>12. OwnerInv'
  BY <1>1, <1>7, OwnerKept DEF GuestFrame
<1>13. ConfigInv'
  BY <1>1, <1>7 DEF ConfigInv, GuestFrame
<1>14. ReadyMeansSaidSo'
  BY <1>7, <1>8 DEF AgentInv, ReadyMeansSaidSo
<1>15. HostInv(host')
  BY <1>1, <1>7
<1> QED BY <1>10, <1>11, <1>12, <1>13, <1>14, <1>15 DEF AgentInv

LEMMA GuestNextKeeps ==
    ASSUME AgentInv, GuestNext
    PROVE  AgentInv'
<1>1. GuestFrame
  BY DEF GuestNext, GuestFrame, mvars, avars
<1>2. CASE \E v \in host.vms : \E k \in HelloKinds : Hello(v, k)
  BY <1>1, <1>2, HelloKeeps
<1>3. CASE \E v \in host.vms : \/ PerformSetup(v) \/ SetupFails(v) \/ BecomesReady(v)
                               \/ BecomesUnhealthy(v) \/ WorkloadExits(v) \/ StuckExits(v)
  BY <1>1, <1>3, GuestKeeps
<1>4. CASE \E n \in 1 .. MaxVms : RecordStatus(n)
  BY <1>1, <1>4, RecordKeeps
<1> QED BY <1>2, <1>3, <1>4 DEF GuestNext

----------------------------------------------------------------------------
(* Beginnings: the first agent process and those after it.                 *)

LEMMA NotThereFields ==
    NotThere \in Instance /\ NotThere.n = 0 /\ NotThere.boot = 0 /\ NotThere.status = "none"
BY DEF NotThere, Instance, None

\* Nobody has a handle, and nothing is called ready.
LEMMA NoHandles ==
    ASSUME insts = [i \in Insts |-> NotThere], actors = <<>>
    PROVE  Handles = {} /\ CalledReady = {}
<1>1. \A i \in Insts : insts[i].n = None /\ insts[i].status = "none"
  BY NotThereFields DEF None
<1>2. Len(actors) = 0
  OBVIOUS
<1> QED BY <1>1, <1>2 DEF Handles, CalledReady

LEMMA AgentInvInit ==
    ASSUME AgentInit
    PROVE  AgentInv
<1>1. /\ host = EmptyHost /\ cfgs = [i \in Insts |-> None] /\ wire = [n \in 1 .. MaxVms |-> <<>>]
      /\ old = {<<t.inst, t.boot>> : t \in statuses} /\ statuses \in Remembered
  BY DEF AgentInit, GuestInit
<1>2. /\ insts = [i \in Insts |-> NotThere] /\ actors = <<>> /\ handles = [i \in Insts |-> None]
      /\ rev = 0 /\ mode \in {"legacy", "actors", "images"}
  BY DEF AgentInit, ManagerInit, ActorsInit
<1>3. Handles = {} /\ CalledReady = {}
  BY <1>2, NoHandles
<1>4. /\ host.vms = {} /\ host.table = [i \in Insts |-> NoEntry] /\ host.taps = {}
      /\ host.refs = [r \in Releases |-> 0] /\ host.kept = [r \in Releases |-> 0] /\ host.spawned = 0 /\ host.boots = 0
      /\ host.lost = {} /\ host \in Host
  <2>1. [i \in Insts |-> NoEntry] \in [Insts -> Entry] /\ [r \in Releases |-> 0] \in [Releases -> Nat]
    BY NoEntryFields
  <2> QED BY <1>1, <2>1 DEF EmptyHost, Host
<1>5. TableInv(host)
  BY <1>4, NoEntryFields DEF TableInv
<1>6. RefsInv(host)
  <2>1. IsFiniteSet({}) /\ Cardinality({}) = 0
    BY FS_EmptySet
  <2>2. \A r \in Releases : Users(host, r) = {} /\ host.refs[r] = 0 /\ host.kept[r] = 0
    BY <1>4, NoEntryFields, RuntimeAssumption DEF Users, None
  <2> QED BY <1>4, <2>1, <2>2 DEF RefsInv
<1>7. AgentTypeOK
  <2>1. statuses \subseteq Spoken
    BY <1>1 DEF Remembered, Spoken, States
  <2>2. handles \in [Insts -> 0 .. Len(actors)]
    BY <1>2 DEF None
  <2>3. insts \in [Insts -> Instance] /\ actors \in Seq(Actor)
    BY <1>2, NotThereFields
  <2>4. wire \in [1 .. MaxVms -> Seq(Spoken)] /\ cfgs \in [Insts -> Releases \cup {None}]
    BY <1>1
  <2> QED BY <1>2, <2>1, <2>2, <2>3, <2>4 DEF AgentTypeOK
<1>8. OwnerInv
  BY <1>2, <1>4, NoEntryFields, NotThereFields DEF OwnerInv
<1>9. SpeechInv
  BY <1>1, <1>3, <1>4 DEF SpeechInv
<1>10. ConfigInv
  BY <1>1, <1>4 DEF ConfigInv
<1>11. ReadyMeansSaidSo
  BY <1>3 DEF ReadyMeansSaidSo
<1> QED BY <1>4, <1>5, <1>6, <1>7, <1>8, <1>9, <1>10, <1>11 DEF AgentInv, HostInv

\* The boots of the process before are old, and its handles and connections are gone.
LEMMA BeginsKeeps ==
    ASSUME AgentInv, NEW f, f = AgentRestarts(host) \/ f = HostReboots(host), Begins(f)
    PROVE  AgentInv'
<1>1. HostInv(host) /\ AgentTypeOK /\ SpeechInv
  BY DEF AgentInv
<1>2. /\ insts' = [i \in Insts |-> NotThere] /\ actors' = <<>> /\ handles' = [i \in Insts |-> None]
      /\ rev' = 0 /\ mode' = mode /\ mode # "images"
  BY DEF Begins
<1>3. /\ cfgs' = [i \in Insts |-> None] /\ wire' = [n \in 1 .. MaxVms |-> <<>>]
      /\ old' = old \cup {<<t.inst, t.boot>> : t \in statuses} \cup {<<v.inst, v.boot>> : v \in host.vms}
      /\ statuses' = statuses
      /\ host' = Unheard(f)
  BY DEF Begins, ConnectionsLost, Unheard
<1>4. /\ HostInv(host')
      /\ host'.table = [i \in Insts |-> NoEntry]
      /\ host'.boots = 0
      /\ \A v \in host'.vms : v.n \in host'.lost /\ v.key = None
      /\ \A v \in host'.vms : \E w \in host.vms : v.inst = w.inst /\ v.boot = w.boot /\ v.n = w.n
  BY <1>1, <1>3, RestartKeeps
<1>5. Handles' = {} /\ CalledReady' = {}
  <2>1. \A i \in Insts : insts'[i].n = None /\ insts'[i].status = "none"
    BY <1>2, NotThereFields DEF None
  <2>2. Len(actors') = 0
    BY <1>2
  <2> QED BY <2>1, <2>2 DEF Handles, CalledReady
<1>6. AgentTypeOK'
  <2>1. handles' \in [Insts -> 0 .. Len(actors')]
    BY <1>2 DEF None
  <2>2. insts' \in [Insts -> Instance] /\ actors' \in Seq(Actor)
    BY <1>2, NotThereFields
  <2>3. wire' \in [1 .. MaxVms -> Seq(Spoken)] /\ cfgs' \in [Insts -> Releases \cup {None}]
    BY <1>3
  <2> QED BY <1>1, <1>2, <1>3, <2>1, <2>2, <2>3 DEF AgentTypeOK
<1>7. OwnerInv'
  BY <1>2, <1>4, NoEntryFields, NotThereFields DEF OwnerInv
<1>8. SpeechInv'
  <2>1. \A v \in host'.vms : <<v.inst, v.boot>> \in old'
    BY <1>3, <1>4
  <2>2. \A v \in host'.vms : Names(v.inst, v.boot, v.n)'
    BY <2>1 DEF Names
  <2> QED BY <1>3, <1>4, <1>5, <2>2 DEF SpeechInv
<1>9. ConfigInv'
  BY <1>3, <1>4 DEF ConfigInv
<1>10. ReadyMeansSaidSo'
  BY <1>5 DEF ReadyMeansSaidSo
<1> QED BY <1>4, <1>6, <1>7, <1>8, <1>9, <1>10 DEF AgentInv

----------------------------------------------------------------------------
(* The polling loop.                                                       *)

\* A status of a boot somebody has a handle of counts for the process of the handle.
LEMMA RecordedMeansSaid ==
    ASSUME SpeechInv, NEW x \in Handles, "ready" \in GetBootStatus(x[1], x[3])
    PROVE  x[2] \in said \/ <<x[1], x[3]>> \in old
<1>1. PICK t \in statuses : t.inst = x[1] /\ t.boot = x[3] /\ t.state = "ready"
  BY DEF GetBootStatus
<1>2. x[3] >= 1
  BY DEF SpeechInv
<1> QED BY <1>1, <1>2 DEF SpeechInv

\* Nothing but faults happens to the host.
LEMMA SpendEvolves ==
    ASSUME HostInv(host), host' = host \/ host' = Spend(host), NEW i
    PROVE  /\ HostInv(host') /\ Evolves(host, host', i)
           /\ host'.table = host.table /\ host'.vms = host.vms /\ host'.lost = host.lost
<1>1. host \in Host /\ host.boots \in Nat
  BY DEF HostInv, Host
<1>2. /\ HostInv(Spend(host)) /\ Spend(host).vms = host.vms /\ Spend(host).boots = host.boots
      /\ Spend(host).lost = host.lost /\ Spend(host).table = host.table
  BY <1>1, SpendKeeps, SpendFields
<1> QED BY <1>1, <1>2 DEF Evolves

\* The manager reads statuses and health: instances keep their VMs.
LEMMA StatusesMove ==
    ASSUME AgentInv, mode = "legacy", UNCHANGED <<actors, handles, rev, mode>>,
           UNCHANGED <<cfgs, wire, statuses, old, said>>,
           host' = host \/ host' = Spend(host), insts' \in [Insts -> Instance],
           \A i \in Insts :
              /\ insts'[i].n = insts[i].n /\ insts'[i].boot = insts[i].boot
              /\ insts'[i].status \in {"booting", "ready"} => insts[i].status \in {"booting", "ready"}
              /\ insts'[i].status = "ready" =>
                    insts[i].status = "ready" \/ "ready" \in GetBootStatus(i, insts[i].boot)
    PROVE  AgentInv'
<1>1. HostInv(host) /\ AgentTypeOK /\ SpeechInv /\ ConfigInv /\ OwnerInv /\ ReadyMeansSaidSo
  BY DEF AgentInv
<1>2. /\ HostInv(host') /\ Evolves(host, host', 1)
      /\ host'.table = host.table /\ host'.vms = host.vms /\ host'.lost = host.lost
  BY <1>1, SpendEvolves
<1>3. Handles' = Handles
  BY DEF Handles
<1>4. SpeechInv'
  BY <1>1, <1>2, <1>3, SpeechKept
<1>5. OwnerInv'
  <2>1. actors' = <<>> /\ Len(actors') = 0
    BY <1>1 DEF OwnerInv
  <2>2. \A i \in Insts : insts'[i].n = host'.table[i].n
    BY <1>1, <1>2 DEF OwnerInv
  <2>3. \A i \in Insts : insts'[i].status \in {"booting", "ready"} => insts'[i].n # None
    BY <1>1 DEF OwnerInv
  <2> QED BY <2>1, <2>2, <2>3 DEF OwnerInv
<1>6. ConfigInv'
  BY <1>1, <1>2 DEF ConfigInv
<1>7. AgentTypeOK'
  BY <1>1 DEF AgentTypeOK
<1>8. ASSUME NEW i \in Insts, insts'[i].status = "ready"
      PROVE  insts'[i].n \in said' \/ <<i, insts'[i].boot>> \in old'
  <2>1. CASE insts[i].status = "ready"
    <3>1. PICK c : c = <<i, insts[i].n, insts[i].boot>>
      OBVIOUS
    <3>2. c \in CalledReady /\ c[1] = i /\ c[2] = insts[i].n /\ c[3] = insts[i].boot
      BY <2>1, <3>1 DEF CalledReady
    <3> QED BY <1>1, <3>2 DEF ReadyMeansSaidSo
  <2>2. CASE "ready" \in GetBootStatus(i, insts[i].boot)
    <3>1. PICK x : x = <<i, insts[i].n, insts[i].boot>>
      OBVIOUS
    <3>2. insts[i].n # None
      BY <1>1, <1>8 DEF OwnerInv
    <3>3. x \in Handles /\ x[1] = i /\ x[2] = insts[i].n /\ x[3] = insts[i].boot
      BY <3>1, <3>2 DEF Handles
    <3> QED BY <1>1, <2>2, <3>3, RecordedMeansSaid
  <2> QED BY <1>8, <2>1, <2>2
<1>9. ReadyMeansSaidSo'
  <2>1. Len(actors') = 0
    BY <1>1 DEF OwnerInv
  <2> QED BY <1>8, <2>1 DEF ReadyMeansSaidSo, CalledReady
<1> QED BY <1>2, <1>4, <1>5, <1>6, <1>7, <1>9 DEF AgentInv

\* The manager stops an instance, or starts it after that: it has the handle of what the
\* table has, and the configuration waits only for that VM.
LEMMA ManagerMoves ==
    ASSUME AgentInv, mode = "legacy", NEW i \in Insts, NEW x \in Instance, NEW e, NEW c,
           Evolves(host, host', i), host'.table = [host.table EXCEPT ![i] = e],
           insts' = [insts EXCEPT ![i] = x], cfgs' = [cfgs EXCEPT ![i] = c], x.status # "ready",
           \/ x.n = None /\ x.status # "booting" /\ e = NoEntry /\ c = None
           \/ /\ x.n = host.spawned + 1 /\ x.boot = host.boots + 1 /\ host'.boots = host.boots + 1
              /\ c \in Releases /\ e = [n |-> host.spawned + 1, boot |-> host.boots + 1, rel |-> c],
           UNCHANGED <<actors, handles, rev, mode, wire, statuses, old, said>>
    PROVE  AgentInv'
<1>1. HostInv(host) /\ AgentTypeOK /\ SpeechInv /\ ConfigInv /\ OwnerInv /\ ReadyMeansSaidSo
  BY DEF AgentInv
<1>2. HostInv(host') /\ host.lost \subseteq host'.lost /\ host.spawned \in Nat /\ host \in Host
  BY <1>1 DEF Evolves, HostInv, Host
<1>3. /\ host'.table[i] = e /\ insts'[i] = x /\ cfgs'[i] = c
      /\ \A j \in Insts \ {i} : host'.table[j] = host.table[j] /\ insts'[j] = insts[j] /\ cfgs'[j] = cfgs[j]
  BY <1>1, <1>2 DEF AgentTypeOK, Host
<1>4. actors = <<>> /\ Len(actors) = 0
  BY <1>1 DEF OwnerInv
<1>5. ASSUME NEW z \in Handles'
      PROVE  \/ z \in Handles
             \/ /\ z = <<i, host.spawned + 1, host.boots + 1>>
                /\ host'.boots = host.boots + 1
  <2>1. PICK j \in Insts : insts'[j].n # None /\ z = <<j, insts'[j].n, insts'[j].boot>>
    BY <1>4 DEF Handles
  <2>2. CASE j = i
    BY <1>3, <2>1, <2>2
  <2>3. CASE j # i
    BY <1>3, <2>1, <2>3 DEF Handles
  <2> QED BY <2>2, <2>3
<1>6. SpeechInv'
  BY <1>1, <1>5, SpeechKept
<1>7. AgentTypeOK'
  <2>1. insts' \in [Insts -> Instance] /\ cfgs' \in [Insts -> Releases \cup {None}]
    BY <1>1 DEF AgentTypeOK
  <2> QED BY <1>1, <2>1 DEF AgentTypeOK
<1>8. OwnerInv'
  <2>1. \A j \in Insts : insts'[j].n = host'.table[j].n
    <3>1. x.n = e.n
      BY NoEntryFields DEF None
    <3> QED BY <1>1, <1>3, <3>1 DEF OwnerInv
  <2>2. \A j \in Insts : insts'[j].status \in {"booting", "ready"} => insts'[j].n # None
    BY <1>1, <1>2, <1>3 DEF OwnerInv, None
  <2> QED BY <1>4, <2>1, <2>2 DEF OwnerInv
<1>9. ConfigInv'
  <2>1. \A j \in Insts : cfgs'[j] # None => host'.table[j].rel = cfgs'[j]
    BY <1>1, <1>3 DEF ConfigInv
  <2>2. ASSUME NEW v \in host'.vms, v.n \notin host'.lost, NEW d \in v.conf
        PROVE  d.inst = v.inst /\ d.rel = v.rel /\ d.mounts = Volumes[v.rel]
    <3>1. v \in host.vms
      BY <2>2 DEF Evolves, Fresh
    <3> QED BY <1>1, <1>2, <2>2, <3>1 DEF ConfigInv
  <2> QED BY <2>1, <2>2 DEF ConfigInv
<1>10. ReadyMeansSaidSo'
  <2>1. ASSUME NEW z \in CalledReady'
        PROVE  z \in CalledReady
    <3>1. PICK j \in Insts : insts'[j].status = "ready" /\ z = <<j, insts'[j].n, insts'[j].boot>>
      BY <1>4 DEF CalledReady
    <3>2. j # i
      BY <1>3, <3>1
    <3> QED BY <1>3, <3>1, <3>2 DEF CalledReady
  <2> QED BY <1>1, <2>1 DEF ReadyMeansSaidSo
<1> QED BY <1>2, <1>6, <1>7, <1>8, <1>9, <1>10 DEF AgentInv

\* The VM of an instance, if it has one, is stopped: the table says whether it has one.
LEMMA ManagerStops ==
    ASSUME AgentInv, mode = "legacy", NEW i \in Insts
    PROVE  (IF insts[i].n = None THEN host ELSE StopVm(host, i)) = StopVm(host, i)
<1>1. CASE insts[i].n = None
  <2>1. host.table[i].n = 0
    BY <1>1 DEF AgentInv, OwnerInv, None
  <2>2. host.table[i] = NoEntry
    BY <2>1 DEF AgentInv, HostInv, TableInv
  <2> QED BY <1>1, <2>2 DEF StopVm
<1> QED BY <1>1

LEMMA StopEvolves ==
    ASSUME HostInv(host), NEW i \in Insts, NEW j, NEW g, g = StopVm(host, i)
    PROVE  /\ Evolves(host, g, j) /\ HostInv(g) /\ g.vms \subseteq host.vms /\ g.lost = host.lost
           /\ g.boots = host.boots /\ g.spawned = host.spawned
           /\ g.table = [host.table EXCEPT ![i] = NoEntry]
<1>1. host.boots \in Nat
  BY DEF HostInv, Host
<1>2. /\ HostInv(g)
      /\ g.vms \subseteq host.vms /\ g.boots = host.boots /\ g.spawned = host.spawned /\ g.lost = host.lost
      /\ g.table = [host.table EXCEPT ![i] = NoEntry]
  BY StopVmKeeps
<1> QED BY <1>1, <1>2 DEF Evolves

\* A start after a stop, whatever the start returns.
LEMMA StartEvolves ==
    ASSUME HostInv(host), NEW i \in Insts, NEW r \in Releases, NEW g,
           Evolves(host, g, i), g.vms \subseteq host.vms, g.boots = host.boots, g.spawned = host.spawned,
           NEW s \in StartVm(g, i, r)
    PROVE  /\ Evolves(host, s.host, i) /\ s.host.boots = host.boots + 1 /\ s.ok \in BOOLEAN
           /\ s.ok => /\ g.table[i] = NoEntry
                      /\ s.host.table = [g.table EXCEPT ![i] =
                            [n |-> host.spawned + 1, boot |-> host.boots + 1, rel |-> r]]
           /\ ~s.ok => s.host.table = g.table
<1>1. host.boots \in Nat
  BY DEF HostInv, Host
<1>2. HostInv(g) /\ host.lost \subseteq g.lost
  BY DEF Evolves
<1>3. /\ HostInv(s.host) /\ s.host.boots = g.boots + 1 /\ g.lost \subseteq s.host.lost
      /\ s.ok \in BOOLEAN
      /\ s.ok => /\ g.table[i] = NoEntry
                 /\ s.host.table = [g.table EXCEPT ![i] =
                       [n |-> g.spawned + 1, boot |-> g.boots + 1, rel |-> r]]
      /\ ~s.ok => s.host.table = g.table
      /\ \A v \in s.host.vms : v \in g.vms \/ Fresh(g, v, i)
  BY <1>2, StartVmEffect
<1>4. \A v \in s.host.vms : v \in host.vms \/ Fresh(host, v, i)
  BY <1>3 DEF Fresh
<1> QED BY <1>1, <1>2, <1>3, <1>4 DEF Evolves

LEMMA ManagerStarts ==
    ASSUME AgentInv, mode = "legacy", NEW i \in Insts, NEW r \in Releases,
           StartInstance(StopVm(host, i), i, r),
           UNCHANGED <<actors, handles, rev, mode, wire, statuses, old, said>>
    PROVE  AgentInv'
<1>1. HostInv(host) /\ AgentTypeOK /\ host \in Host /\ host.spawned \in Nat /\ host.boots \in Nat
  BY DEF AgentInv, HostInv, Host
<1>2. PICK g : g = StopVm(host, i)
  OBVIOUS
<1>3. /\ Evolves(host, g, i) /\ HostInv(g) /\ g.vms \subseteq host.vms /\ g.lost = host.lost
      /\ g.boots = host.boots /\ g.spawned = host.spawned
      /\ g.table = [host.table EXCEPT ![i] = NoEntry]
  BY <1>1, <1>2, StopEvolves
<1>4. g.table[i] = NoEntry /\ \A e : [g.table EXCEPT ![i] = e] = [host.table EXCEPT ![i] = e]
  BY <1>1, <1>3 DEF Host
<1>5. ASSUME NEW s \in StartVm(g, i, r), host' = s.host, insts' = [insts EXCEPT ![i] = Started(i, r, s)],
             cfgs' = IF s.ok THEN AddConfig(i, r) ELSE RemoveConfig(i)
      PROVE  AgentInv'
  <2>1. /\ Evolves(host, s.host, i) /\ s.host.boots = host.boots + 1 /\ s.ok \in BOOLEAN
        /\ s.ok => /\ g.table[i] = NoEntry
                   /\ s.host.table = [g.table EXCEPT ![i] =
                         [n |-> host.spawned + 1, boot |-> host.boots + 1, rel |-> r]]
        /\ ~s.ok => s.host.table = g.table
    <3>1. /\ HostInv(host) /\ i \in Insts /\ r \in Releases /\ Evolves(host, g, i)
          /\ g.vms \subseteq host.vms /\ g.boots = host.boots /\ g.spawned = host.spawned
      BY <1>1, <1>3
    <3> QED BY ONLY <1>5, <3>1, StartEvolves
  <2>2. PICK x : x = Started(i, r, s)
    OBVIOUS
  <2>3. CASE s.ok
    <3>1. PICK e : e = [n |-> host.spawned + 1, boot |-> host.boots + 1, rel |-> r]
      OBVIOUS
    <3>2. host'.table = [host.table EXCEPT ![i] = e] /\ host'.boots = host.boots + 1
      BY <1>4, <1>5, <2>1, <2>3, <3>1
    <3>3. host'.table[i] = e /\ e.n = host.spawned + 1 /\ e.boot = host.boots + 1
      BY <1>1, <3>1, <3>2 DEF Host
    <3>4. /\ x \in Instance /\ x.status = "booting" /\ x.n = host.spawned + 1 /\ x.boot = host.boots + 1
      <4>1. x = [rel |-> r, status |-> "booting", reported |-> "none", boot |-> e.boot, n |-> e.n]
        BY <1>5, <2>2, <2>3, <3>3 DEF Started
      <4> QED BY <1>1, <3>3, <4>1 DEF Instance
    <3>5. insts' = [insts EXCEPT ![i] = x] /\ cfgs' = [cfgs EXCEPT ![i] = r]
      BY <1>5, <2>2, <2>3 DEF AddConfig
    <3>6. Evolves(host, host', i)
      BY <1>5, <2>1
    <3> QED BY <3>1, <3>2, <3>4, <3>5, <3>6, ManagerMoves
  <2>4. CASE ~s.ok
    <3>1. host'.table = [host.table EXCEPT ![i] = NoEntry]
      BY <1>3, <1>5, <2>1, <2>4
    <3>2. x \in Instance /\ x.status = "failed" /\ x.n = None
      <4>1. x = [rel |-> r, status |-> "failed", reported |-> "none", boot |-> None, n |-> None]
        BY <2>2, <2>4 DEF Started
      <4> QED BY <4>1 DEF Instance, None
    <3>3. insts' = [insts EXCEPT ![i] = x] /\ cfgs' = [cfgs EXCEPT ![i] = None]
      BY <1>5, <2>2, <2>4 DEF RemoveConfig
    <3>4. Evolves(host, host', i)
      BY <1>5, <2>1
    <3> QED BY <3>1, <3>2, <3>3, <3>4, ManagerMoves
  <2> QED BY <2>1, <2>3, <2>4
<1>6. ASSUME host' = Spend(g), insts' = [insts EXCEPT ![i] = Started(i, r, [ok |-> FALSE])],
             cfgs' = RemoveConfig(i)
      PROVE  AgentInv'
  <2>1. PICK x : x = Started(i, r, [ok |-> FALSE])
    OBVIOUS
  <2>2. x \in Instance /\ x.status = "failed" /\ x.n = None
    <3>1. x = [rel |-> r, status |-> "failed", reported |-> "none", boot |-> None, n |-> None]
      BY <2>1 DEF Started
    <3> QED BY <3>1 DEF Instance, None
  <2>3. /\ HostInv(Spend(g)) /\ Spend(g).vms = g.vms /\ Spend(g).boots = g.boots
        /\ Spend(g).lost = g.lost /\ Spend(g).table = g.table
    BY <1>3, SpendKeeps, SpendFields DEF HostInv
  <2>4. Evolves(host, host', i)
    BY <1>1, <1>3, <1>6, <2>3 DEF Evolves
  <2>5. host'.table = [host.table EXCEPT ![i] = NoEntry]
    BY <1>3, <1>6, <2>3
  <2>6. insts' = [insts EXCEPT ![i] = x] /\ cfgs' = [cfgs EXCEPT ![i] = None]
    BY <1>6, <2>1 DEF RemoveConfig
  <2> QED BY <2>2, <2>4, <2>5, <2>6, ManagerMoves
<1> QED BY <1>2, <1>5, <1>6 DEF StartInstance

\* Nothing of what the invariant speaks of changes.
LEMMA StutterKeeps ==
    ASSUME AgentInv, UNCHANGED <<gvars, insts, actors, handles, rev, mode>>
    PROVE  AgentInv'
<1>1. UNCHANGED <<host, cfgs, wire, statuses, old, said>>
  BY DEF gvars
<1>2. Handles' = Handles /\ CalledReady' = CalledReady
  BY HandlesKept
<1>3. \A j, b, p : Names(j, b, p)' <=> Names(j, b, p)
  BY <1>1, <1>2 DEF Names
<1>4. AgentTypeOK' /\ HostInv(host')
  BY <1>1 DEF AgentInv, AgentTypeOK
<1>5. OwnerInv'
  BY <1>1, OwnerKept DEF AgentInv
<1>6. SpeechInv'
  BY <1>1, <1>2, <1>3 DEF AgentInv, SpeechInv
<1>7. ConfigInv' /\ ReadyMeansSaidSo'
  BY <1>1, <1>2 DEF AgentInv, ConfigInv, ReadyMeansSaidSo
<1> QED BY <1>4, <1>5, <1>6, <1>7 DEF AgentInv

LEMMA StopInstanceKeeps ==
    ASSUME AgentInv, mode = "legacy", NEW i \in Insts, StopInstance(i),
           UNCHANGED <<actors, handles, rev, mode, wire, statuses, old, said>>
    PROVE  AgentInv'
<1>1. HostInv(host) /\ AgentTypeOK
  BY DEF AgentInv
<1>2. CASE insts[i] = NotThere
  BY <1>2, StutterKeeps DEF StopInstance, gvars
<1>3. CASE insts[i] # NotThere
  <2>1. host' = StopVm(host, i)
    BY <1>3, ManagerStops DEF StopInstance
  <2>2. Evolves(host, host', i) /\ host'.table = [host.table EXCEPT ![i] = NoEntry]
    BY <1>1, <2>1, StopEvolves
  <2>3. PICK x : x = [insts[i] EXCEPT !.status = "stopped", !.n = None]
    OBVIOUS
  <2>4. x \in Instance /\ x.status = "stopped" /\ x.n = None
    <3>1. insts[i] \in Instance
      BY <1>1 DEF AgentTypeOK
    <3> QED BY <2>3, <3>1 DEF Instance, None
  <2>5. insts' = [insts EXCEPT ![i] = x] /\ cfgs' = [cfgs EXCEPT ![i] = None]
    BY <1>1, <1>3, <2>3 DEF StopInstance, RemoveConfig, AgentTypeOK, Instance
  <2> QED BY <2>2, <2>4, <2>5, ManagerMoves
<1> QED BY <1>2, <1>3

LEMMA ApplyKeeps ==
    ASSUME AgentInv, mode = "legacy", NEW i \in Insts, ApplyStop(i) \/ ApplyWant(i),
           UNCHANGED <<actors, handles, rev, mode>>
    PROVE  AgentInv'
<1>1. UNCHANGED <<actors, handles, rev, mode, wire, statuses, old, said>>
  BY DEF ApplyStop, ApplyWant
<1>2. CASE StopInstance(i)
  BY <1>1, <1>2, StopInstanceKeeps
<1>3. ASSUME NEW r \in Releases, EnsureInstance(i, r)
      PROVE  AgentInv'
  <2>1. (IF insts[i].n = None THEN host ELSE StopVm(host, i)) = StopVm(host, i)
    BY ManagerStops
  <2>2. CASE EnsureNew(i, r)
    <3>1. insts[i].n = None
      BY <2>2, NotThereFields DEF EnsureNew, None
    <3>2. host = StopVm(host, i)
      BY <2>1, <3>1
    <3>3. StartInstance(StopVm(host, i), i, r)
      BY <2>2, <3>2 DEF EnsureNew
    <3> QED BY <1>1, <3>3, ManagerStarts
  <2>3. CASE EnsureSame(i, r)
    BY <1>1, <2>3, StutterKeeps DEF EnsureSame, gvars
  <2>4. CASE EnsureChanged(i, r)
    <3>1. StartInstance(StopVm(host, i), i, r)
      BY <2>1, <2>4 DEF EnsureChanged
    <3> QED BY <1>1, <3>1, ManagerStarts
  <2> QED BY <1>3, <2>2, <2>3, <2>4 DEF EnsureInstance
<1> QED BY <1>2, <1>3 DEF ApplyStop, ApplyWant, Runs

\* A report changes what has been reported and no more.
LEMMA ReportedFields ==
    ASSUME NEW f \in [Insts -> Instance], NEW done
    PROVE  /\ Reported(f, done) \in [Insts -> Instance]
           /\ \A i \in Insts : /\ Reported(f, done)[i].n = f[i].n /\ Reported(f, done)[i].boot = f[i].boot
                               /\ Reported(f, done)[i].status = f[i].status
<1> SUFFICES ASSUME NEW i \in Insts
             PROVE  /\ Reported(f, done)[i] \in Instance
                    /\ Reported(f, done)[i].n = f[i].n /\ Reported(f, done)[i].boot = f[i].boot
                    /\ Reported(f, done)[i].status = f[i].status
  BY DEF Reported
<1>1. PICK x : x = f[i]
  OBVIOUS
<1>2. x \in Instance
  BY <1>1
<1>3. /\ [x EXCEPT !.reported = x.status] \in Instance /\ [x EXCEPT !.reported = x.status].n = x.n
      /\ [x EXCEPT !.reported = x.status].boot = x.boot /\ [x EXCEPT !.reported = x.status].status = x.status
  BY <1>2 DEF Instance
<1> QED BY <1>1, <1>2, <1>3 DEF Reported

\* What the manager makes of statuses and health.
LEMMA SeenFields ==
    ASSUME NEW x \in Instance, NEW i, NEW ok,
           NEW y, y = FromHealth(FromBootStatus(x, i), ok)
    PROVE  /\ y \in Instance /\ y.n = x.n /\ y.boot = x.boot
           /\ y.status \in {"booting", "ready"} => x.status \in {"booting", "ready"}
           /\ y.status = "ready" => x.status = "ready" \/ "ready" \in GetBootStatus(i, x.boot)
<1>1. PICK z : z = FromBootStatus(x, i)
  OBVIOUS
<1>2. ASSUME NEW u \in Instance, NEW s \in {"ready", "failed"}
      PROVE  /\ [u EXCEPT !.status = s] \in Instance /\ [u EXCEPT !.status = s].n = u.n
             /\ [u EXCEPT !.status = s].boot = u.boot /\ [u EXCEPT !.status = s].status = s
  BY DEF Instance
<1>3. \/ z = x
      \/ x.status = "booting" /\ z = [x EXCEPT !.status = "ready"] /\ "ready" \in GetBootStatus(i, x.boot)
      \/ x.status = "booting" /\ z = [x EXCEPT !.status = "failed"]
  BY <1>1 DEF FromBootStatus
<1>4. /\ z \in Instance /\ z.n = x.n /\ z.boot = x.boot
      /\ z.status \in {"booting", "ready"} => x.status \in {"booting", "ready"}
      /\ z.status = "ready" => x.status = "ready" \/ "ready" \in GetBootStatus(i, x.boot)
  BY <1>2, <1>3
<1>5. y = z \/ y = [z EXCEPT !.status = "failed"]
  BY <1>1 DEF FromHealth
<1> QED BY <1>2, <1>4, <1>5

LEMMA ManagerNextKeeps ==
    ASSUME AgentInv, ManagerNext
    PROVE  AgentInv'
<1>1. mode = "legacy" /\ UNCHANGED <<actors, handles, rev, mode>> /\ insts \in [Insts -> Instance]
  BY DEF ManagerNext, avars, AgentInv, AgentTypeOK
<1>2. CASE Reconcile
  BY <1>1, <1>2, StutterKeeps DEF Reconcile
<1>3. CASE \E i \in Insts : ApplyStop(i) \/ ApplyWant(i)
  BY <1>1, <1>3, ApplyKeeps
<1>4. CASE FinishPlan
  <2>1. PICK done : insts' = Reported(insts, done)
    BY <1>4 DEF FinishPlan
  <2>2. /\ insts' \in [Insts -> Instance]
        /\ \A i \in Insts : /\ insts'[i].n = insts[i].n /\ insts'[i].boot = insts[i].boot
                            /\ insts'[i].status = insts[i].status
    BY <1>1, <2>1, ReportedFields
  <2>3. UNCHANGED <<cfgs, wire, statuses, old, said>> /\ host' = host
    BY <1>4 DEF FinishPlan, gvars
  <2> QED BY <1>1, <2>2, <2>3, StatusesMove
<1>5. CASE HealthTick
  <2>1. PICK bad : \E done :
          insts' = Reported([i \in Insts |-> FromHealth(
                      [k \in Insts |-> FromBootStatus(insts[k], k)][i], i \notin bad)], done)
    BY <1>5 DEF HealthTick
  <2>2. PICK after : after = [i \in Insts |-> FromHealth(
                      [k \in Insts |-> FromBootStatus(insts[k], k)][i], i \notin bad)]
    OBVIOUS
  <2>3. PICK done : insts' = Reported(after, done)
    BY <2>1, <2>2
  <2>4. ASSUME NEW i \in Insts
        PROVE  /\ after[i] \in Instance /\ after[i].n = insts[i].n /\ after[i].boot = insts[i].boot
               /\ after[i].status \in {"booting", "ready"} => insts[i].status \in {"booting", "ready"}
               /\ after[i].status = "ready" =>
                     insts[i].status = "ready" \/ "ready" \in GetBootStatus(i, insts[i].boot)
    <3>1. PICK x : x = insts[i]
      OBVIOUS
    <3>2. x \in Instance
      BY <1>1, <3>1
    <3>3. PICK ok : ok = (i \notin bad)
      OBVIOUS
    <3>4. PICK y : y = FromHealth(FromBootStatus(x, i), ok)
      OBVIOUS
    <3>5. after[i] = y
      BY <2>2, <3>1, <3>3, <3>4
    <3>6. /\ y \in Instance /\ y.n = x.n /\ y.boot = x.boot
          /\ y.status \in {"booting", "ready"} => x.status \in {"booting", "ready"}
          /\ y.status = "ready" => x.status = "ready" \/ "ready" \in GetBootStatus(i, x.boot)
      BY <3>2, <3>4, SeenFields
    <3> QED BY <3>1, <3>5, <3>6
  <2>5. after \in [Insts -> Instance]
    BY <2>2, <2>4
  <2>6. /\ insts' \in [Insts -> Instance]
        /\ \A i \in Insts : /\ insts'[i].n = after[i].n /\ insts'[i].boot = after[i].boot
                            /\ insts'[i].status = after[i].status
    BY <2>3, <2>5, ReportedFields
  <2>7. UNCHANGED <<cfgs, wire, statuses, old, said>> /\ (host' = host \/ host' = Spend(host))
    BY <1>5 DEF HealthTick
  <2>8. \A i \in Insts :
          /\ insts'[i].n = insts[i].n /\ insts'[i].boot = insts[i].boot
          /\ insts'[i].status \in {"booting", "ready"} => insts[i].status \in {"booting", "ready"}
          /\ insts'[i].status = "ready" =>
                insts[i].status = "ready" \/ "ready" \in GetBootStatus(i, insts[i].boot)
    BY <2>4, <2>6
  <2> QED BY <1>1, <2>6, <2>7, <2>8, StatusesMove
<1> QED BY <1>2, <1>3, <1>4, <1>5 DEF ManagerNext, ManagerStep

----------------------------------------------------------------------------
(* The instance actors.                                                    *)

\* What an actor x and the host may be after a message: x still looks after the VM of its
\* instance, or has given it up, or its instance has none, or it has just started one.
Result(x, g, y) ==
    /\ y \in Actor /\ y.inst = x.inst /\ Evolves(host, g, x.inst)
    /\ y.phase \in {"booting", "ready", "draining"} <=> y.n # None
    /\ \A j \in Insts \ {x.inst} : g.table[j] = host.table[j]
    /\ \/ /\ g.table = host.table
          /\ \/ y.n = x.n /\ y.boot = x.boot /\ (y.phase = x.phase \/ x.n # None)
             \/ y.n = None /\ y.phase \in {"failed", "stopped"}
       \/ g.table[x.inst] = NoEntry /\ y.n = None
       \/ /\ g.table[x.inst].n = host.spawned + 1 /\ y.n = host.spawned + 1
          /\ y.boot = host.boots + 1 /\ g.boots = host.boots + 1
    /\ y.phase = "ready" => /\ y.n = x.n /\ y.boot = x.boot /\ x.n # None
                            /\ x.phase = "ready" \/ "ready" \in GetBootStatus(x.inst, x.boot)

LEMMA ActorMoves ==
    ASSUME AgentInv, mode = "actors", NEW a \in 1 .. Len(actors), NEW y,
           Result(actors[a], host', y), actors' = [actors EXCEPT ![a] = y],
           UNCHANGED <<insts, handles, rev, mode, cfgs, wire, statuses, old, said>>
    PROVE  AgentInv'
<1>1. HostInv(host) /\ AgentTypeOK /\ SpeechInv /\ ConfigInv /\ OwnerInv /\ ReadyMeansSaidSo
  BY DEF AgentInv
<1>2. PICK x : x = actors[a]
  OBVIOUS
<1>3. PICK i : i = x.inst
  OBVIOUS
<1>4. x \in Actor /\ i \in Insts /\ actors \in Seq(Actor) /\ y \in Actor /\ y.inst = i
  <2>1. actors \in Seq(Actor)
    BY <1>1 DEF AgentTypeOK
  <2>2. x \in Actor
    BY <1>2, <2>1
  <2>3. i \in Insts
    BY <1>3, <2>2 DEF Actor
  <2>4. y \in Actor /\ y.inst = i
    BY <1>2, <1>3 DEF Result
  <2> QED BY <2>1, <2>2, <2>3, <2>4
<1>5. /\ Len(actors') = Len(actors) /\ actors' \in Seq(Actor) /\ actors'[a] = y
      /\ \A b \in 1 .. Len(actors) : b # a => actors'[b] = actors[b]
  BY <1>4
<1>6. HostInv(host') /\ host.lost \subseteq host'.lost /\ Evolves(host, host', i)
  BY <1>2, <1>3 DEF Result, Evolves
<1>7. ASSUME NEW z \in Handles'
      PROVE  \/ z \in Handles
             \/ /\ z = <<i, host.spawned + 1, host.boots + 1>>
                /\ host'.boots = host.boots + 1
  <2>1. CASE \E j \in Insts : insts[j].n # None /\ z = <<j, insts[j].n, insts[j].boot>>
    BY <2>1 DEF Handles
  <2>2. CASE \E b \in 1 .. Len(actors') :
               actors'[b].n # None /\ z = <<actors'[b].inst, actors'[b].n, actors'[b].boot>>
    <3>1. PICK b \in 1 .. Len(actors) :
               actors'[b].n # None /\ z = <<actors'[b].inst, actors'[b].n, actors'[b].boot>>
      BY <1>5, <2>2
    <3>2. CASE b # a
      BY <1>5, <3>1, <3>2 DEF Handles
    <3>3. CASE b = a
      <4>1. y.n # None /\ z = <<i, y.n, y.boot>>
        BY <1>4, <1>5, <3>1, <3>3
      <4>2. CASE y.n = x.n /\ y.boot = x.boot
        BY <1>2, <1>3, <4>1, <4>2 DEF Handles
      <4>3. CASE y.n = host.spawned + 1 /\ y.boot = host.boots + 1 /\ host'.boots = host.boots + 1
        BY <4>1, <4>3
      <4> QED BY <1>2, <4>1, <4>2, <4>3 DEF Result
    <3> QED BY <3>2, <3>3
  <2> QED BY <2>1, <2>2 DEF Handles
<1>8. SpeechInv'
  BY <1>1, <1>6, <1>7, SpeechKept
<1>9. AgentTypeOK'
  BY <1>1, <1>5 DEF AgentTypeOK
<1>10. OwnerInv'
  <2>1. ASSUME NEW j \in Insts, host'.table[j] # NoEntry
        PROVE  \E b \in 1 .. Len(actors') : Keeps(actors[b], j)'
    <3>1. CASE j # i
      <4>1. host'.table[j] = host.table[j]
        BY <1>2, <1>3, <2>1, <3>1 DEF Result
      <4>2. PICK b \in 1 .. Len(actors) : Keeps(actors[b], j)
        BY <1>1, <2>1, <4>1 DEF OwnerInv
      <4>3. b # a
        BY <1>2, <1>3, <3>1, <4>2 DEF Keeps
      <4> QED BY <1>5, <4>1, <4>2, <4>3 DEF Keeps
    <3>2. CASE j = i
      <4>1. CASE /\ host'.table = host.table
                 /\ y.n = x.n /\ (y.phase = x.phase \/ x.n # None)
        <5>1. PICK b \in 1 .. Len(actors) : Keeps(actors[b], j)
          BY <1>1, <2>1, <4>1 DEF OwnerInv
        <5>2. CASE b # a
          BY <1>5, <4>1, <5>1, <5>2 DEF Keeps
        <5>3. CASE b = a
          BY <1>2, <1>3, <1>4, <1>5, <4>1, <5>1, <5>3 DEF Keeps
        <5> QED BY <5>2, <5>3
      <4>2. CASE y.n = None /\ y.phase \in {"failed", "stopped"}
        BY <1>4, <1>5, <3>2, <4>2 DEF Keeps
      <4>3. CASE host'.table[i].n = y.n
        BY <1>4, <1>5, <3>2, <4>3 DEF Keeps
      <4> QED BY <1>2, <1>3, <2>1, <3>2, <4>1, <4>2, <4>3 DEF Result
    <3> QED BY <3>1, <3>2
  <2>2. \A b \in 1 .. Len(actors') :
          actors'[b].phase \in {"booting", "ready", "draining"} <=> actors'[b].n # None
    BY <1>1, <1>5 DEF OwnerInv, Result
  <2> QED BY <1>1, <2>1, <2>2 DEF OwnerInv
<1>11. ConfigInv'
  <2>1. \A j \in Insts : cfgs'[j] = None
    BY <1>1 DEF ConfigInv
  <2>2. ASSUME NEW v \in host'.vms, v.n \notin host'.lost, NEW d \in v.conf
        PROVE  d.inst = v.inst /\ d.rel = v.rel /\ d.mounts = Volumes[v.rel]
    <3>1. v \in host.vms
      BY <1>6, <2>2 DEF Evolves, Fresh
    <3> QED BY <1>1, <1>6, <2>2, <3>1 DEF ConfigInv
  <2> QED BY <2>1, <2>2 DEF ConfigInv
<1>12. ReadyMeansSaidSo'
  <2> SUFFICES ASSUME NEW z \in CalledReady'
               PROVE  z[2] \in said \/ <<z[1], z[3]>> \in old
    BY DEF ReadyMeansSaidSo
  <2>1. CASE z \in CalledReady
    BY <1>1, <2>1 DEF ReadyMeansSaidSo
  <2>2. CASE /\ y.phase = "ready" /\ z = <<i, y.n, y.boot>>
    <3>1. /\ y.n = x.n /\ y.boot = x.boot /\ x.n # None
          /\ x.phase = "ready" \/ "ready" \in GetBootStatus(i, x.boot)
      BY <1>2, <1>3, <2>2 DEF Result
    <3>2. z = <<x.inst, x.n, x.boot>> /\ z[1] = i /\ z[3] = x.boot
      BY <1>3, <2>2, <3>1
    <3>3. CASE x.phase = "ready"
      <4>1. z \in CalledReady
        BY <1>2, <3>2, <3>3 DEF CalledReady
      <4> QED BY <2>1, <4>1
    <3>4. CASE "ready" \in GetBootStatus(i, x.boot)
      <4>1. z \in Handles
        BY <1>2, <3>1, <3>2 DEF Handles
      <4> QED BY <1>1, <3>2, <3>4, <4>1, RecordedMeansSaid
    <3> QED BY <3>1, <3>3, <3>4
  <2>3. CASE \E b \in 1 .. Len(actors') :
               actors'[b].phase = "ready" /\ z = <<actors'[b].inst, actors'[b].n, actors'[b].boot>>
    <3>1. PICK b \in 1 .. Len(actors) :
               actors'[b].phase = "ready" /\ z = <<actors'[b].inst, actors'[b].n, actors'[b].boot>>
      BY <1>5, <2>3
    <3>2. CASE b = a
      BY <1>4, <1>5, <2>2, <3>1, <3>2
    <3>3. CASE b # a
      BY <1>5, <2>1, <3>1, <3>3 DEF CalledReady
    <3> QED BY <3>2, <3>3
  <2>4. CASE \E j \in Insts : insts[j].status = "ready" /\ z = <<j, insts[j].n, insts[j].boot>>
    BY <2>1, <2>4 DEF CalledReady
  <2> QED BY <2>3, <2>4 DEF CalledReady
<1> QED BY <1>6, <1>8, <1>9, <1>10, <1>11, <1>12 DEF AgentInv

LEMMA FailedFields ==
    ASSUME NEW x \in Actor, NEW y, y = TransitionToFailed(x)
    PROVE  y \in Actor /\ y.inst = x.inst /\ y.phase = "failed" /\ y.n = None
BY DEF TransitionToFailed, Actor, Phases, None

LEMMA StoppedFields ==
    ASSUME NEW x \in Actor, NEW y, y = ActorStopped(x)
    PROVE  y \in Actor /\ y.inst = x.inst /\ y.phase = "stopped" /\ y.n = None
BY DEF ActorStopped, Actor, Phases, None

\* The actor goes on with what it has, or gives it up; the host has at most one fault more.
LEMMA QuietResult ==
    ASSUME HostInv(host), NEW x \in Actor, NEW g, g = host \/ g = Spend(host), NEW y \in Actor,
           y.inst = x.inst, y.phase \in {"booting", "ready", "draining"} <=> y.n # None,
           \/ y.n = x.n /\ y.boot = x.boot /\ (y.phase = x.phase \/ x.n # None)
           \/ y.n = None /\ y.phase \in {"failed", "stopped"},
           y.phase = "ready" => /\ y.n = x.n /\ y.boot = x.boot /\ x.n # None
                                /\ x.phase = "ready" \/ "ready" \in GetBootStatus(x.inst, x.boot)
    PROVE  Result(x, g, y)
<1>1. host \in Host /\ host.boots \in Nat
  BY DEF HostInv, Host
<1>2. /\ HostInv(Spend(host)) /\ Spend(host).vms = host.vms /\ Spend(host).boots = host.boots
      /\ Spend(host).lost = host.lost /\ Spend(host).table = host.table
  BY <1>1, SpendKeeps, SpendFields
<1>3. Evolves(host, g, x.inst) /\ g.table = host.table
  BY <1>1, <1>2 DEF Evolves
<1> QED BY <1>3 DEF Result

\* stop_vm for the actor's instance, and it has no handle any more.
LEMMA StopResult ==
    ASSUME HostInv(host), NEW x \in Actor, NEW g, g = StopVm(host, x.inst), NEW y \in Actor,
           y.inst = x.inst, y.n = None, y.phase \in {"failed", "stopped"}
    PROVE  Result(x, g, y)
<1>1. x.inst \in Insts /\ host.table \in [Insts -> Entry]
  BY DEF Actor, HostInv, Host
<1>2. PICK i : i = x.inst
  OBVIOUS
<1>3. /\ Evolves(host, g, i) /\ HostInv(g) /\ g.vms \subseteq host.vms /\ g.lost = host.lost
      /\ g.boots = host.boots /\ g.spawned = host.spawned
      /\ g.table = [host.table EXCEPT ![i] = NoEntry]
  BY <1>1, <1>2, StopEvolves
<1>4. g.table[i] = NoEntry /\ \A j \in Insts \ {i} : g.table[j] = host.table[j]
  BY <1>1, <1>2, <1>3
<1> QED BY <1>2, <1>3, <1>4 DEF Result

\* start_instance, after a stop or without one.
LEMMA StartResult ==
    ASSUME HostInv(host), NEW x \in Actor, NEW z \in Actor, z.inst = x.inst, NEW r \in Releases,
           NEW g, g = host \/ g = StopVm(host, x.inst), NEW o \in ActorStarts(g, z, r)
    PROVE  Result(x, o.host, o.x)
<1>1. x.inst \in Insts /\ host.table \in [Insts -> Entry] /\ host.spawned \in Nat /\ host.boots \in Nat
  BY DEF Actor, HostInv, Host
<1>2. PICK i : i = x.inst
  OBVIOUS
<1>3. /\ Evolves(host, g, i) /\ HostInv(g) /\ g.vms \subseteq host.vms
      /\ g.boots = host.boots /\ g.spawned = host.spawned
      /\ g.table = host.table \/ g.table = [host.table EXCEPT ![i] = NoEntry]
  <2>1. CASE g = host
    BY <1>1, <2>1 DEF Evolves
  <2>2. CASE g = StopVm(host, i)
    <3>1. /\ Evolves(host, g, i) /\ HostInv(g) /\ g.vms \subseteq host.vms /\ g.lost = host.lost
          /\ g.boots = host.boots /\ g.spawned = host.spawned
          /\ g.table = [host.table EXCEPT ![i] = NoEntry]
      BY <1>1, <1>2, <2>2, StopEvolves
    <3> QED BY <3>1
  <2> QED BY <1>2, <2>1, <2>2
<1>4. PICK s \in StartVm(g, i, r) :
        o = IF s.ok THEN [host |-> s.host, err |-> FALSE,
                   x |-> [z EXCEPT !.phase = "booting", !.n = s.host.table[i].n,
                                   !.boot = s.host.table[i].boot]]
            ELSE [host |-> s.host, x |-> TransitionToFailed(z), err |-> TRUE]
  BY <1>2 DEF ActorStarts
<1>5. /\ Evolves(host, s.host, i) /\ s.host.boots = host.boots + 1 /\ s.ok \in BOOLEAN
      /\ s.ok => /\ g.table[i] = NoEntry
                 /\ s.host.table = [g.table EXCEPT ![i] =
                       [n |-> host.spawned + 1, boot |-> host.boots + 1, rel |-> r]]
      /\ ~s.ok => s.host.table = g.table
  <2>1. /\ HostInv(host) /\ i \in Insts /\ r \in Releases /\ Evolves(host, g, i)
        /\ g.vms \subseteq host.vms /\ g.boots = host.boots /\ g.spawned = host.spawned
    BY <1>1, <1>2, <1>3
  <2> QED BY ONLY <1>4, <2>1, StartEvolves
<1>6. CASE s.ok
  <2>1. PICK e : e = [n |-> host.spawned + 1, boot |-> host.boots + 1, rel |-> r]
    OBVIOUS
  <2>2. /\ s.host.table[i] = e /\ e.n = host.spawned + 1 /\ e.boot = host.boots + 1
        /\ \A j \in Insts \ {i} : s.host.table[j] = host.table[j]
    BY <1>1, <1>2, <1>3, <1>5, <1>6, <2>1
  <2>3. PICK y : y = [z EXCEPT !.phase = "booting", !.n = e.n, !.boot = e.boot]
    OBVIOUS
  <2>4. o.host = s.host /\ o.x = y
    BY <1>4, <1>6, <2>2, <2>3
  <2>5. y \in Actor /\ y.inst = z.inst /\ y.phase = "booting" /\ y.n = e.n /\ y.boot = e.boot
    <3>1. e.n \in Nat /\ e.boot \in Nat /\ "booting" \in Phases
      BY <1>1, <2>2 DEF Phases
    <3> QED BY <2>3, <3>1 DEF Actor
  <2>6. y.n # None
    BY <1>1, <2>2, <2>5 DEF None
  <2> QED BY <1>2, <1>5, <2>2, <2>4, <2>5, <2>6 DEF Result
<1>7. CASE ~s.ok
  <2>1. PICK y : y = TransitionToFailed(z)
    OBVIOUS
  <2>2. o.host = s.host /\ o.x = y
    BY <1>4, <1>7, <2>1
  <2>3. y \in Actor /\ y.inst = x.inst /\ y.phase = "failed" /\ y.n = None
    BY <2>1, FailedFields
  <2>4. /\ s.host.table = host.table \/ s.host.table[i] = NoEntry
        /\ \A j \in Insts \ {i} : s.host.table[j] = host.table[j]
    BY <1>1, <1>2, <1>3, <1>5, <1>7
  <2> QED BY <1>2, <1>5, <2>2, <2>3, <2>4 DEF Result
<1> QED BY <1>5, <1>6, <1>7

\* A spec taken on changes nothing else.
LEMMA AppliedResult ==
    ASSUME NEW x \in Actor, NEW m \in Message, NEW o, Result(x, o.host, o.x),
           NEW h, NEW y, NEW e, o = [host |-> h, x |-> y, err |-> e]
    PROVE  Result(x, Applied(o, m).host, Applied(o, m).x)
<1>1. CASE o.err
  BY <1>1 DEF Applied
<1>2. CASE ~o.err
  <2>1. PICK z : z = [y EXCEPT !.rev = m.rev, !.spec = m.rel]
    OBVIOUS
  <2>2. m.rev \in Nat /\ m.rel \in Releases \cup {None}
    BY DEF Message
  <2>3. y \in Actor /\ Result(x, h, y)
    BY DEF Result
  <2>4. /\ z \in Actor /\ z.inst = y.inst /\ z.phase = y.phase /\ z.n = y.n /\ z.boot = y.boot
    BY <2>1, <2>2, <2>3 DEF Actor
  <2>5. Result(x, h, z)
    BY <2>3, <2>4 DEF Result
  <2>6. Applied(o, m) = [o EXCEPT !.x.rev = m.rev, !.x.spec = m.rel]
    BY <1>2 DEF Applied
  <2>7. Applied(o, m).host = h /\ Applied(o, m).x = z
    BY <2>1, <2>3, <2>6 DEF Actor
  <2> QED BY <2>5, <2>7
<1> QED BY <1>1, <1>2

\* handle_apply_desired
LEMMA ApplyDesiredResult ==
    ASSUME HostInv(host), NEW x \in Actor, NEW m \in Message,
           x.phase \in {"booting", "ready", "draining"} <=> x.n # None,
           NEW o \in ApplyDesired(host, x, m)
    PROVE  Result(x, o.host, o.x)
<1>1. Result(x, host, x)
  BY QuietResult
<1>2. Quiet(host, x).host = host /\ Quiet(host, x).x = x
  BY DEF Quiet
<1>3. CASE m.rev <= x.rev
  BY <1>1, <1>2, <1>3 DEF ApplyDesired
<1>4. CASE ~(m.rev <= x.rev)
  <2>1. PICK p \in CASE m.want = "running" /\ x.phase \in {"preparing", "failed"} -> ActorStarts(host, x, m.rel)
                     [] m.want = "running" /\ x.phase = "ready" -> RestartIfChanged(host, x, m)
                     [] m.want = "draining" /\ x.phase = "ready" -> {Quiet(host, [x EXCEPT !.phase = "draining"])}
                     [] OTHER -> {Quiet(host, x)} : o = Applied(p, m)
    BY <1>4 DEF ApplyDesired
  <2>2. \/ m.want = "running" /\ x.phase \in {"preparing", "failed"} /\ p \in ActorStarts(host, x, m.rel)
        \/ m.want = "running" /\ x.phase = "ready" /\ p \in RestartIfChanged(host, x, m)
        \/ x.phase = "ready" /\ p = Quiet(host, [x EXCEPT !.phase = "draining"])
        \/ p = Quiet(host, x)
    BY <2>1
  <2>3. m.want = "running" => m.rel \in Releases
    BY DEF Message
  <2>4. Result(x, p.host, p.x)
    <3>1. CASE m.want = "running" /\ p \in ActorStarts(host, x, m.rel)
      BY <2>3, <3>1, StartResult
    <3>2. CASE m.want = "running" /\ x.phase = "ready" /\ p \in RestartIfChanged(host, x, m)
      <4>1. PICK z : z = ActorStopped(x)
        OBVIOUS
      <4>2. z \in Actor /\ z.inst = x.inst
        BY <4>1, StoppedFields
      <4>3. PICK g : g = StopVm(host, x.inst)
        OBVIOUS
      <4>4. ActorStopsVm(host, x) = g
        BY <3>2, <4>3 DEF ActorStopsVm
      <4>5. p \in ActorStarts(g, z, m.rel) \/ p = Quiet(host, x)
        BY <3>2, <4>1, <4>4 DEF RestartIfChanged
      <4>6. CASE p \in ActorStarts(g, z, m.rel)
        BY <2>3, <3>2, <4>2, <4>3, <4>6, StartResult
      <4> QED BY <1>1, <1>2, <4>5, <4>6
    <3>3. CASE x.phase = "ready" /\ p = Quiet(host, [x EXCEPT !.phase = "draining"])
      <4>1. PICK y : y = [x EXCEPT !.phase = "draining"]
        OBVIOUS
      <4>2. y \in Actor /\ y.inst = x.inst /\ y.phase = "draining" /\ y.n = x.n /\ y.boot = x.boot
        BY <4>1 DEF Actor, Phases
      <4>3. Result(x, host, y)
        BY <3>3, <4>2, QuietResult
      <4>4. p.host = host /\ p.x = y
        BY <3>3, <4>1 DEF Quiet
      <4> QED BY <4>3, <4>4
    <3>4. CASE p = Quiet(host, x)
      BY <1>1, <1>2, <3>4
    <3> QED BY <2>2, <3>1, <3>2, <3>3, <3>4
  <2>5. \E h, y, e : p = [host |-> h, x |-> y, err |-> e]
    <3>1. ASSUME NEW g, NEW z, NEW r, p \in ActorStarts(g, z, r)
          PROVE  \E h, y, e : p = [host |-> h, x |-> y, err |-> e]
      BY <3>1 DEF ActorStarts
    <3>2. ASSUME NEW g, NEW z, p = Quiet(g, z)
          PROVE  \E h, y, e : p = [host |-> h, x |-> y, err |-> e]
      BY <3>2 DEF Quiet
    <3> QED BY <2>2, <3>1, <3>2 DEF RestartIfChanged
  <2> QED BY <2>1, <2>4, <2>5, AppliedResult
<1> QED BY <1>3, <1>4

\* handle_tick
LEMMA HandleTickResult ==
    ASSUME HostInv(host), NEW x \in Actor,
           x.phase \in {"booting", "ready", "draining"} <=> x.n # None,
           NEW o \in HandleTick(host, x)
    PROVE  Result(x, o.host, o.x)
<1>1. Result(x, host, x)
  BY QuietResult
<1>2. PICK f : f = TransitionToFailed(x)
  OBVIOUS
<1>3. f \in Actor /\ f.inst = x.inst /\ f.phase = "failed" /\ f.n = None
  BY <1>2, FailedFields
<1>4. Result(x, host, f) /\ Result(x, Spend(host), f)
  BY <1>3, QuietResult
<1>5. Result(x, Spend(host), x)
  BY QuietResult
<1>6. \A g, y : Quiet(g, y).host = g /\ Quiet(g, y).x = y
  BY DEF Quiet
<1>7. CASE x.phase = "ready"
  <2>1. o \in TickReady(host, x)
    BY <1>7 DEF HandleTick
  <2>2. \E g \in {host, Spend(host)}, y \in {x, f} : o = Quiet(g, y)
    BY <1>2, <2>1 DEF TickReady
  <2> QED BY <1>1, <1>4, <1>5, <1>6, <2>2
<1>8. CASE x.phase = "draining"
  <2>1. PICK g : g = StopVm(host, x.inst)
    OBVIOUS
  <2>2. PICK y : y = ActorStopped(x)
    OBVIOUS
  <2>3. o = Quiet(host, x) \/ o = Quiet(g, y)
    BY <1>8, <2>1, <2>2 DEF HandleTick, TickDraining, ActorStopsVm
  <2>4. y \in Actor /\ y.inst = x.inst /\ y.phase = "stopped" /\ y.n = None
    BY <2>2, StoppedFields
  <2>5. Result(x, g, y)
    BY <2>1, <2>4, StopResult
  <2> QED BY <1>1, <1>6, <2>3, <2>5
<1>9. CASE x.phase = "booting"
  <2>1. PICK y : y = [x EXCEPT !.phase = "ready"]
    OBVIOUS
  <2>2. y \in Actor /\ y.inst = x.inst /\ y.phase = "ready" /\ y.n = x.n /\ y.boot = x.boot
    BY <2>1 DEF Actor, Phases
  <2>3. \/ "ready" \in GetBootStatus(x.inst, x.boot) /\ o = Quiet(host, y)
        \/ o = Quiet(host, f) \/ o = Quiet(host, x) \/ o = Quiet(Spend(host), f)
    BY <1>2, <1>9, <2>1 DEF HandleTick, TickBooting
  <2>4. "ready" \in GetBootStatus(x.inst, x.boot) => Result(x, host, y)
    BY <1>9, <2>2, QuietResult
  <2> QED BY <1>1, <1>4, <1>6, <2>3, <2>4
<1>10. CASE x.phase \notin {"ready", "draining", "booting"}
  BY <1>1, <1>6, <1>10 DEF HandleTick
<1> QED BY <1>7, <1>8, <1>9, <1>10

LEMMA HandleMessageKeeps ==
    ASSUME AgentInv, mode = "actors", NEW a \in 1 .. Len(actors), HandleMessage(a), mode' = mode
    PROVE  AgentInv'
<1>1. HostInv(host) /\ AgentTypeOK /\ OwnerInv
  BY DEF AgentInv
<1>2. PICK z : z = actors[a]
  OBVIOUS
<1>3. z \in Actor /\ z.box \in Seq(Message) /\ z.box # <<>>
  <2>1. actors \in Seq(Actor)
    BY <1>1 DEF AgentTypeOK
  <2>2. z \in Actor
    BY <1>2, <2>1
  <2> QED BY <1>2, <2>2 DEF Actor, HandleMessage
<1>4. PICK m : m = Head(z.box)
  OBVIOUS
<1>5. PICK x : x = [z EXCEPT !.box = Tail(z.box)]
  OBVIOUS
<1>6. m \in Message
  BY <1>3, <1>4
<1>7. x \in Actor /\ x.inst = z.inst /\ x.phase = z.phase /\ x.n = z.n /\ x.boot = z.boot
  <2>1. Tail(z.box) \in Seq(Message)
    BY <1>3
  <2> QED BY <1>3, <1>5, <2>1 DEF Actor
<1>8. x.phase \in {"booting", "ready", "draining"} <=> x.n # None
  BY <1>1, <1>2, <1>7 DEF OwnerInv
<1>9. PICK o \in CASE m.kind = "apply" -> ApplyDesired(host, x, m)
                   [] m.kind = "tick" -> HandleTick(host, x)
                   [] m.kind = "stop" -> {Quiet(ActorStopsVm(host, x),
                                               [ActorStopped(x) EXCEPT !.alive = FALSE])} :
        host' = o.host /\ actors' = [actors EXCEPT ![a] = o.x]
  BY <1>2, <1>4, <1>5 DEF HandleMessage
<1>10. m.kind \in {"apply", "stop", "tick"}
  BY <1>6 DEF Message
<1>11. Result(x, o.host, o.x)
  <2>1. CASE m.kind = "apply"
    <3>1. o \in ApplyDesired(host, x, m)
      BY <1>9, <2>1
    <3> QED BY <1>1, <1>6, <1>7, <1>8, <3>1, ApplyDesiredResult
  <2>2. CASE m.kind = "tick"
    <3>1. o \in HandleTick(host, x)
      BY <1>9, <2>2
    <3> QED BY <1>1, <1>7, <1>8, <3>1, HandleTickResult
  <2>3. CASE m.kind = "stop"
    <3>1. o = Quiet(ActorStopsVm(host, x), [ActorStopped(x) EXCEPT !.alive = FALSE])
      BY <1>9, <2>3
    <3>2. PICK s : s = ActorStopped(x)
      OBVIOUS
    <3>3. PICK y : y = [s EXCEPT !.alive = FALSE]
      OBVIOUS
    <3>4. s \in Actor /\ s.inst = x.inst /\ s.phase = "stopped" /\ s.n = None
      BY <1>7, <3>2, StoppedFields
    <3>5. y \in Actor /\ y.inst = x.inst /\ y.phase = "stopped" /\ y.n = None
      BY <3>3, <3>4 DEF Actor
    <3>6. PICK g : g = ActorStopsVm(host, x)
      OBVIOUS
    <3>7. o.host = g /\ o.x = y
      BY <3>1, <3>2, <3>3, <3>6 DEF Quiet
    <3>8. g = host \/ g = StopVm(host, x.inst)
      BY <3>6 DEF ActorStopsVm
    <3>9. CASE g = host
      <4>1. Result(x, g, y)
        BY <1>1, <1>7, <3>5, <3>9, QuietResult
      <4> QED BY <3>7, <4>1
    <3>10. CASE g = StopVm(host, x.inst)
      <4>1. Result(x, g, y)
        BY <1>1, <1>7, <3>5, <3>10, StopResult
      <4> QED BY <3>7, <4>1
    <3> QED BY <3>8, <3>9, <3>10
  <2> QED BY <1>10, <2>1, <2>2, <2>3
<1>12. Result(actors[a], host', o.x)
  BY <1>2, <1>7, <1>9, <1>11 DEF Result
<1>13. UNCHANGED <<insts, handles, rev, mode, cfgs, wire, statuses, old, said>>
  BY DEF HandleMessage, Rest
<1> QED BY <1>9, <1>12, <1>13, ActorMoves

----------------------------------------------------------------------------
(* The plans on their way to the supervisor.                               *)

Plan == [cursor : Nat, want : Wants]
Work == [on : BOOLEAN, stops : SUBSET Insts, wants : SUBSET Insts, want : Wants \cup {<<>>}]

\* What is left to ensure is something the plan names.
PlanInv ==
    /\ plan \in Plan /\ chan \in Seq(Plan) /\ work \in Work
    /\ \A i \in work.wants : work.want[i] \in {"draining", "stopped"} \cup Releases

LEMMA NoWorkWants == NoWork.wants = {} /\ NoWork \in Work
BY DEF NoWork, Work

LEMMA PublishKeeps ==
    ASSUME PlanInv, NEW st, Publish(st)
    PROVE  chan' \in Seq(Plan)
<1>1. plan \in Plan /\ chan \in Seq(Plan)
  BY DEF PlanInv
<1>2. Append(chan, plan) \in Seq(Plan)
  BY <1>1
<1> QED BY <1>1, <1>2 DEF Publish

\* The supervisor only ever has to ensure instances that a plan of the control plane names, in
\* a state that ensure_instance knows.
THEOREM PlansAreNamed == AgentSpec => []PlanInv
<1>1. ASSUME AgentInit PROVE PlanInv
  <2>1. plan \in Plan /\ chan = <<>> /\ work.wants = {} /\ work \in Work
    BY <1>1, NoWorkWants DEF AgentInit, ActorsInit, Plan
  <2> QED BY <2>1 DEF PlanInv
<1>2. ASSUME PlanInv, [AgentNext]_nodevars PROVE PlanInv'
  <2> USE <1>2
  <2>1. ASSUME UNCHANGED <<plan, chan, work>> PROVE PlanInv'
    BY <2>1 DEF PlanInv
  <2>2. CASE PlanChanges
    <3>1. plan' \in Plan /\ UNCHANGED <<chan, work>>
      BY <2>2 DEF PlanChanges, avars, PlanInv, Plan
    <3> QED BY <3>1 DEF PlanInv
  <2>3. CASE GuestNext \/ ManagerNext
    BY <2>1, <2>3 DEF GuestNext, ManagerNext, avars
  <2>4. CASE RestartAgent \/ RebootHost
    <3>1. plan' = plan /\ chan' = <<>> /\ work' = NoWork
      BY <2>4 DEF RestartAgent, RebootHost, Begins
    <3> QED BY <3>1, NoWorkWants DEF PlanInv
  <2>5. CASE mode = "images" /\ ImageNext /\ UNCHANGED <<gvars, mvars, avars, plan, mode, restarts>>
    BY <2>1, <2>5 DEF avars
  <2>6. CASE ActorsNext
    <3>1. plan' = plan
      BY <2>6 DEF ActorsNext
    <3>2. ASSUME chan' \in Seq(Plan), work' = work PROVE PlanInv'
      BY <3>1, <3>2 DEF PlanInv
    <3>3. CASE StreamConnects \/ StreamHeartbeat
      <4>1. Publish(stream) /\ work' = work
        BY <3>3 DEF StreamConnects, StreamHeartbeat
      <4>2. chan' \in Seq(Plan)
        BY <4>1, PublishKeeps
      <4> QED BY <3>2, <4>1, <4>2
    <3>4. CASE StreamDisconnects \/ SupervisorTick \/ Shutdown \/ \E a \in 1 .. Len(actors) : HandleMessage(a)
      BY <2>1, <3>1, <3>4 DEF StreamDisconnects, SupervisorTick, Shutdown, HandleMessage
    <3>5. CASE HandlePlan
      <4>1. PICK p : p = Head(chan)
        OBVIOUS
      <4>2. chan \in Seq(Plan) /\ chan # <<>> /\ chan' = Tail(chan)
        BY <3>5 DEF HandlePlan, PlanInv
      <4>3. p \in Plan /\ chan' \in Seq(Plan)
        <5>1. Head(chan) \in Plan /\ Tail(chan) \in Seq(Plan)
          BY <4>2
        <5> QED BY <4>1, <4>2, <5>1
      <4>4. work'.want = p.want /\ work'.wants = {i \in Insts : p.want[i] # "absent"} /\ work' \in Work
        BY <3>5, <4>1, <4>3 DEF HandlePlan, Work, Plan
      <4>5. \A i \in Insts : p.want[i] # "absent" => p.want[i] \in {"draining", "stopped"} \cup Releases
        BY <4>3 DEF Wants, Plan
      <4> QED BY <3>1, <4>3, <4>4, <4>5 DEF PlanInv
    <3>6. ASSUME NEW i \in Insts, StopAbsent(i) \/ EnsureAssigned(i)
          PROVE  PlanInv'
      <4>1. chan' = chan /\ (\/ work' = [work EXCEPT !.stops = work.stops \ {i}]
                              \/ work' = [work EXCEPT !.wants = work.wants \ {i}])
        BY <3>6 DEF StopAbsent, EnsureAssigned
      <4>2. work' \in Work /\ work'.wants \subseteq work.wants /\ work'.want = work.want
        BY <4>1 DEF PlanInv, Work
      <4> QED BY <3>1, <4>1, <4>2 DEF PlanInv
    <3>7. CASE PlanApplied
      <4>1. chan' = chan /\ work' = NoWork
        BY <3>7 DEF PlanApplied
      <4> QED BY <3>1, <4>1, NoWorkWants DEF PlanInv
    <3> QED BY <2>6, <3>3, <3>4, <3>5, <3>6, <3>7 DEF ActorsNext
  <2>7. CASE UNCHANGED nodevars
    BY <2>1, <2>7 DEF nodevars, avars
  <2> QED BY <2>2, <2>3, <2>4, <2>5, <2>6, <2>7 DEF AgentNext
<1> QED BY <1>1, <1>2, PTL DEF AgentSpec

----------------------------------------------------------------------------
(* The supervisor and the stream actor.                                    *)

\* What they do to the actors: mailboxes change and actors without a VM are spawned.
Mailed(A) ==
    /\ A \in Seq(Actor) /\ Len(actors) <= Len(A)
    /\ \A a \in 1 .. Len(actors) :
          /\ A[a].inst = actors[a].inst /\ A[a].phase = actors[a].phase
          /\ A[a].n = actors[a].n /\ A[a].boot = actors[a].boot
    /\ \A a \in 1 .. Len(A) : a > Len(actors) => A[a].phase = "preparing" /\ A[a].n = None

LEMMA ActorsMailed ==
    ASSUME AgentInv, mode = "actors", Mailed(actors'), host' = host \/ host' = Spend(host),
           handles' \in [Insts -> 0 .. Len(actors')], rev' \in Nat,
           UNCHANGED <<insts, mode, cfgs, wire, statuses, old, said>>
    PROVE  AgentInv'
<1>1. HostInv(host) /\ AgentTypeOK /\ SpeechInv /\ ConfigInv /\ OwnerInv /\ ReadyMeansSaidSo
  BY DEF AgentInv
<1>2. /\ HostInv(host') /\ Evolves(host, host', 1)
      /\ host'.table = host.table /\ host'.vms = host.vms /\ host'.lost = host.lost
  BY <1>1, SpendEvolves
<1>3. Len(actors) \in Nat /\ Len(actors') \in Nat /\ Len(actors) <= Len(actors') /\ actors' \in Seq(Actor)
  BY <1>1 DEF AgentTypeOK, Mailed
<1>4. ASSUME NEW a \in 1 .. Len(actors')
      PROVE  \/ /\ a \in 1 .. Len(actors)
                /\ actors'[a].inst = actors[a].inst /\ actors'[a].phase = actors[a].phase
                /\ actors'[a].n = actors[a].n /\ actors'[a].boot = actors[a].boot
             \/ actors'[a].phase = "preparing" /\ actors'[a].n = None
  BY <1>3 DEF Mailed
<1>5. \A z \in Handles' : z \in Handles
  BY <1>4 DEF Handles
<1>6. SpeechInv'
  BY <1>1, <1>2, <1>5, SpeechKept
<1>7. OwnerInv'
  <2>1. ASSUME NEW i \in Insts, host'.table[i] # NoEntry
        PROVE  \E b \in 1 .. Len(actors') : Keeps(actors[b], i)'
    <3>1. PICK b \in 1 .. Len(actors) : Keeps(actors[b], i)
      BY <1>1, <1>2, <2>1 DEF OwnerInv
    <3>2. b \in 1 .. Len(actors') /\ actors'[b].inst = actors[b].inst
          /\ actors'[b].phase = actors[b].phase /\ actors'[b].n = actors[b].n
      BY <1>3 DEF Mailed
    <3> QED BY <1>2, <3>1, <3>2 DEF Keeps
  <2>2. \A b \in 1 .. Len(actors') :
          actors'[b].phase \in {"booting", "ready", "draining"} <=> actors'[b].n # None
    BY <1>1, <1>4 DEF OwnerInv
  <2> QED BY <1>1, <2>1, <2>2 DEF OwnerInv
<1>8. ConfigInv'
  BY <1>1, <1>2 DEF ConfigInv
<1>9. AgentTypeOK'
  BY <1>1, <1>3 DEF AgentTypeOK
<1>10. \A z \in CalledReady' : z \in CalledReady
  BY <1>4 DEF CalledReady
<1>11. ReadyMeansSaidSo'
  BY <1>1, <1>10 DEF ReadyMeansSaidSo
<1> QED BY <1>2, <1>6, <1>7, <1>8, <1>9, <1>11 DEF AgentInv

LEMMA SameMailed ==
    ASSUME AgentTypeOK
    PROVE  Mailed(actors)
BY DEF AgentTypeOK, Mailed

\* A record with another mailbox.
LEMMA BoxFields ==
    ASSUME NEW x \in Actor, NEW q \in Seq(Message), NEW y, y = [x EXCEPT !.box = q]
    PROVE  /\ y \in Actor /\ y.inst = x.inst /\ y.phase = x.phase
           /\ y.n = x.n /\ y.boot = x.boot
BY DEF Actor

LEMMA PostMailed ==
    ASSUME AgentTypeOK, NEW a \in 1 .. Len(actors), NEW m \in Message
    PROVE  Mailed(Post(a, m)) /\ Len(Post(a, m)) = Len(actors)
<1>1. actors \in Seq(Actor) /\ Len(actors) \in Nat
  BY DEF AgentTypeOK
<1>2. PICK x : x = actors[a]
  OBVIOUS
<1>3. x \in Actor /\ x.box \in Seq(Message)
  <2>1. x \in Actor
    BY <1>1, <1>2
  <2> QED BY <2>1 DEF Actor
<1>4. PICK q : q = Append(x.box, m)
  OBVIOUS
<1>5. q \in Seq(Message)
  BY <1>3, <1>4
<1>6. PICK y : y = [x EXCEPT !.box = q]
  OBVIOUS
<1>7. /\ y \in Actor /\ y.inst = x.inst /\ y.phase = x.phase
      /\ y.n = x.n /\ y.boot = x.boot
  BY <1>3, <1>5, <1>6, BoxFields
<1>8. Post(a, m) = [actors EXCEPT ![a] = y]
  BY <1>1, <1>2, <1>4, <1>6 DEF Post
<1>9. /\ Len([actors EXCEPT ![a] = y]) = Len(actors) /\ [actors EXCEPT ![a] = y] \in Seq(Actor)
      /\ \A b \in 1 .. Len(actors) : [actors EXCEPT ![a] = y][b] = IF b = a THEN y ELSE actors[b]
  BY <1>1, <1>7
<1> QED BY <1>1, <1>2, <1>7, <1>8, <1>9 DEF Mailed

\* The actor of an instance, spawned with its first message.
LEMMA SpawnMailed ==
    ASSUME AgentTypeOK, NEW i \in Insts, NEW r \in Releases
    PROVE  Mailed(Append(actors, NewActor(i, r))) /\ Len(Append(actors, NewActor(i, r))) = Len(actors) + 1
<1>1. actors \in Seq(Actor) /\ Len(actors) \in Nat /\ rev \in Nat
  BY DEF AgentTypeOK
<1>2. PICK q : q = <<ApplyMsg(i, "running", r)>>
  OBVIOUS
<1>3. q \in Seq(Message)
  <2>1. ApplyMsg(i, "running", r) \in Message
    BY <1>1 DEF ApplyMsg, Message
  <2> QED BY <1>2, <2>1
<1>4. PICK y : y = NewActor(i, r)
  OBVIOUS
<1>5. y = [inst |-> i, alive |-> TRUE, phase |-> "preparing", rev |-> 0, n |-> None, boot |-> None,
           spec |-> None, box |-> q]
  BY <1>2, <1>4 DEF NewActor
<1>6. y \in Actor /\ y.phase = "preparing" /\ y.n = None
  BY <1>3, <1>5 DEF Actor, Phases, None
<1>7. /\ Append(actors, y) \in Seq(Actor) /\ Len(Append(actors, y)) = Len(actors) + 1
      /\ \A a \in 1 .. Len(actors) : Append(actors, y)[a] = actors[a]
      /\ Append(actors, y)[Len(actors) + 1] = y
  BY <1>1, <1>6
<1>8. \A a \in 1 .. Len(actors) + 1 : a > Len(actors) => a = Len(actors) + 1
  BY <1>1
<1> QED BY <1>1, <1>4, <1>6, <1>7, <1>8 DEF Mailed

\* A mailbox replaced in some of the actors.
LEMMA AllMailed ==
    ASSUME AgentTypeOK, NEW A, NEW F, A = [a \in 1 .. Len(actors) |-> F[a]],
           \A a \in 1 .. Len(actors) :
              \/ F[a] = actors[a]
              \/ \E q \in Seq(Message) : F[a] = [actors[a] EXCEPT !.box = q]
    PROVE  Mailed(A) /\ Len(A) = Len(actors)
<1>1. actors \in Seq(Actor) /\ Len(actors) \in Nat
  BY DEF AgentTypeOK
<1>2. ASSUME NEW a \in 1 .. Len(actors)
      PROVE  /\ A[a] \in Actor /\ A[a].inst = actors[a].inst /\ A[a].phase = actors[a].phase
             /\ A[a].n = actors[a].n /\ A[a].boot = actors[a].boot
  <2>1. PICK x : x = actors[a]
    OBVIOUS
  <2>2. x \in Actor
    BY <1>1, <2>1
  <2>3. CASE A[a] = x
    BY <2>1, <2>2, <2>3
  <2>4. CASE \E q \in Seq(Message) : A[a] = [x EXCEPT !.box = q]
    <3>1. PICK q \in Seq(Message) : A[a] = [x EXCEPT !.box = q]
      BY <2>4
    <3>2. PICK y : y = [x EXCEPT !.box = q]
      OBVIOUS
    <3>3. /\ y \in Actor /\ y.inst = x.inst /\ y.phase = x.phase
          /\ y.n = x.n /\ y.boot = x.boot
      BY <2>2, <3>2, BoxFields
    <3> QED BY <2>1, <3>1, <3>2, <3>3
  <2> QED BY <2>1, <2>3, <2>4
<1>3. A \in Seq(Actor) /\ Len(A) = Len(actors)
  BY <1>1, <1>2
<1> QED BY <1>1, <1>2, <1>3 DEF Mailed

LEMMA StopMsgType == StopMsg \in Message /\ TickMsg \in Message
BY DEF StopMsg, TickMsg, Message, None

\* What the next-state relation says of the rest.
LEMMA SupervisorKeeps ==
    ASSUME AgentInv, mode = "actors", Rest, mode' = mode, host' = host \/ host' = Spend(host),
           Mailed(actors'), handles' \in [Insts -> 0 .. Len(actors')], rev' \in Nat
    PROVE  AgentInv'
BY ActorsMailed DEF Rest

LEMMA StopsMailed ==
    ASSUME AgentTypeOK, NEW i \in Insts, SupervisorStops(i)
    PROVE  Mailed(actors') /\ handles' \in [Insts -> 0 .. Len(actors')]
<1>1. handles \in [Insts -> 0 .. Len(actors)] /\ Len(actors) \in Nat
  BY DEF AgentTypeOK
<1>2. handles' = [handles EXCEPT ![i] = None] /\ handles' \in [Insts -> 0 .. Len(actors)]
  BY <1>1 DEF SupervisorStops, None
<1>3. CASE Alive(handles[i])
  <2>1. handles[i] \in 1 .. Len(actors)
    BY <1>1, <1>3 DEF Alive, None
  <2>2. PICK a : a = handles[i]
    OBVIOUS
  <2>3. actors' = Post(a, StopMsg)
    BY <1>3, <2>2 DEF SupervisorStops
  <2>4. Mailed(Post(a, StopMsg)) /\ Len(Post(a, StopMsg)) = Len(actors)
    BY <2>1, <2>2, StopMsgType, PostMailed
  <2> QED BY <1>2, <2>3, <2>4
<1>4. CASE ~Alive(handles[i])
  BY <1>2, <1>4, SameMailed DEF SupervisorStops
<1> QED BY <1>3, <1>4

LEMMA PullMailed ==
    ASSUME AgentTypeOK, NEW i \in Insts, NEW r \in Releases, RequestImagePull(i, r)
    PROVE  Mailed(actors') /\ handles' \in [Insts -> 0 .. Len(actors')]
<1>1. handles \in [Insts -> 0 .. Len(actors)] /\ Len(actors) \in Nat
  BY DEF AgentTypeOK
<1>2. CASE imageActor
  BY <1>1, <1>2, SameMailed DEF RequestImagePull
<1>3. CASE ~imageActor
  <2>1. actors' = Append(actors, NewActor(i, r)) /\ handles' = [handles EXCEPT ![i] = Len(actors) + 1]
    BY <1>3 DEF RequestImagePull
  <2>2. Mailed(Append(actors, NewActor(i, r))) /\ Len(Append(actors, NewActor(i, r))) = Len(actors) + 1
    BY SpawnMailed
  <2>3. handles' \in [Insts -> 0 .. Len(actors) + 1]
    BY <1>1, <2>1
  <2> QED BY <2>1, <2>2, <2>3
<1> QED BY <1>2, <1>3

LEMMA EnsureMailed ==
    ASSUME AgentTypeOK, PlanInv, NEW i \in Insts, EnsureAssigned(i)
    PROVE  Mailed(actors') /\ handles' \in [Insts -> 0 .. Len(actors')]
<1>1. handles \in [Insts -> 0 .. Len(actors)] /\ Len(actors) \in Nat /\ rev \in Nat
  BY DEF AgentTypeOK
<1>2. PICK a : a = handles[i]
  OBVIOUS
<1>3. Alive(a) => a \in 1 .. Len(actors)
  BY <1>1, <1>2 DEF Alive, None
<1>4. Mailed(actors)
  BY SameMailed
<1>5. ASSUME NEW m \in Message, Alive(a), actors' = Post(a, m), handles' = handles
      PROVE  Mailed(actors') /\ handles' \in [Insts -> 0 .. Len(actors')]
  <2>1. a \in 1 .. Len(actors)
    BY <1>3, <1>5
  <2>2. Mailed(Post(a, m)) /\ Len(Post(a, m)) = Len(actors)
    BY <2>1, PostMailed
  <2> QED BY <1>1, <1>5, <2>2
<1>6. ASSUME actors' = actors, handles' = handles \/ handles' = [handles EXCEPT ![i] = None]
      PROVE  Mailed(actors') /\ handles' \in [Insts -> 0 .. Len(actors')]
  BY <1>1, <1>4, <1>6 DEF None
<1>7. CASE Runs(work.want[i])
  <2>1. PICK r : r = work.want[i]
    OBVIOUS
  <2>2. r \in Releases /\ EnsureRunning(i, r)
    BY <1>7, <2>1 DEF EnsureAssigned, Runs
  <2>3. CASE RequestImagePull(i, r)
    BY <2>2, <2>3, PullMailed
  <2>4. CASE Alive(a) /\ actors' = Post(a, ApplyMsg(i, "running", r)) /\ handles' = handles
    <3>1. ApplyMsg(i, "running", r) \in Message
      BY <1>1, <2>2 DEF ApplyMsg, Message
    <3> QED BY <1>5, <2>4, <3>1
  <2>5. CASE actors' = actors /\ (handles' = handles \/ handles' = [handles EXCEPT ![i] = None])
    BY <1>6, <2>5
  <2> QED BY <1>2, <2>2, <2>3, <2>4, <2>5 DEF EnsureRunning
<1>8. CASE ~Runs(work.want[i])
  <2>1. EnsureEnding(i, work.want[i])
    BY <1>8 DEF EnsureAssigned
  <2>2. CASE a = None
    BY <1>2, <1>6, <2>1, <2>2 DEF EnsureEnding
  <2>3. CASE a # None /\ work.want[i] = "stopped"
    <3>1. SupervisorStops(i)
      BY <1>2, <2>1, <2>3 DEF EnsureEnding
    <3> QED BY <3>1, StopsMailed
  <2>4. CASE a # None /\ work.want[i] = "draining"
    <3>1. /\ actors' = IF Alive(a) THEN Post(a, ApplyMsg(i, "draining", actors[a].spec)) ELSE actors
          /\ handles' = handles
      BY <1>2, <2>1, <2>4 DEF EnsureEnding
    <3>2. CASE Alive(a)
      <4>1. actors \in Seq(Actor)
        BY DEF AgentTypeOK
      <4>2. actors[a].spec \in Releases \cup {None}
        <5>1. actors[a] \in Actor
          BY <1>3, <3>2, <4>1
        <5> QED BY <5>1 DEF Actor
      <4>3. ApplyMsg(i, "draining", actors[a].spec) \in Message
        BY <1>1, <4>2 DEF ApplyMsg, Message
      <4> QED BY <1>5, <3>1, <3>2, <4>3
    <3>3. CASE ~Alive(a)
      BY <1>6, <3>1, <3>3
    <3> QED BY <3>2, <3>3
  <2>5. work.want[i] \in {"draining", "stopped"}
    BY <1>8 DEF EnsureAssigned, PlanInv, Runs
  <2> QED BY <2>2, <2>3, <2>4, <2>5
<1> QED BY <1>7, <1>8

LEMMA ActorsNextKeeps ==
    ASSUME AgentInv, PlanInv, ActorsNext
    PROVE  AgentInv'
<1>1. mode = "actors" /\ mode' = mode /\ AgentTypeOK
  BY DEF ActorsNext, AgentInv
<1>2. handles \in [Insts -> 0 .. Len(actors)] /\ rev \in Nat /\ Mailed(actors) /\ actors \in Seq(Actor)
  BY <1>1, SameMailed DEF AgentTypeOK
<1>3. CASE StreamConnects \/ StreamHeartbeat \/ PlanApplied
  <2>1. UNCHANGED <<actors, handles, rev, host>> /\ Rest
    BY <1>3 DEF StreamConnects, StreamHeartbeat, PlanApplied
  <2> QED BY <1>1, <1>2, <2>1, SupervisorKeeps
<1>4. CASE StreamDisconnects
  <2>1. UNCHANGED <<actors, handles, rev>> /\ host' = Spend(host) /\ Rest
    BY <1>4 DEF StreamDisconnects
  <2> QED BY <1>1, <1>2, <2>1, SupervisorKeeps
<1>5. CASE HandlePlan
  <2>1. UNCHANGED <<actors, handles, host>> /\ rev' \in Nat /\ Rest
    BY <1>2, <1>5 DEF HandlePlan
  <2> QED BY <1>1, <1>2, <2>1, SupervisorKeeps
<1>6. CASE \E i \in Insts : StopAbsent(i)
  <2>1. PICK i \in Insts : StopAbsent(i)
    BY <1>6
  <2>2. SupervisorStops(i) /\ UNCHANGED <<rev, host>> /\ Rest
    BY <2>1 DEF StopAbsent
  <2>3. Mailed(actors') /\ handles' \in [Insts -> 0 .. Len(actors')]
    BY <1>1, <2>2, StopsMailed
  <2> QED BY <1>1, <1>2, <2>2, <2>3, SupervisorKeeps
<1>7. CASE \E i \in Insts : EnsureAssigned(i)
  <2>1. PICK i \in Insts : EnsureAssigned(i)
    BY <1>7
  <2>2. UNCHANGED <<rev, host>> /\ Rest
    BY <2>1 DEF EnsureAssigned
  <2>3. Mailed(actors') /\ handles' \in [Insts -> 0 .. Len(actors')]
    BY <1>1, <2>1, EnsureMailed
  <2> QED BY <1>1, <1>2, <2>2, <2>3, SupervisorKeeps
<1>8. CASE SupervisorTick
  <2>1. PICK F : F = [a \in 1 .. Len(actors) |->
                    IF \E i \in Insts : handles[i] = a /\ Alive(a) /\ HasRoom(a)
                                        /\ TickMsg \notin {actors[a].box[k] : k \in 1 .. Len(actors[a].box)}
                    THEN [actors[a] EXCEPT !.box = Append(@, TickMsg)] ELSE actors[a]]
    OBVIOUS
  <2>2. ASSUME NEW a \in 1 .. Len(actors)
        PROVE  F[a] = actors[a] \/ \E q \in Seq(Message) : F[a] = [actors[a] EXCEPT !.box = q]
    <3>1. actors[a] \in Actor
      BY <1>2
    <3>2. Append(actors[a].box, TickMsg) \in Seq(Message)
      BY <3>1, StopMsgType DEF Actor
    <3> QED BY <2>1, <3>2
  <2>3. actors' = F /\ UNCHANGED <<handles, rev, host>> /\ Rest
    BY <1>8, <2>1 DEF SupervisorTick
  <2>4. actors' = [a \in 1 .. Len(actors) |-> F[a]]
    BY <2>1, <2>3
  <2>5. Mailed(actors') /\ Len(actors') = Len(actors)
    BY <1>1, <2>2, <2>4, AllMailed
  <2>6. handles' \in [Insts -> 0 .. Len(actors')]
    BY <1>2, <2>3, <2>5
  <2> QED BY <1>1, <1>2, <2>3, <2>5, <2>6, SupervisorKeeps
<1>9. CASE Shutdown
  <2>1. PICK F : F = [a \in 1 .. Len(actors) |->
                    IF actors[a].alive THEN [actors[a] EXCEPT !.box = <<StopMsg>>] ELSE actors[a]]
    OBVIOUS
  <2>2. ASSUME NEW a \in 1 .. Len(actors)
        PROVE  F[a] = actors[a] \/ \E q \in Seq(Message) : F[a] = [actors[a] EXCEPT !.box = q]
    <3>1. <<StopMsg>> \in Seq(Message)
      BY StopMsgType
    <3> QED BY <2>1, <3>1
  <2>3. actors' = F /\ handles' = [i \in Insts |-> None] /\ UNCHANGED <<rev, host>> /\ Rest
    BY <1>9, <2>1 DEF Shutdown
  <2>4. actors' = [a \in 1 .. Len(actors) |-> F[a]]
    BY <2>1, <2>3
  <2>5. Mailed(actors') /\ Len(actors') = Len(actors)
    BY <1>1, <2>2, <2>4, AllMailed
  <2>6. handles' \in [Insts -> 0 .. Len(actors')]
    BY <1>2, <2>3, <2>5 DEF None
  <2> QED BY <1>1, <1>2, <2>3, <2>5, <2>6, SupervisorKeeps
<1>10. CASE \E a \in 1 .. Len(actors) : HandleMessage(a)
  BY <1>1, <1>10, HandleMessageKeeps
<1> QED BY <1>3, <1>4, <1>5, <1>6, <1>7, <1>8, <1>9, <1>10 DEF ActorsNext

----------------------------------------------------------------------------
(* The theorems.                                                           *)

\* The inductive invariant of the agent, its guests and its host.
THEOREM AgentInvariant == AgentSpec => []AgentInv
<1>1. AgentInit => AgentInv
  BY AgentInvInit
<1>2. ASSUME AgentInv, PlanInv, [AgentNext]_nodevars
      PROVE  AgentInv'
  <2>1. CASE PlanChanges
    BY <1>2, <2>1, StutterKeeps DEF PlanChanges, mvars, avars
  <2>2. CASE GuestNext
    BY <1>2, <2>2, GuestNextKeeps
  <2>3. CASE ManagerNext
    BY <1>2, <2>3, ManagerNextKeeps
  <2>4. CASE ActorsNext
    BY <1>2, <2>4, ActorsNextKeeps
  <2>5. CASE RestartAgent \/ RebootHost
    BY <1>2, <2>5, BeginsKeeps DEF RestartAgent, RebootHost
  <2>6. CASE mode = "images" /\ ImageNext /\ UNCHANGED <<gvars, mvars, avars, plan, mode, restarts>>
    BY <1>2, <2>6, StutterKeeps DEF mvars, avars
  <2>7. CASE UNCHANGED nodevars
    BY <1>2, <2>7, StutterKeeps DEF nodevars, mvars, avars
  <2> QED BY <1>2, <2>1, <2>2, <2>3, <2>4, <2>5, <2>6, <2>7 DEF AgentNext
<1> QED BY <1>1, <1>2, PlansAreNamed, PTL DEF AgentSpec

\* In both modes an instance is called ready only after the guest of the very VM whose handle
\* is held said so: boot ids are not reused within a process of the agent, a hello names the
\* boot it belongs to, and a status counts for the process that holds that boot.
THEOREM ReadyWasSaid == AgentSpec => []ReadyMeansSaidSo
<1>1. AgentInv => ReadyMeansSaidSo
  BY DEF AgentInv
<1> QED BY <1>1, AgentInvariant, PTL

\* Every VM is in the table of the runtime or is one a start or an agent process left behind,
\* whoever is in the table has somebody with its handle or an actor that gave it up, and image
\* references are those of the table and of processes left behind.
THEOREM VmsAreAccountedFor == AgentSpec => []VmsAccountedFor
<1>1. ASSUME AgentInv
      PROVE  VmsAccountedFor
  <2>1. HostInv(host) /\ OwnerInv /\ AgentTypeOK
    BY <1>1 DEF AgentInv
  <2>2. \A v \in host.vms : v.n \in host.lost \/ host.table[v.inst].n = v.n
    BY <2>1 DEF HostInv, TableInv
  <2>3. ASSUME NEW i \in Insts, host.table[i].n \in Live(host)
        PROVE  \/ insts[i].n = host.table[i].n
               \/ \E a \in 1 .. Len(actors) : actors[a].inst = i
                     /\ \/ actors[a].n = host.table[i].n
                        \/ actors[a].phase \in {"failed", "stopped"} /\ actors[a].n = None
    <3>1. host.table[i] # NoEntry
      BY <2>1, <2>3, NoEntryFields DEF HostInv, TableInv, Live
    <3>2. CASE mode = "legacy"
      BY <2>1, <3>2 DEF OwnerInv
    <3>3. CASE mode = "actors"
      BY <2>1, <3>1, <3>3 DEF OwnerInv, Keeps
    <3>4. CASE mode = "images"
      BY <2>1, <3>1, <3>4 DEF OwnerInv
    <3> QED BY <2>1, <3>2, <3>3, <3>4 DEF AgentTypeOK
  <2>4. \A r \in Releases :
          host.refs[r] = Cardinality({i \in Insts : host.table[i].rel = r}) + host.kept[r]
    BY <2>1 DEF HostInv, RefsInv, Users
  <2> QED BY <2>2, <2>3, <2>4 DEF VmsAccountedFor
<1> QED BY <1>1, AgentInvariant, PTL

\* A plan's mounts are already in the order the drives are attached in.
LEMMA DrivesInOrder ==
    ASSUME NEW vols \in Seq(Nat),
           \A j, k \in 1 .. Len(vols) : j <= k => vols[j] <= vols[k]
    PROVE  Drives(vols) = vols
<1>1. Len(vols) \in Nat /\ vols = [k \in 1 .. Len(vols) |-> vols[k]]
  OBVIOUS
<1> DEFINE Below(v) == {j \in 1 .. Len(vols) : vols[j] < v}
           UpTo(v) == {j \in 1 .. Len(vols) : vols[j] <= v}
           Is(k, v) == Cardinality(Below(v)) < k /\ Cardinality(UpTo(v)) >= k
<1>2. ASSUME NEW k \in 1 .. Len(vols)
      PROVE  (CHOOSE v \in {vols[j] : j \in 1 .. Len(vols)} : Is(k, v)) = vols[k]
  <2>1. /\ IsFiniteSet(1 .. k) /\ Cardinality(1 .. k) = k
        /\ IsFiniteSet(1 .. (k - 1)) /\ Cardinality(1 .. (k - 1)) = k - 1
        /\ IsFiniteSet(1 .. Len(vols))
    <3>1. 1 \in Int /\ k \in Int /\ k - 1 \in Int /\ Len(vols) \in Int /\ k >= 1
      BY <1>1
    <3> QED BY ONLY <3>1, FS_Interval
  <2>2. \A v : /\ IsFiniteSet(Below(v)) /\ IsFiniteSet(UpTo(v))
    <3>1. \A v : Below(v) \subseteq 1 .. Len(vols) /\ UpTo(v) \subseteq 1 .. Len(vols)
      OBVIOUS
    <3> HIDE DEF Below, UpTo
    <3> QED BY <2>1, <3>1, FS_Subset
  <2>3. ASSUME NEW S, NEW T, IsFiniteSet(T), S \subseteq T
        PROVE  Cardinality(S) <= Cardinality(T)
    BY <2>3, FS_Subset
  <2>4. \A v : Cardinality(Below(v)) \in Nat /\ Cardinality(UpTo(v)) \in Nat
    <3> HIDE DEF Below, UpTo
    <3> QED BY <2>2, FS_CardinalityType
  <2>5. Is(k, vols[k])
    <3>1. Below(vols[k]) \subseteq 1 .. (k - 1)
      <4> SUFFICES ASSUME NEW j \in 1 .. Len(vols), vols[j] < vols[k] PROVE j \in 1 .. (k - 1)
        OBVIOUS
      <4>1. vols[j] \in Nat /\ vols[k] \in Nat
        OBVIOUS
      <4>2. ~(k <= j)
        BY <4>1
      <4> QED BY <4>2
    <3>2. 1 .. k \subseteq UpTo(vols[k])
      BY <1>1
    <3> HIDE DEF Below, UpTo
    <3>3. Cardinality(Below(vols[k])) <= k - 1
      BY <2>1, <2>3, <3>1
    <3>4. k <= Cardinality(UpTo(vols[k]))
      BY <2>1, <2>2, <2>3, <3>2
    <3> QED BY <2>4, <3>3, <3>4
  <2>6. ASSUME NEW v \in {vols[j] : j \in 1 .. Len(vols)}, Is(k, v)
        PROVE  v = vols[k]
    <3>1. v \in Nat /\ vols[k] \in Nat
      OBVIOUS
    <3>2. CASE v > vols[k]
      <4>1. 1 .. k \subseteq Below(v)
        <5> SUFFICES ASSUME NEW j \in 1 .. k PROVE j \in 1 .. Len(vols) /\ vols[j] < v
          OBVIOUS
        <5>1. j \in 1 .. Len(vols) /\ j <= k
          BY <1>1
        <5>2. vols[j] <= vols[k] /\ vols[j] \in Nat
          BY <5>1
        <5> QED BY <3>1, <3>2, <5>1, <5>2
      <4> HIDE DEF Below, UpTo
      <4>2. k <= Cardinality(Below(v))
        BY <2>1, <2>2, <2>3, <4>1
      <4> QED BY <2>4, <2>6, <4>2
    <3>3. CASE v < vols[k]
      <4>1. UpTo(v) \subseteq 1 .. (k - 1)
        <5> SUFFICES ASSUME NEW j \in 1 .. Len(vols), vols[j] <= v PROVE j \in 1 .. (k - 1)
          OBVIOUS
        <5>1. vols[j] \in Nat
          OBVIOUS
        <5>2. ~(k <= j)
          BY <3>1, <3>3, <5>1
        <5> QED BY <5>2
      <4> HIDE DEF Below, UpTo
      <4>2. Cardinality(UpTo(v)) <= k - 1
        BY <2>1, <2>3, <4>1
      <4> QED BY <2>4, <2>6, <4>2
    <3> QED BY <3>1, <3>2, <3>3
  <2>7. vols[k] \in {vols[j] : j \in 1 .. Len(vols)}
    OBVIOUS
  <2> HIDE DEF Is
  <2> QED BY <2>5, <2>6, <2>7
<1>3. Drives(vols) = [k \in 1 .. Len(vols) |->
          CHOOSE v \in {vols[j] : j \in 1 .. Len(vols)} : Is(k, v)]
  BY DEF Drives
<1> HIDE DEF Is
<1> QED BY <1>1, <1>2, <1>3

\* A guest that took its configuration from the agent that started it was told the volumes of
\* the plan its VM was built from, in the order of the drives.
THEOREM ConfigurationFits == AgentSpec => []ConfiguredAsBuilt
<1>1. \A r \in Releases : Drives(Volumes[r]) = Volumes[r]
  <2> SUFFICES ASSUME NEW r \in Releases PROVE Drives(Volumes[r]) = Volumes[r]
    OBVIOUS
  <2>1. PICK vols : vols = Volumes[r]
    OBVIOUS
  <2>2. vols \in Seq(Nat) /\ \A j, k \in 1 .. Len(vols) : j <= k => vols[j] <= vols[k]
    BY <2>1, RuntimeAssumption
  <2> QED BY <2>1, <2>2, DrivesInOrder
<1>2. ASSUME AgentInv
      PROVE  ConfiguredAsBuilt
  <2>1. \A v \in host.vms : v.rel \in Releases
    BY <1>2 DEF AgentInv, HostInv, Host, Vm
  <2> QED BY <1>1, <1>2, <2>1 DEF AgentInv, ConfigInv, ConfiguredAsBuilt
<1> QED BY <1>2, AgentInvariant, PTL
=============================================================================
