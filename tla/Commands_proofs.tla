--------------------------- MODULE Commands_proofs ---------------------------
(***************************************************************************)
(* Proofs about the commands of the control plane, for any number of       *)
(* handlers, keys and events.                                              *)
(*                                                                         *)
(* EnvCommands: resource_version never counts more events than the         *)
(* projection has applied, and the projection never has applied more than  *)
(* the log holds.  So a request that numbers its event resource_version+1  *)
(* and finds that number free had loaded a row that was up to date.        *)
(*                                                                         *)
(* ResourceCommands: ResourceInv says that the log is well-formed, that    *)
(* the rows are what its applied prefix says, and that what a handler      *)
(* holds fits the log or has lost its number.  OwnersInv and KeysInv add   *)
(* what survives as long as nothing was raced for: an owner that no        *)
(* handler is about to take away, and keys that were free when set.        *)
(* WalkInv follows a client through the pages of a list.                   *)
(***************************************************************************)
EXTENDS EnvCommands, ResourceCommands, FiniteSetTheorems, TLAPS

\* The first event creates the environment, and no other does.
CreatedFirst ==
    \A i \in 1 .. Len(log) : log[i].kind = "created" <=> i = 1

\* What the envs_view row says about the applied prefix of the log.
RowReflectsPrefix ==
    /\ env.status = "absent" <=> applied = 0
    /\ env.version <= applied
    /\ env.status = "deleted" <=> \E i \in 1 .. applied : log[i].kind = "deleted"

\* An update waiting to be projected finds the row as it was when it was appended.
UpdatesCounted ==
    \A i \in 1 .. Len(log) :
        log[i].kind = "updated" =>
            IF i <= applied THEN env.version >= i
            ELSE applied = i - 1 /\ env.version = i - 1

ByVersion(c) == req[c].op \in {"update", "delete"}

\* A request between its load and its append.
LoadedOK(c) ==
    req[c].phase = "loaded" =>
        /\ Len(log) >= 1
        /\ req[c].seq >= 1
        /\ ByVersion(c) =>
            /\ req[c].seq <= Len(log) + 1
            /\ \A i \in 1 .. req[c].seq - 1 : log[i].kind # "deleted"
            /\ req[c].seq = Len(log) + 1 => applied = Len(log) /\ env.version = applied
        /\ req[c].op = "update" => req[c].expected = req[c].seq - 1
        /\ req[c].op = "scale" => req[c].expected <= scaleVersion

NumberingOK(c) ==
    req[c].phase = "numbering" =>
        Len(log) >= 1 /\ req[c].op = "scale" /\ req[c].expected <= scaleVersion

\* A request whose event is in the log.
WaitingOK(c) ==
    req[c].phase = "waiting" =>
        /\ req[c].seq \in 1 .. Len(log)
        /\ req[c].op = "update" =>
            log[req[c].seq].kind = "updated" /\ req[c].expected = req[c].seq - 1
        /\ req[c].op = "scale" =>
            /\ log[req[c].seq].kind = "scale_set"
            /\ IF req[c].seq <= applied THEN req[c].expected < scaleVersion
               ELSE req[c].expected <= scaleVersion

EnvInv ==
    /\ TypeOK
    /\ CreatedFirst
    /\ RowReflectsPrefix
    /\ UpdatesCounted
    /\ UpdatesSerialized
    /\ NothingAfterDelete
    /\ ReadYourWrites
    /\ \A c \in Clients : LoadedOK(c) /\ NumberingOK(c) /\ WaitingOK(c)

----------------------------------------------------------------------------

\* What appending one event does to the history.
LEMMA AppendFacts ==
    ASSUME NEW s \in Seq(Event), NEW e \in Event
    PROVE  /\ Append(s, e) \in Seq(Event)
           /\ Len(Append(s, e)) = Len(s) + 1
           /\ \A i \in 1 .. Len(s) : Append(s, e)[i] = s[i]
           /\ Append(s, e)[Len(s) + 1] = e
    OBVIOUS

\* The first state of the environment's commands.
LEMMA InitEstablishes == Init => EnvInv
    BY DEF Init, EnvInv, TypeOK, Event, EnvRow, Request, Answers, CreatedFirst,
           RowReflectsPrefix, UpdatesCounted, UpdatesSerialized, NothingAfterDelete,
           ReadYourWrites, LoadedOK, NumberingOK, WaitingOK

\* A step that changes only what client c is doing.
LEMMA OneRequestChanges ==
    ASSUME EnvInv, NEW c \in Clients,
           UNCHANGED <<log, applied, env, scaleVersion>>,
           req' \in [Clients -> Request],
           \A d \in Clients \ {c} : req'[d] = req[d],
           LoadedOK(c)', NumberingOK(c)', WaitingOK(c)',
           req'[c].answer = "ok" /\ req'[c].op # "delete" => req'[c].version > req'[c].expected
    PROVE  EnvInv'
<1>1. TypeOK' /\ CreatedFirst' /\ RowReflectsPrefix' /\ UpdatesCounted'
      /\ UpdatesSerialized' /\ NothingAfterDelete'
    BY DEF EnvInv, TypeOK, CreatedFirst, RowReflectsPrefix, UpdatesCounted,
           UpdatesSerialized, NothingAfterDelete
<1>2. ReadYourWrites'
    BY DEF EnvInv, ReadYourWrites
<1>3. ASSUME NEW d \in Clients \ {c}
      PROVE  LoadedOK(d)' /\ NumberingOK(d)' /\ WaitingOK(d)'
    BY <1>3 DEF EnvInv, LoadedOK, NumberingOK, WaitingOK, ByVersion
<1> QED
    BY <1>1, <1>2, <1>3 DEF EnvInv

\* create_env.
LEMMA CreateEnvPreserves == EnvInv /\ CreateEnv => EnvInv'
<1> SUFFICES ASSUME EnvInv, CreateEnv PROVE EnvInv'
    OBVIOUS
<1> DEFINE e == [kind |-> "created", expected |-> 0]
<1>1. /\ log = <<>> /\ log' = Append(log, e) /\ e \in Event /\ log \in Seq(Event)
      /\ UNCHANGED <<applied, env, scaleVersion, req>>
    BY DEF CreateEnv, Append1, Event, EnvInv, TypeOK
<1>2. log' \in Seq(Event) /\ Len(log') = 1 /\ log'[1] = e
    BY <1>1, AppendFacts
<1>3. Len(log) = 0 /\ applied = 0
    BY <1>1 DEF EnvInv, TypeOK
<1>4. \A c \in Clients : req[c].phase \notin {"loaded", "numbering", "waiting"}
    <2> TAKE c \in Clients
    <2>1. LoadedOK(c) /\ NumberingOK(c) /\ WaitingOK(c)
        BY DEF EnvInv
    <2> QED
        BY <2>1, <1>3 DEF LoadedOK, NumberingOK, WaitingOK
<1> QED
    BY <1>1, <1>2, <1>3, <1>4
    DEF EnvInv, TypeOK, CreatedFirst, RowReflectsPrefix, UpdatesCounted,
        UpdatesSerialized, NothingAfterDelete, ReadYourWrites, LoadedOK, NumberingOK, WaitingOK

\* A handler loads the row it will change.
LEMMA LoadPreserves ==
    ASSUME EnvInv, NEW c \in Clients, NEW v \in Nat,
           LoadForUpdate(c, v) \/ LoadForDelete(c) \/ LoadForScale(c, v)
    PROVE  EnvInv'
<1> DEFINE r == req'[c]
<1>1. /\ UNCHANGED <<log, applied, env, scaleVersion>>
      /\ \A d \in Clients \ {c} : req'[d] = req[d]
    BY DEF LoadForUpdate, LoadForDelete, LoadForScale, EnvInv, TypeOK
<1>2. log \in Seq(Event) /\ applied \in 0 .. Len(log) /\ env \in EnvRow /\ scaleVersion \in Nat
      /\ req \in [Clients -> Request] /\ Len(log) \in Nat
    BY DEF EnvInv, TypeOK
<1>3. \/ \E op \in {"update", "delete", "scale"},
            a \in {"ok", "not_found", "version_conflict"}, w \in Nat :
            /\ r = Answered(op, w, a)
            /\ a = "ok" => op = "delete"
      \/ Visible /\ r = Loaded("loaded", "update", env.version, env.version + 1)
      \/ Visible /\ r = Loaded("loaded", "delete", 0, env.version + 1)
      \/ Visible /\ r = Loaded("numbering", "scale", scaleVersion, 0)
    BY <1>2 DEF LoadForUpdate, LoadForDelete, LoadForScale, Visible, EnvRow
<1>4. CASE \E op \in {"update", "delete", "scale"},
            a \in {"ok", "not_found", "version_conflict"}, w \in Nat :
            /\ r = Answered(op, w, a)
            /\ a = "ok" => op = "delete"
    <2>1. r \in Request /\ r.phase = "answered" /\ (r.answer = "ok" => r.op = "delete")
        BY <1>4 DEF Answered, Request, Answers
    <2>2. req' \in [Clients -> Request]
        BY <2>1, <1>1, <1>2 DEF LoadForUpdate, LoadForDelete, LoadForScale
    <2> QED
        BY <2>1, <2>2, <1>1, OneRequestChanges DEF LoadedOK, NumberingOK, WaitingOK
<1>5. CASE \/ Visible /\ r = Loaded("loaded", "update", env.version, env.version + 1)
           \/ Visible /\ r = Loaded("loaded", "delete", 0, env.version + 1)
           \/ Visible /\ r = Loaded("numbering", "scale", scaleVersion, 0)
    <2>1. /\ r \in Request /\ r.answer = "none" /\ r.phase \in {"loaded", "numbering"}
          /\ r.phase = "loaded" => /\ r.seq = env.version + 1 /\ r.op \in {"update", "delete"}
                                   /\ r.op = "update" => r.expected = env.version
          /\ r.phase = "numbering" => r.op = "scale" /\ r.expected = scaleVersion
        BY <1>5, <1>2 DEF Loaded, Request, Answers, EnvRow
    <2>2. req' \in [Clients -> Request]
        BY <2>1, <1>1, <1>2 DEF LoadForUpdate, LoadForDelete, LoadForScale
    <2>3. /\ applied >= 1 /\ env.version <= applied
          /\ env.version \in Nat /\ \A i \in 1 .. applied : log[i].kind # "deleted"
        BY <1>5, <1>2 DEF Visible, EnvInv, RowReflectsPrefix, EnvRow
    <2>4. LoadedOK(c)'
        BY <2>1, <2>3, <1>1, <1>2, SMTT(30) DEF LoadedOK, ByVersion
    <2>5. NumberingOK(c)' /\ WaitingOK(c)'
        BY <2>1, <2>3, <1>1, <1>2 DEF NumberingOK, WaitingOK
    <2> QED
        BY <2>1, <2>2, <2>4, <2>5, <1>1, OneRequestChanges
<1> QED
    BY <1>3, <1>4, <1>5

\* update_scale reads the number of its event after the row.
LEMMA NumberPreserves ==
    ASSUME EnvInv, NEW c \in Clients, NumberScale(c)
    PROVE  EnvInv'
<1>1. /\ UNCHANGED <<log, applied, env, scaleVersion>>
      /\ \A d \in Clients \ {c} : req'[d] = req[d]
      /\ req' = [req EXCEPT ![c].phase = "loaded", ![c].seq = Len(log) + 1]
      /\ req[c].phase = "numbering" /\ req[c] \in Request /\ Len(log) \in Nat
      /\ scaleVersion \in Nat /\ req \in [Clients -> Request]
    BY DEF NumberScale, EnvInv, TypeOK
<1>2. Len(log) >= 1 /\ req[c].op = "scale" /\ req[c].expected <= scaleVersion
    BY <1>1 DEF EnvInv, NumberingOK
<1>3. /\ req'[c] \in Request /\ req'[c].phase = "loaded" /\ req'[c].seq = Len(log) + 1
      /\ req'[c].op = "scale" /\ req'[c].expected = req[c].expected
      /\ req'[c].answer = req[c].answer /\ req'[c].version = req[c].version
    <2>1. req'[c] = [req[c] EXCEPT !.phase = "loaded", !.seq = Len(log) + 1]
        BY <1>1
    <2>2. Len(log) + 1 \in Nat
        BY <1>1
    <2> QED
        BY <2>1, <2>2, <1>1, <1>2 DEF Request
<1>4. req' \in [Clients -> Request]
    BY <1>1, <1>3
<1>5. LoadedOK(c)' /\ NumberingOK(c)' /\ WaitingOK(c)'
    BY <1>1, <1>2, <1>3 DEF LoadedOK, NumberingOK, WaitingOK, ByVersion
<1>6. req'[c].answer = "ok" /\ req'[c].op # "delete" => req'[c].version > req'[c].expected
    BY <1>2, <1>3 DEF EnvInv, ReadYourWrites
<1> QED
    BY <1>1, <1>4, <1>5, <1>6, OneRequestChanges

\* A request that ends without success.
LEMMA RefusalPreserves ==
    ASSUME EnvInv, NEW c \in Clients,
           NameExists(c) \/ AppendConflict(c) \/ ProjectionTimeout(c) \/ Abort(c)
    PROVE  EnvInv'
<1>1. /\ UNCHANGED <<log, applied, env, scaleVersion>>
      /\ req \in [Clients -> Request]
      /\ \A d \in Clients \ {c} : req'[d] = req[d]
    BY DEF NameExists, AppendConflict, ProjectionTimeout, Abort, Respond, EnvInv, TypeOK
<1>2. \E a \in Answers \ {"ok"} : Respond(c, a, 0)
    BY DEF NameExists, AppendConflict, ProjectionTimeout, Abort, Answers
<1>3. req' \in [Clients -> Request] /\ req'[c].phase = "answered" /\ req'[c].answer # "ok"
    <2>1. PICK a \in Answers, w \in Nat : Respond(c, a, w) /\ a # "ok"
        BY <1>2
    <2>2. req[c] \in Request
        BY <1>1
    <2>3. req' \in [Clients -> Request] /\ req'[c].phase = "answered" /\ req'[c].answer = a
        BY <2>1, <2>2, <1>1 DEF Respond, Request
    <2> QED
        BY <2>1, <2>3
<1> QED
    BY <1>1, <1>3, OneRequestChanges DEF LoadedOK, NumberingOK, WaitingOK

\* A handler answers once its event is projected.
LEMMA AnswerPreserves ==
    ASSUME EnvInv, NEW c \in Clients, AnswerMaterialized(c)
    PROVE  EnvInv'
<1>1. /\ UNCHANGED <<log, applied, env, scaleVersion>>
      /\ req \in [Clients -> Request] /\ req[c] \in Request
      /\ env \in EnvRow /\ scaleVersion \in Nat
      /\ req[c].phase = "waiting" /\ applied >= req[c].seq
      /\ Len(log) \in Nat /\ applied \in Nat
    BY DEF AnswerMaterialized, EnvInv, TypeOK
<1>2. \E a \in Answers, w \in Nat :
        /\ Respond(c, a, w)
        /\ a = "ok" /\ req[c].op = "update" => w = env.version
        /\ a = "ok" /\ req[c].op = "scale" => w = scaleVersion
    BY <1>1 DEF AnswerMaterialized, Answers, EnvRow, Request
<1>3. PICK a \in Answers, w \in Nat :
        /\ Respond(c, a, w)
        /\ a = "ok" /\ req[c].op = "update" => w = env.version
        /\ a = "ok" /\ req[c].op = "scale" => w = scaleVersion
    BY <1>2
<1>4. /\ req' \in [Clients -> Request]
      /\ \A d \in Clients \ {c} : req'[d] = req[d]
      /\ req'[c].phase = "answered" /\ req'[c].answer = a /\ req'[c].version = w
      /\ req'[c].op = req[c].op /\ req'[c].expected = req[c].expected
    BY <1>1, <1>3 DEF Respond, Request
<1>5. /\ req[c].op = "update" => env.version > req[c].expected
      /\ req[c].op = "scale" => scaleVersion > req[c].expected
    <2>1. WaitingOK(c) /\ UpdatesCounted
        BY DEF EnvInv
    <2> QED
        BY <2>1, <1>1 DEF WaitingOK, UpdatesCounted, EnvRow, Request
<1>6. req'[c].answer = "ok" /\ req'[c].op # "delete" => req'[c].version > req'[c].expected
    BY <1>1, <1>3, <1>4, <1>5 DEF Request
<1> QED
    BY <1>1, <1>4, <1>6, OneRequestChanges DEF LoadedOK, NumberingOK, WaitingOK

\* The event store appends the event of a handler.
LEMMA AppendPreserves ==
    ASSUME EnvInv, NEW c \in Clients, AppendEvent(c)
    PROVE  EnvInv'
<1> DEFINE e == EventOf(c)
           n == Len(log)
<1>1. /\ log \in Seq(Event) /\ n \in Nat /\ applied \in 0 .. n
      /\ env \in EnvRow /\ scaleVersion \in Nat /\ req \in [Clients -> Request]
      /\ UNCHANGED <<applied, env, scaleVersion>>
      /\ req[c].phase = "loaded" /\ req[c].seq = n + 1 /\ log' = Append(log, e)
    BY DEF AppendEvent, Append1, EnvInv, TypeOK
<1>2. /\ e \in Event /\ e.expected = req[c].expected
      /\ req[c].op = "update" => e.kind = "updated"
      /\ req[c].op = "delete" => e.kind = "deleted"
      /\ req[c].op = "scale" => e.kind = "scale_set"
      /\ req[c].op \in {"update", "delete", "scale"}
    BY <1>1 DEF EventOf, Event, Request
<1>3. /\ log' \in Seq(Event) /\ Len(log') = n + 1
      /\ \A i \in 1 .. n : log'[i] = log[i]
      /\ log'[n + 1] = e
    BY <1>1, <1>2, AppendFacts
<1>4. \A d \in Clients :
        /\ req'[d] \in Request
        /\ req'[d].phase = IF d = c THEN "waiting" ELSE req[d].phase
        /\ req'[d].op = req[d].op /\ req'[d].seq = req[d].seq
        /\ req'[d].expected = req[d].expected
        /\ req'[d].answer = req[d].answer /\ req'[d].version = req[d].version
    BY <1>1 DEF AppendEvent, Request
<1>5. req' \in [Clients -> Request]
    BY <1>1, <1>4 DEF AppendEvent, Request
<1>6. LoadedOK(c)
    BY DEF EnvInv
<1>7. TypeOK'
    BY <1>1, <1>3, <1>5 DEF TypeOK
<1>8. CreatedFirst'
    BY <1>1, <1>2, <1>3, <1>6 DEF EnvInv, CreatedFirst, LoadedOK
<1>9. RowReflectsPrefix'
    BY <1>1, <1>3 DEF EnvInv, RowReflectsPrefix
<1>10. UpdatesCounted'
    <2> SUFFICES ASSUME NEW i \in 1 .. n + 1, log'[i].kind = "updated"
                 PROVE  IF i <= applied THEN env.version >= i
                        ELSE applied = i - 1 /\ env.version = i - 1
        BY <1>1, <1>3 DEF UpdatesCounted
    <2>1. CASE i <= n
        BY <2>1, <1>1, <1>3 DEF EnvInv, UpdatesCounted
    <2>2. CASE i = n + 1
        BY <2>2, <1>1, <1>2, <1>3, <1>6 DEF LoadedOK, ByVersion
    <2> QED
        BY <2>1, <2>2, <1>1
<1>11. UpdatesSerialized'
    BY <1>1, <1>2, <1>3, <1>6 DEF EnvInv, UpdatesSerialized, LoadedOK
<1>12. NothingAfterDelete'
    <2> SUFFICES ASSUME NEW i \in 1 .. n + 1, NEW j \in 1 .. n + 1,
                        i < j, log'[i].kind = "deleted"
                 PROVE  log'[j].kind = "scale_set"
        BY <1>3 DEF NothingAfterDelete
    <2>1. CASE j <= n
        BY <2>1, <1>1, <1>3 DEF EnvInv, NothingAfterDelete
    <2>2. CASE j = n + 1
        BY <2>2, <1>1, <1>2, <1>3, <1>6 DEF LoadedOK, ByVersion
    <2> QED
        BY <2>1, <2>2, <1>1, SMTT(30)
<1>13. ReadYourWrites'
    BY <1>4 DEF EnvInv, ReadYourWrites
<1>14. ASSUME NEW d \in Clients PROVE LoadedOK(d)'
    <2>1. LoadedOK(d) /\ req[d] \in Request
        BY <1>1 DEF EnvInv
    <2> QED
        BY <2>1, <1>1, <1>3, <1>4 DEF LoadedOK, ByVersion, Request
<1>15. ASSUME NEW d \in Clients PROVE NumberingOK(d)'
    BY <1>1, <1>3, <1>4 DEF EnvInv, NumberingOK
<1>16. ASSUME NEW d \in Clients PROVE WaitingOK(d)'
    <2>1. CASE d = c
        BY <2>1, <1>1, <1>2, <1>3, <1>4, <1>6 DEF LoadedOK, WaitingOK
    <2>2. CASE d # c
        <3>1. WaitingOK(d)
            BY DEF EnvInv
        <3> QED
            BY <3>1, <2>2, <1>1, <1>3, <1>4 DEF WaitingOK
    <2> QED
        BY <2>1, <2>2
<1> QED
    BY <1>7, <1>8, <1>9, <1>10, <1>11, <1>12, <1>13, <1>14, <1>15, <1>16 DEF EnvInv

\* The projections apply the next event.
LEMMA ProjectPreserves ==
    ASSUME EnvInv, Project
    PROVE  EnvInv'
<1> DEFINE n == applied + 1
           k == log[n].kind
<1>1. /\ log \in Seq(Event) /\ Len(log) \in Nat /\ applied \in Nat /\ n \in 1 .. Len(log)
      /\ env \in EnvRow /\ scaleVersion \in Nat /\ req \in [Clients -> Request]
      /\ applied' = n /\ UNCHANGED <<log, req>>
      /\ env' = EnvRowAfter(k)
      /\ k \in {"created", "updated", "deleted", "scale_set"}
    <2>1. TypeOK
        BY DEF EnvInv
    <2>2. /\ log \in Seq(Event) /\ Len(log) \in Nat /\ applied \in Nat /\ n \in 1 .. Len(log)
        BY <2>1 DEF Project, TypeOK
    <2>3. log[n] \in Event
        BY <2>2
    <2>4. k \in {"created", "updated", "deleted", "scale_set"}
        BY <2>3 DEF Event
    <2> QED
        BY <2>1, <2>2, <2>4 DEF Project, TypeOK
<1>2. /\ k = "scale_set" => scaleVersion' = scaleVersion + 1
      /\ scaleVersion' >= scaleVersion /\ scaleVersion' \in Nat
    BY <1>1 DEF Project
<1>3. k = "created" <=> applied = 0
    BY <1>1 DEF EnvInv, CreatedFirst
<1>4. /\ env.status = "absent" <=> applied = 0
      /\ env.version <= applied /\ env.version \in Nat
      /\ env.status = "deleted" <=> \E i \in 1 .. applied : log[i].kind = "deleted"
    BY <1>1 DEF EnvInv, RowReflectsPrefix, EnvRow
<1>5. /\ env' \in EnvRow /\ env'.status # "absent"
      /\ env'.version <= n /\ env'.version >= env.version
      /\ env'.status = "deleted" <=> k = "deleted" \/ env.status = "deleted"
      /\ k = "updated" /\ env.status # "deleted" => env'.version = env.version + 1
    BY <1>1, <1>3, <1>4 DEF EnvRowAfter, EnvRow, Visible
<1>6. TypeOK'
    BY <1>1, <1>2, <1>5 DEF TypeOK
<1>7. CreatedFirst' /\ UpdatesSerialized' /\ NothingAfterDelete' /\ ReadYourWrites'
    BY <1>1 DEF EnvInv, CreatedFirst, UpdatesSerialized, NothingAfterDelete, ReadYourWrites
<1>8. RowReflectsPrefix'
    BY <1>1, <1>3, <1>4, <1>5 DEF RowReflectsPrefix
<1>9. k = "updated" => env.status # "deleted"
    <2> SUFFICES ASSUME k = "updated", env.status = "deleted" PROVE FALSE
        OBVIOUS
    <2> QED
        BY <1>1 DEF EnvInv, RowReflectsPrefix, NothingAfterDelete
<1>10. UpdatesCounted'
    <2> SUFFICES ASSUME NEW i \in 1 .. Len(log), log[i].kind = "updated"
                 PROVE  IF i <= n THEN env'.version >= i
                        ELSE n = i - 1 /\ env'.version = i - 1
        BY <1>1 DEF UpdatesCounted
    <2>1. IF i <= applied THEN env.version >= i ELSE applied = i - 1 /\ env.version = i - 1
        BY DEF EnvInv, UpdatesCounted
    <2>2. env.version \in Nat /\ env'.version \in Nat /\ i \in Nat /\ applied \in Nat
        BY <1>1, <1>5 DEF EnvRow
    <2>3. CASE i <= applied
        BY <2>1, <2>2, <2>3, <1>5
    <2>4. CASE i = applied + 1
        BY <2>1, <2>2, <2>4, <1>5, <1>9
    <2>5. i <= applied \/ i = applied + 1
        BY <2>1, <2>2
    <2> QED
        BY <2>2, <2>3, <2>4, <2>5
<1>11. ASSUME NEW c \in Clients PROVE LoadedOK(c)' /\ NumberingOK(c)' /\ WaitingOK(c)'
    <2>1. LoadedOK(c) /\ NumberingOK(c) /\ WaitingOK(c) /\ req[c] \in Request
        BY <1>1 DEF EnvInv
    <2>2. LoadedOK(c)'
        BY <2>1, <1>1, <1>2, <1>5 DEF LoadedOK, ByVersion, Request
    <2>3. NumberingOK(c)'
        BY <2>1, <1>1, <1>2 DEF NumberingOK, Request
    <2>4. WaitingOK(c)'
        BY <2>1, <1>1, <1>2 DEF WaitingOK, Request
    <2> QED
        BY <2>2, <2>3, <2>4
<1> QED
    BY <1>6, <1>7, <1>8, <1>10, <1>11 DEF EnvInv

\* The default scale of a first deploy only raises the scale's version.
LEMMA DeployScalesPreserves ==
    ASSUME EnvInv, DeployScales PROVE EnvInv'
<1>1. /\ UNCHANGED <<log, applied, env, req>> /\ scaleVersion = 0 /\ scaleVersion' = 1
      /\ req \in [Clients -> Request]
    BY DEF DeployScales, EnvInv, TypeOK
<1>2. TypeOK' /\ CreatedFirst' /\ RowReflectsPrefix' /\ UpdatesCounted'
      /\ UpdatesSerialized' /\ NothingAfterDelete' /\ ReadYourWrites'
    BY <1>1 DEF EnvInv, TypeOK, CreatedFirst, RowReflectsPrefix, UpdatesCounted,
                UpdatesSerialized, NothingAfterDelete, ReadYourWrites
<1>3. ASSUME NEW c \in Clients PROVE LoadedOK(c)' /\ NumberingOK(c)' /\ WaitingOK(c)'
    <2>1. LoadedOK(c) /\ NumberingOK(c) /\ WaitingOK(c) /\ req[c] \in Request
        BY <1>1 DEF EnvInv
    <2> QED
        BY <2>1, <1>1 DEF LoadedOK, NumberingOK, WaitingOK, ByVersion, Request
<1> QED
    BY <1>2, <1>3 DEF EnvInv

----------------------------------------------------------------------------

\* Every step of the environment's commands.
LEMMA NextPreserves == EnvInv /\ [Next]_vars => EnvInv'
<1> SUFFICES ASSUME EnvInv, [Next]_vars PROVE EnvInv'
    OBVIOUS
<1>1. CASE CreateEnv
    BY <1>1, CreateEnvPreserves
<1>2. CASE Project
    BY <1>2, ProjectPreserves
<1>3. ASSUME NEW c \in Clients, NEW v \in 0 .. MaxEvents,
             LoadForUpdate(c, v) \/ LoadForScale(c, v)
      PROVE  EnvInv'
    <2>1. v \in Nat
        BY EnvAssumption
    <2> QED
        BY <1>3, <2>1, LoadPreserves
<1>4. ASSUME NEW c \in Clients, LoadForDelete(c) PROVE EnvInv'
    <2>1. 0 \in Nat
        OBVIOUS
    <2> QED
        BY <1>4, <2>1, LoadPreserves
<1>5. ASSUME NEW c \in Clients,
             NameExists(c) \/ AppendConflict(c) \/ ProjectionTimeout(c) \/ Abort(c)
      PROVE  EnvInv'
    BY <1>5, RefusalPreserves
<1>6. ASSUME NEW c \in Clients, NumberScale(c) PROVE EnvInv'
    BY <1>6, NumberPreserves
<1>7. ASSUME NEW c \in Clients, AppendEvent(c) PROVE EnvInv'
    BY <1>7, AppendPreserves
<1>8. ASSUME NEW c \in Clients, AnswerMaterialized(c) PROVE EnvInv'
    BY <1>8, AnswerPreserves
<1>9. CASE UNCHANGED vars
    BY <1>9 DEF vars, EnvInv, TypeOK, CreatedFirst, RowReflectsPrefix, UpdatesCounted,
                UpdatesSerialized, NothingAfterDelete, ReadYourWrites,
                LoadedOK, NumberingOK, WaitingOK, ByVersion
<1>10. CASE DeployScales
    BY <1>10, DeployScalesPreserves
<1> QED
    BY <1>1, <1>2, <1>3, <1>4, <1>5, <1>6, <1>7, <1>8, <1>9, <1>10 DEF Next

\* The invariant holds in every state of every behaviour of the environment's commands.
THEOREM EnvInvariant == Spec => []EnvInv
    BY InitEstablishes, NextPreserves, PTL DEF Spec

\* update_env never overwrites a change its client had not seen (the expected_version
\* check and the numbering by resource_version + 1, for any number of clients).
THEOREM NoLostUpdate == Spec => []UpdatesSerialized
    BY EnvInvariant, PTL DEF EnvInv

\* update_env and delete_env append nothing to a deleted environment.
THEOREM DeletedIsFinal == Spec => []NothingAfterDelete
    BY EnvInvariant, PTL DEF EnvInv

\* The version that update_env or update_scale returns counts the caller's own write.
THEOREM WritesAreRead == Spec => []ReadYourWrites
    BY EnvInvariant, PTL DEF EnvInv

----------------------------------------------------------------------------
(* The resources of an organization.                                          *)

\* The events of an aggregate among the first n of a log.
Agg(L, n, t, a) == {i \in 1 .. n : L[i].table = t /\ L[i].id = a}

Born(L, n, t, a) == \E i \in 1 .. n : L[i].table = t /\ L[i].id = a /\ L[i].kind = "created"
Gone(L, n, t, a) == \E i \in 1 .. n : L[i].table = t /\ L[i].id = a /\ L[i].kind = "deleted"

\* The kinds of events a table has.
Kinds(t) ==
    CASE t \in {"release", "snapshot"} -> {"created"}
      [] t \in {"org", "project", "bundle", "restore"} -> {"created", "updated"}
      [] t \in {"volume", "attachment", "env"} -> {"created", "deleted"}
      [] OTHER -> {"created", "updated", "deleted"}

\* An event as the log has it: its aggregates have their names.
Logged == {e \in ResourceEvent : e.id >= 1 /\ e.ref >= 0 /\ e.kind \in Kinds(e.table)}

\* The material of a version of a bundle is stored.
Stored(V, b, n, v) == \E s \in V : s.bundle = b /\ s.version = n /\ s.content = v

\* What an event refers to exists before it.
ParentBorn(L, n, e) == ParentTable(e) # "none" => Born(L, n, ParentTable(e), e.ref)

\* Event i fits what comes before it: an aggregate is created once, under a name of its own,
\* before anything else happens to it, and after its delete only deletes come.
EventOK(L, i, V) ==
    /\ L[i].kind = "created" /\ L[i].table # "bundle" => L[i].id = i
    /\ L[i].kind = "created" => Agg(L, i - 1, L[i].table, L[i].id) = {}
    /\ L[i].kind # "created" => Born(L, i - 1, L[i].table, L[i].id)
    /\ L[i].kind # "deleted" => ~Gone(L, i - 1, L[i].table, L[i].id)
    /\ ParentBorn(L, i - 1, L[i])
    /\ L[i].table = "env" => L[i].id = 1
    /\ L[i].table = "bundle" =>
          IF L[i].kind = "created" THEN L[i].ref = 0
          ELSE L[i].ref # 0 /\ Stored(V, L[i].id, L[i].ref, L[i].attr)
    /\ L[i].table = "member" => \A j \in Agg(L, i - 1, "member", L[i].id) :
          L[i].key = L[j].key /\ L[i].ref = L[j].ref

LogOK(L, V) ==
    /\ L \in Seq(Logged)
    /\ \A i \in 1 .. Len(L) : EventOK(L, i, V)

\* Versions are numbered one after the other, and hold what was put.
VersionsOK(V) ==
    /\ IsFiniteSet(V) /\ V \subseteq SecretVersion
    /\ \A s \in V : /\ s.version \in 1 .. Cardinality(V)
                    /\ s = NewVersion(s.bundle, s.version, s.content)
    /\ \A s, u \in V : s.version = u.version => s = u

\* A row of the views and the first n events of its aggregate.
RowOK(r, L, n) ==
    /\ Born(L, n, r.table, r.id)
    /\ r.version = Cardinality(Agg(L, n, r.table, r.id))
    /\ r.live = ~Gone(L, n, r.table, r.id)
    /\ \E i \in Agg(L, n, r.table, r.id) :
          r.ref = L[i].ref /\ (r.table \in {"restore", "bundle"} => r.attr = L[i].attr)
    /\ r.table = "bundle" /\ r.ref = 0 =>
          \A i \in Agg(L, n, r.table, r.id) : L[i].kind = "created"
    /\ r.table = "member" => \A i \in Agg(L, n, r.table, r.id) : r.key = L[i].key

RowsOK(R, L, n) ==
    /\ n \in 0 .. Len(L) /\ R \subseteq ResourceRow
    /\ \A r, s \in R : r.table = s.table /\ r.id = s.id => r = s
    /\ \A i \in 1 .. n : L[i].kind = "created" => \E r \in R : r.table = L[i].table /\ r.id = L[i].id
    /\ \A r \in R : RowOK(r, L, n)
    /\ \A i \in 1 .. Len(L) : L[i].table = "env" /\ L[i].kind = "created" => i <= n

\* An event of an aggregate that is there: numbered n, it is next or its number is taken, and
\* if it is next no delete has come in between.
Existing(L, V, e, n, phase) ==
    /\ e.id >= 1 /\ e.kind \in {"updated", "deleted"} /\ e.kind \in Kinds(e.table)
    /\ e.table \notin {"env", "restore"} /\ e.ref >= 0
    /\ Born(L, Len(L), e.table, e.id) /\ ParentBorn(L, Len(L), e)
    /\ n <= Cardinality(Agg(L, Len(L), e.table, e.id)) + 1
    /\ e.kind = "updated" /\ n = Cardinality(Agg(L, Len(L), e.table, e.id)) + 1 =>
          ~Gone(L, Len(L), e.table, e.id)
    /\ e.table = "member" =>
          \A i \in Agg(L, Len(L), "member", e.id) : L[i].key = e.key /\ L[i].ref = e.ref
    /\ e.table = "bundle" => e.attr \in Values
    /\ e.table = "bundle" /\ phase = "checked" => e.ref # 0 /\ Stored(V, e.id, e.ref, e.attr)
    /\ phase = "numbered" => e.table = "bundle"

\* An event that creates an aggregate by itself.
Fresh(L, e) ==
    /\ e.id = -1 /\ e.kind = "created" /\ e.table \notin {"org", "env", "bundle", "restore"}
    /\ e.ref >= 0 /\ ParentBorn(L, Len(L), e)

\* What a handler holds before its append.
Pending(L, V, q) ==
    \/ q.phase = "checked" /\ \E e \in ResourceEvent : q.batch = <<e>> /\ Fresh(L, e)
    \/ q.phase = "checked" /\ \E k \in Keys : q.batch = OrgWithOwner(k)
    \/ q.phase = "checked" /\ \E s \in ResourceRow :
          Born(L, Len(L), "snapshot", s.id) /\ q.batch = RestoreBatch(s)
    \/ q.phase \in {"loaded", "numbered", "checked"} /\ \E e \in ResourceEvent :
          q.batch = <<e>> /\ Existing(L, V, e, q.seq, q.phase)
    \/ q.phase = "numbered" /\ q.seq = 1 /\ \E v \in Values :
          q.batch = <<Ev("bundle", "created", 0, SecretEnv, 0, v)>>
    \/ q.phase = "checked" /\ q.seq = 1 /\ \E n \in Nat \ {0}, v \in Values :
          Stored(V, n, n, v) /\ q.batch = VersionSet(Ev("bundle", "created", 0, SecretEnv, 0, v), n)

\* What a handler waits for.
Awaited(L, q) ==
    /\ q.shown \in 1 .. q.upto /\ q.upto <= Len(L)
    /\ L[q.shown].table \notin {"restore", "env"}
    /\ L[q.shown].table = "bundle" => L[q.shown].kind = "updated"
    /\ L[q.shown].table = "org" /\ L[q.shown].kind = "created" =>
          /\ L[q.upto].table = "member" /\ L[q.upto].kind = "created"
          /\ L[q.upto].ref = L[q.shown].id

RequestOK(L, V, q) ==
    /\ q.phase \in {"loaded", "numbered", "checked"} => Pending(L, V, q)
    /\ q.phase = "waiting" => Awaited(L, q)

ResourceInv ==
    /\ focus \in Families /\ rworker \in {"running", "failed"}
    /\ LogOK(rlog, sversions) /\ VersionsOK(sversions) /\ RowsOK(rrows, rlog, rdone)
    /\ rreq \in [Handlers -> ResourceRequest]
    /\ \A c \in Handlers : RequestOK(rlog, sversions, rreq[c])

----------------------------------------------------------------------------
(* Logs.                                                                      *)

\* M continues L.
Continues(L, M) ==
    /\ L \in Seq(Logged) /\ M \in Seq(Logged) /\ Len(L) <= Len(M)
    /\ \A i \in 1 .. Len(L) : M[i] = L[i]

\* The events of an aggregate are finitely many positions.
LEMMA AggFinite ==
    ASSUME NEW L, NEW n \in Nat, NEW t, NEW a
    PROVE  IsFiniteSet(Agg(L, n, t, a)) /\ Cardinality(Agg(L, n, t, a)) \in Nat
<1>1. IsFiniteSet(1 .. n)
  BY FS_Interval
<1>2. Agg(L, n, t, a) \in SUBSET (1 .. n)
  BY DEF Agg
<1>3. IsFiniteSet(Agg(L, n, t, a))
  BY <1>1, <1>2, FS_Subset
<1> QED
  BY <1>3, FS_CardinalityType

\* What is said of a prefix depends on the prefix only.
LEMMA SamePrefix ==
    ASSUME NEW L, NEW M, NEW n \in Nat, \A i \in 1 .. n : M[i] = L[i], NEW t, NEW a
    PROVE  /\ Agg(M, n, t, a) = Agg(L, n, t, a)
           /\ Born(M, n, t, a) <=> Born(L, n, t, a)
           /\ Gone(M, n, t, a) <=> Gone(L, n, t, a)
<1>1. Agg(M, n, t, a) = Agg(L, n, t, a)
  BY DEF Agg
<1>2. Born(M, n, t, a) <=> Born(L, n, t, a)
  BY DEF Born
<1>3. Gone(M, n, t, a) <=> Gone(L, n, t, a)
  BY DEF Gone
<1> QED
  BY <1>1, <1>2, <1>3

\* One event more.
LEMMA OneMore ==
    ASSUME NEW L, NEW n \in Nat, NEW t, NEW a
    PROVE  /\ L[n + 1].table = t /\ L[n + 1].id = a =>
                /\ Agg(L, n + 1, t, a) = Agg(L, n, t, a) \cup {n + 1}
                /\ Cardinality(Agg(L, n + 1, t, a)) = Cardinality(Agg(L, n, t, a)) + 1
                /\ Born(L, n + 1, t, a) <=> Born(L, n, t, a) \/ L[n + 1].kind = "created"
                /\ Gone(L, n + 1, t, a) <=> Gone(L, n, t, a) \/ L[n + 1].kind = "deleted"
           /\ ~(L[n + 1].table = t /\ L[n + 1].id = a) =>
                /\ Agg(L, n + 1, t, a) = Agg(L, n, t, a)
                /\ Born(L, n + 1, t, a) <=> Born(L, n, t, a)
                /\ Gone(L, n + 1, t, a) <=> Gone(L, n, t, a)
<1>1. 1 .. (n + 1) = (1 .. n) \cup {n + 1}
  OBVIOUS
<1>2. ASSUME L[n + 1].table = t, L[n + 1].id = a
      PROVE  /\ Agg(L, n + 1, t, a) = Agg(L, n, t, a) \cup {n + 1}
             /\ Born(L, n + 1, t, a) <=> Born(L, n, t, a) \/ L[n + 1].kind = "created"
             /\ Gone(L, n + 1, t, a) <=> Gone(L, n, t, a) \/ L[n + 1].kind = "deleted"
  BY <1>1, <1>2 DEF Agg, Born, Gone
<1>3. ASSUME ~(L[n + 1].table = t /\ L[n + 1].id = a)
      PROVE  /\ Agg(L, n + 1, t, a) = Agg(L, n, t, a)
             /\ Born(L, n + 1, t, a) <=> Born(L, n, t, a)
             /\ Gone(L, n + 1, t, a) <=> Gone(L, n, t, a)
  BY <1>1, <1>3 DEF Agg, Born, Gone
<1>4. IsFiniteSet(Agg(L, n, t, a)) /\ Cardinality(Agg(L, n, t, a)) \in Nat
  BY AggFinite
<1>6. n + 1 \notin Agg(L, n, t, a)
  BY DEF Agg
<1>5. Cardinality(Agg(L, n, t, a) \cup {n + 1}) = Cardinality(Agg(L, n, t, a)) + 1
  BY <1>4, <1>6, FS_AddElement
<1> QED
  BY <1>2, <1>3, <1>5

\* A longer log keeps what the shorter one has.
LEMMA LongerLog ==
    ASSUME NEW L, NEW M, Continues(L, M), NEW t, NEW a
    PROVE  /\ Agg(L, Len(L), t, a) \subseteq Agg(M, Len(M), t, a)
           /\ Cardinality(Agg(L, Len(L), t, a)) <= Cardinality(Agg(M, Len(M), t, a))
           /\ Cardinality(Agg(L, Len(L), t, a)) = Cardinality(Agg(M, Len(M), t, a)) =>
                 Agg(L, Len(L), t, a) = Agg(M, Len(M), t, a)
           /\ Born(L, Len(L), t, a) => Born(M, Len(M), t, a)
           /\ Gone(L, Len(L), t, a) => Gone(M, Len(M), t, a)
<1>1. Len(L) \in Nat /\ Len(M) \in Nat /\ Len(L) <= Len(M)
  BY DEF Continues
<1>2. \A i \in 1 .. Len(L) : i \in 1 .. Len(M) /\ M[i] = L[i]
  BY <1>1 DEF Continues
<1>3. Agg(L, Len(L), t, a) \in SUBSET Agg(M, Len(M), t, a)
  BY <1>2 DEF Agg
<1>4. IsFiniteSet(Agg(M, Len(M), t, a))
  BY <1>1, AggFinite
<1>5. /\ Cardinality(Agg(L, Len(L), t, a)) <= Cardinality(Agg(M, Len(M), t, a))
      /\ Cardinality(Agg(M, Len(M), t, a)) = Cardinality(Agg(L, Len(L), t, a)) =>
            Agg(M, Len(M), t, a) = Agg(L, Len(L), t, a)
  BY <1>3, <1>4, FS_Subset
<1>6. Born(L, Len(L), t, a) => Born(M, Len(M), t, a)
  BY <1>2 DEF Born
<1>7. Gone(L, Len(L), t, a) => Gone(M, Len(M), t, a)
  BY <1>2 DEF Gone
<1> QED
  BY <1>3, <1>5, <1>6, <1>7

\* A prefix of a log and a longer one.
LEMMA LongerPrefix ==
    ASSUME NEW L, NEW m \in Nat, NEW n \in Nat, m <= n, NEW t, NEW a
    PROVE  /\ Agg(L, m, t, a) \subseteq Agg(L, n, t, a)
           /\ Cardinality(Agg(L, m, t, a)) <= Cardinality(Agg(L, n, t, a))
           /\ Cardinality(Agg(L, m, t, a)) = Cardinality(Agg(L, n, t, a)) =>
                 Agg(L, m, t, a) = Agg(L, n, t, a)
           /\ Born(L, m, t, a) => Born(L, n, t, a)
           /\ Gone(L, m, t, a) => Gone(L, n, t, a)
<1>1. \A i \in 1 .. m : i \in 1 .. n
  OBVIOUS
<1>2. Agg(L, m, t, a) \in SUBSET Agg(L, n, t, a)
  BY <1>1 DEF Agg
<1>3. IsFiniteSet(Agg(L, n, t, a))
  BY AggFinite
<1>4. /\ Cardinality(Agg(L, m, t, a)) <= Cardinality(Agg(L, n, t, a))
      /\ Cardinality(Agg(L, n, t, a)) = Cardinality(Agg(L, m, t, a)) =>
            Agg(L, n, t, a) = Agg(L, m, t, a)
  BY <1>2, <1>3, FS_Subset
<1>5. Born(L, m, t, a) => Born(L, n, t, a)
  BY <1>1 DEF Born
<1>6. Gone(L, m, t, a) => Gone(L, n, t, a)
  BY <1>1 DEF Gone
<1> QED
  BY <1>2, <1>4, <1>5, <1>6

\* What was fit stays fit when the log goes on and versions are added.
LEMMA EventStaysOK ==
    ASSUME NEW L, NEW M, Continues(L, M), NEW V, NEW W, V \subseteq W,
           NEW i \in 1 .. Len(L), EventOK(L, i, V)
    PROVE  EventOK(M, i, W)
<1>1. Len(L) \in Nat /\ i - 1 \in Nat /\ M[i] = L[i]
  BY DEF Continues
<1>2. \A j \in 1 .. (i - 1) : M[j] = L[j]
  BY <1>1 DEF Continues
<1>3. \A t, a : /\ Agg(M, i - 1, t, a) = Agg(L, i - 1, t, a)
                /\ Born(M, i - 1, t, a) <=> Born(L, i - 1, t, a)
                /\ Gone(M, i - 1, t, a) <=> Gone(L, i - 1, t, a)
  BY <1>1, <1>2, SamePrefix
<1>4. \A b, n, v : Stored(V, b, n, v) => Stored(W, b, n, v)
  BY DEF Stored
<1>5. ParentBorn(M, i - 1, M[i]) <=> ParentBorn(L, i - 1, L[i])
  BY <1>1, <1>3 DEF ParentBorn
<1>6. \A j \in Agg(L, i - 1, "member", L[i].id) : M[j] = L[j]
  BY <1>2 DEF Agg
<1> QED
  BY <1>1, <1>3, <1>4, <1>5, <1>6 DEF EventOK

\* A log goes on with events that fit.
LEMMA LogContinued ==
    ASSUME NEW L, NEW M, NEW V, NEW W, LogOK(L, V), Continues(L, M), V \subseteq W,
           \A i \in (Len(L) + 1) .. Len(M) : EventOK(M, i, W)
    PROVE  LogOK(M, W)
<1>1. Len(L) \in Nat /\ Len(M) \in Nat /\ M \in Seq(Logged)
  BY DEF Continues
<1>2. ASSUME NEW i \in 1 .. Len(M) PROVE EventOK(M, i, W)
  <2>1. CASE i \in 1 .. Len(L)
    BY <2>1, EventStaysOK DEF LogOK
  <2>2. CASE i \notin 1 .. Len(L)
    BY <2>2, <1>1
  <2> QED
    BY <2>1, <2>2
<1> QED
  BY <1>1, <1>2 DEF LogOK

\* All events of a member have its email and organization.
LEMMA MembersKeep ==
    ASSUME NEW L, NEW V, LogOK(L, V), NEW i \in 1 .. Len(L), NEW j \in 1 .. Len(L),
           L[i].table = "member", L[j].table = "member", L[i].id = L[j].id
    PROVE  L[i].key = L[j].key /\ L[i].ref = L[j].ref
<1>1. EventOK(L, i, V) /\ EventOK(L, j, V) /\ Len(L) \in Nat
  BY DEF LogOK
<1>2. CASE i = j
  BY <1>2
<1>3. CASE i < j
  <2>1. i \in Agg(L, j - 1, "member", L[j].id)
    BY <1>3 DEF Agg
  <2> QED
    BY <2>1, <1>1 DEF EventOK
<1>4. CASE j < i
  <2>1. j \in Agg(L, i - 1, "member", L[i].id)
    BY <1>4 DEF Agg
  <2> QED
    BY <2>1, <1>1 DEF EventOK
<1> QED
  BY <1>1, <1>2, <1>3, <1>4

----------------------------------------------------------------------------
(* What stays true while the log goes on.                                     *)

\* The rows describe a prefix, which does not change.
LEMMA RowsStayOK ==
    ASSUME NEW L, NEW M, NEW R, NEW n, Continues(L, M), RowsOK(R, L, n),
           \A i \in (Len(L) + 1) .. Len(M) : ~(M[i].table = "env" /\ M[i].kind = "created")
    PROVE  RowsOK(R, M, n)
<1>1. /\ Len(L) \in Nat /\ Len(M) \in Nat /\ Len(L) <= Len(M) /\ n \in 0 .. Len(L) /\ n \in Nat
      /\ n \in 0 .. Len(M)
  BY DEF Continues, RowsOK
<1>2. \A j \in 1 .. n : M[j] = L[j]
  BY <1>1 DEF Continues
<1>3. \A t, a : /\ Agg(M, n, t, a) = Agg(L, n, t, a)
                /\ Born(M, n, t, a) <=> Born(L, n, t, a)
                /\ Gone(M, n, t, a) <=> Gone(L, n, t, a)
  BY <1>1, <1>2, SamePrefix
<1>4. ASSUME NEW r \in R PROVE RowOK(r, M, n)
  <2>1. RowOK(r, L, n)
    BY DEF RowsOK
  <2>2. \A j \in Agg(L, n, r.table, r.id) : M[j] = L[j]
    BY <1>2 DEF Agg
  <2> QED
    BY <2>1, <2>2, <1>3 DEF RowOK
<1>5. \A i \in 1 .. n : M[i].kind = "created" => \E r \in R : r.table = M[i].table /\ r.id = M[i].id
  BY <1>2 DEF RowsOK
<1>6. ASSUME NEW i \in 1 .. Len(M), M[i].table = "env", M[i].kind = "created" PROVE i <= n
  <2>1. i \in 1 .. Len(L)
    BY <1>6, <1>1
  <2>2. M[i] = L[i]
    BY <2>1 DEF Continues
  <2> QED
    BY <2>1, <2>2, <1>6 DEF RowsOK
<1> QED
  BY <1>1, <1>4, <1>5, <1>6 DEF RowsOK

\* An event for an existing aggregate still fits when others were appended, or has lost its number.
LEMMA ExistingStays ==
    ASSUME NEW L, NEW M, NEW V, NEW W, NEW e, NEW n \in Nat, NEW p, Continues(L, M), V \subseteq W,
           LogOK(M, W), Existing(L, V, e, n, p)
    PROVE  Existing(M, W, e, n, p)
<1> DEFINE A == Agg(L, Len(L), e.table, e.id)
           B == Agg(M, Len(M), e.table, e.id)
<1>1. /\ Len(L) \in Nat /\ Len(M) \in Nat /\ Len(L) <= Len(M)
  BY DEF Continues
<1>2. /\ A \subseteq B /\ Cardinality(A) <= Cardinality(B)
      /\ Cardinality(A) = Cardinality(B) => A = B
      /\ Born(M, Len(M), e.table, e.id)
  BY LongerLog DEF Existing
<1>3. Cardinality(A) \in Nat /\ Cardinality(B) \in Nat
  BY <1>1, AggFinite
<1>4. ParentBorn(M, Len(M), e)
  BY LongerLog DEF Existing, ParentBorn
<1>5. n <= Cardinality(B) + 1
  BY <1>2, <1>3 DEF Existing
<1>6. ASSUME e.kind = "updated", n = Cardinality(B) + 1 PROVE ~Gone(M, Len(M), e.table, e.id)
  <2>1. Cardinality(A) = Cardinality(B) /\ n = Cardinality(A) + 1
    BY <1>2, <1>3, <1>6 DEF Existing
  <2>2. ~Gone(L, Len(L), e.table, e.id)
    BY <2>1, <1>6 DEF Existing
  <2>3. A = B
    BY <2>1, <1>2
  <2>4. SUFFICES ASSUME NEW i \in 1 .. Len(M), M[i].table = e.table, M[i].id = e.id, M[i].kind = "deleted"
                 PROVE  FALSE
    BY DEF Gone
  <2>5. i \in A
    BY <2>3, <2>4 DEF Agg
  <2>6. i \in 1 .. Len(L) /\ L[i] = M[i]
    BY <2>5 DEF Agg, Continues
  <2> QED
    BY <2>2, <2>4, <2>6 DEF Gone
<1>7. ASSUME e.table = "member", NEW i \in Agg(M, Len(M), "member", e.id)
      PROVE  M[i].key = e.key /\ M[i].ref = e.ref
  <2>1. PICK j \in 1 .. Len(L) : L[j].table = "member" /\ L[j].id = e.id
    BY <1>7 DEF Existing, Born
  <2>2. L[j].key = e.key /\ L[j].ref = e.ref
    BY <1>7, <2>1 DEF Existing, Agg
  <2>3. j \in 1 .. Len(M) /\ M[j] = L[j]
    BY <1>1 DEF Continues
  <2>4. i \in 1 .. Len(M) /\ M[i].table = "member" /\ M[i].id = e.id
    BY <1>7 DEF Agg
  <2>5. M[i].key = M[j].key /\ M[i].ref = M[j].ref
    BY <2>1, <2>3, <2>4, MembersKeep
  <2> QED
    BY <2>2, <2>3, <2>5
<1>8. e.table = "bundle" /\ p = "checked" => e.ref # 0 /\ Stored(W, e.id, e.ref, e.attr)
  BY DEF Existing, Stored
<1> HIDE DEF A, B
<1>9. /\ e.id >= 1 /\ e.kind \in {"updated", "deleted"} /\ e.kind \in Kinds(e.table)
      /\ e.table \notin {"env", "restore"} /\ e.ref >= 0
      /\ e.table = "bundle" => e.attr \in Values
      /\ p = "numbered" => e.table = "bundle"
  BY DEF Existing
<1> QED
  BY <1>2, <1>4, <1>5, <1>6, <1>7, <1>8, <1>9 DEF Existing, B

\* What a handler holds, and what it waits for, survive the appends of the others.
LEMMA RequestStaysOK ==
    ASSUME NEW L, NEW M, NEW V, NEW W, NEW q \in ResourceRequest, Continues(L, M), V \subseteq W,
           LogOK(M, W), RequestOK(L, V, q)
    PROVE  RequestOK(M, W, q)
<1>1. /\ Len(L) \in Nat /\ Len(M) \in Nat /\ Len(L) <= Len(M) /\ q.seq \in Nat
      /\ \A i \in 1 .. Len(L) : M[i] = L[i]
  BY DEF Continues, ResourceRequest
<1>2. \A t, a : Born(L, Len(L), t, a) => Born(M, Len(M), t, a)
  BY LongerLog
<1>3. \A e : Fresh(L, e) => Fresh(M, e)
  BY <1>2 DEF Fresh, ParentBorn
<1>4. \A e : Existing(L, V, e, q.seq, q.phase) => Existing(M, W, e, q.seq, q.phase)
  BY <1>1, ExistingStays
<1>5. \A b, n, v : Stored(V, b, n, v) => Stored(W, b, n, v)
  BY DEF Stored
<1>6. Pending(L, V, q) => Pending(M, W, q)
  <2>1. (\E e \in ResourceEvent : q.batch = <<e>> /\ Fresh(L, e)) =>
           \E e \in ResourceEvent : q.batch = <<e>> /\ Fresh(M, e)
    BY <1>3
  <2>2. (\E s \in ResourceRow : Born(L, Len(L), "snapshot", s.id) /\ q.batch = RestoreBatch(s)) =>
           \E s \in ResourceRow : Born(M, Len(M), "snapshot", s.id) /\ q.batch = RestoreBatch(s)
    BY <1>2
  <2>3. (\E e \in ResourceEvent : q.batch = <<e>> /\ Existing(L, V, e, q.seq, q.phase)) =>
           \E e \in ResourceEvent : q.batch = <<e>> /\ Existing(M, W, e, q.seq, q.phase)
    BY <1>4
  <2>4. (\E n \in Nat \ {0}, v \in Values :
            Stored(V, n, n, v) /\ q.batch = VersionSet(Ev("bundle", "created", 0, SecretEnv, 0, v), n)) =>
        \E n \in Nat \ {0}, v \in Values :
            Stored(W, n, n, v) /\ q.batch = VersionSet(Ev("bundle", "created", 0, SecretEnv, 0, v), n)
    BY <1>5
  <2> QED
    BY <2>1, <2>2, <2>3, <2>4 DEF Pending
<1>7. Awaited(L, q) => Awaited(M, q)
  <2>1. SUFFICES ASSUME Awaited(L, q) PROVE Awaited(M, q)
    OBVIOUS
  <2>2. q.upto \in Nat /\ q.shown \in 1 .. q.upto /\ q.upto <= Len(L)
    BY <2>1 DEF Awaited, ResourceRequest
  <2>3. M[q.shown] = L[q.shown] /\ M[q.upto] = L[q.upto] /\ q.upto <= Len(M)
    BY <1>1, <2>2
  <2> QED
    BY <2>1, <2>2, <2>3 DEF Awaited
<1> QED
  BY <1>6, <1>7 DEF RequestOK

----------------------------------------------------------------------------
(* The projections.                                                           *)

\* What the projections do to the row of an event's aggregate.
Applied(r, e) ==
    [r EXCEPT !.version = @ + 1, !.live = @ /\ e.kind # "deleted",
              !.ref = IF e.table \in {"restore", "bundle"} THEN e.ref ELSE @,
              !.attr = IF e.table \in {"restore", "bundle"} \/ (e.table = "member" /\ e.kind = "updated")
                       THEN e.attr ELSE @,
              !.key = IF e.table = "project" \/ (e.table = "app" /\ e.kind = "updated" /\ e.key # None)
                      THEN e.key ELSE @]

RowAfter(r, e) == IF r.table = e.table /\ r.id = e.id THEN Applied(r, e) ELSE r

\* A created row is well-typed.
LEMMA InsertedIsRow ==
    ASSUME NEW e \in Logged
    PROVE  /\ Inserted(e) \in ResourceRow
           /\ Inserted(e).table = e.table /\ Inserted(e).id = e.id /\ Inserted(e).key = e.key
           /\ Inserted(e).ref = e.ref /\ Inserted(e).attr = e.attr
           /\ Inserted(e).version = 1 /\ Inserted(e).live = TRUE
<1>1. e \in ResourceEvent /\ e.id \in Nat /\ e.ref \in Nat
  BY DEF Logged, ResourceEvent
<1> QED
  BY <1>1 DEF Inserted, ResourceRow, ResourceEvent

\* An applied event changes the row as said.
LEMMA AppliedIsRow ==
    ASSUME NEW e \in Logged, NEW r \in ResourceRow
    PROVE  /\ Applied(r, e) \in ResourceRow
           /\ Applied(r, e).table = r.table /\ Applied(r, e).id = r.id
           /\ Applied(r, e).version = r.version + 1
           /\ Applied(r, e).live = (r.live /\ e.kind # "deleted")
           /\ Applied(r, e).ref = IF e.table \in {"restore", "bundle"} THEN e.ref ELSE r.ref
           /\ Applied(r, e).attr = IF e.table \in {"restore", "bundle"}
                                      \/ (e.table = "member" /\ e.kind = "updated")
                                   THEN e.attr ELSE r.attr
           /\ Applied(r, e).key = IF e.table = "project"
                                     \/ (e.table = "app" /\ e.kind = "updated" /\ e.key # None)
                                  THEN e.key ELSE r.key
<1>1. e \in ResourceEvent /\ e.id \in Nat /\ e.ref \in Nat
  BY DEF Logged, ResourceEvent
<1>2. /\ r.version + 1 \in Nat /\ (r.live /\ e.kind # "deleted") \in BOOLEAN
      /\ (IF e.table \in {"restore", "bundle"} THEN e.ref ELSE r.ref) \in Nat
      /\ r.table \in Tables /\ r.id \in Nat
  BY <1>1 DEF ResourceRow
<1>3. (IF e.table \in {"restore", "bundle"} \/ (e.table = "member" /\ e.kind = "updated")
       THEN e.attr ELSE r.attr) \in Values \cup Roles \cup {None, "queued", "succeeded"}
  BY <1>1 DEF ResourceRow, ResourceEvent
<1>4. (IF e.table = "project" \/ (e.table = "app" /\ e.kind = "updated" /\ e.key # None)
       THEN e.key ELSE r.key) \in Keys \cup {None}
  BY <1>1 DEF ResourceRow, ResourceEvent
<1>5. DOMAIN r = {"table", "id", "key", "ref", "attr", "version", "live"}
  BY DEF ResourceRow
<1>6. /\ Applied(r, e).table = r.table /\ Applied(r, e).id = r.id
      /\ Applied(r, e).version = r.version + 1
      /\ Applied(r, e).live = (r.live /\ e.kind # "deleted")
  BY <1>5 DEF Applied
<1>7. /\ Applied(r, e).ref = IF e.table \in {"restore", "bundle"} THEN e.ref ELSE r.ref
      /\ Applied(r, e).attr = IF e.table \in {"restore", "bundle"}
                                 \/ (e.table = "member" /\ e.kind = "updated")
                              THEN e.attr ELSE r.attr
      /\ Applied(r, e).key = IF e.table = "project"
                                \/ (e.table = "app" /\ e.kind = "updated" /\ e.key # None)
                             THEN e.key ELSE r.key
  BY <1>5 DEF Applied
<1>9. Applied(r, e) \in ResourceRow
  <2>1. PICK v \in Nat : v = r.version + 1
    BY <1>2
  <2>2. PICK l \in BOOLEAN : l = (r.live /\ e.kind # "deleted")
    BY <1>2
  <2>3. PICK f \in Nat : f = IF e.table \in {"restore", "bundle"} THEN e.ref ELSE r.ref
    BY <1>2
  <2>4. PICK a \in Values \cup Roles \cup {None, "queued", "succeeded"} :
           a = IF e.table \in {"restore", "bundle"} \/ (e.table = "member" /\ e.kind = "updated")
               THEN e.attr ELSE r.attr
    BY <1>3
  <2>5. PICK k \in Keys \cup {None} :
           k = IF e.table = "project" \/ (e.table = "app" /\ e.kind = "updated" /\ e.key # None)
               THEN e.key ELSE r.key
    BY <1>4
  <2>6. Applied(r, e) = [r EXCEPT !.version = v, !.live = l, !.ref = f, !.attr = a, !.key = k]
    BY <2>1, <2>2, <2>3, <2>4, <2>5, Zenon DEF Applied
  <2>7. [r EXCEPT !.version = v, !.live = l, !.ref = f, !.attr = a, !.key = k] \in ResourceRow
    BY DEF ResourceRow
  <2> QED
    BY <2>6, <2>7
<1> QED
  BY <1>6, <1>7, <1>9

\* The views after an event of an aggregate that exists.
LEMMA ViewsAfterChange ==
    ASSUME NEW e \in Logged, rrows \subseteq ResourceRow, e.kind # "created",
           \A r \in rrows : r.table = e.table /\ r.id = e.id /\ e.kind = "updated" => r.live
    PROVE  ViewsAfter(e) = {RowAfter(r, e) : r \in rrows}
<1>1. e \in ResourceEvent /\ e.kind \in {"updated", "deleted"} /\ e.kind \in Kinds(e.table)
  BY DEF Logged, ResourceEvent
<1>2. \A r \in rrows : r \in ResourceRow
  OBVIOUS
<1>3. CASE e.table = "org"
  <2>1. \A r \in rrows : (IF r.table = "org" /\ r.id = e.id THEN [r EXCEPT !.version = @ + 1] ELSE r)
                            = RowAfter(r, e)
    BY <1>1, <1>2, <1>3 DEF RowAfter, Applied, ResourceRow, Kinds
  <2>2. ViewsAfter(e) = OrgsApply(rrows, e)
    BY <1>3 DEF ViewsAfter
  <2> QED
    BY <2>1, <2>2 DEF OrgsApply
<1>4. CASE e.table = "project"
  <2>1. \A r \in rrows : (IF r.table = "project" /\ r.id = e.id
                          THEN [r EXCEPT !.key = e.key, !.version = @ + 1] ELSE r) = RowAfter(r, e)
    BY <1>1, <1>2, <1>4 DEF RowAfter, Applied, ResourceRow, Kinds
  <2>2. ViewsAfter(e) = ProjectsApply(rrows, e)
    BY <1>4 DEF ViewsAfter
  <2> QED
    BY <2>1, <2>2 DEF ProjectsApply
<1>5. CASE e.table = "volume"
  <2> DEFINE F(r) == IF r.table = "volume" /\ r.id = e.id THEN [r EXCEPT !.live = FALSE, !.version = @ + 1] ELSE r
  <2>1. \A r \in rrows : F(r) = RowAfter(r, e)
    BY <1>1, <1>2, <1>5 DEF RowAfter, Applied, ResourceRow, Kinds
  <2>2. ViewsAfter(e) = VolumesApply(rrows, e)
    BY <1>5 DEF ViewsAfter
  <2>3. VolumesApply(rrows, e) = {F(r) : r \in rrows}
    BY <1>1 DEF VolumesApply
  <2> HIDE DEF F
  <2> QED
    BY <2>1, <2>2, <2>3
<1>6. CASE e.table = "attachment"
  <2> DEFINE F(r) == IF r.table = "attachment" /\ r.id = e.id THEN [r EXCEPT !.live = FALSE, !.version = @ + 1] ELSE r
  <2>1. \A r \in rrows : F(r) = RowAfter(r, e)
    BY <1>1, <1>2, <1>6 DEF RowAfter, Applied, ResourceRow, Kinds
  <2>2. ViewsAfter(e) = AttachmentsApply(rrows, e)
    BY <1>6 DEF ViewsAfter
  <2>3. AttachmentsApply(rrows, e) = {F(r) : r \in rrows}
    BY <1>1 DEF AttachmentsApply
  <2> HIDE DEF F
  <2> QED
    BY <2>1, <2>2, <2>3
<1>7. CASE e.table = "env"
  <2> DEFINE F(r) == IF r.table = "env" /\ r.id = e.id THEN [r EXCEPT !.live = FALSE, !.version = @ + 1] ELSE r
  <2>1. \A r \in rrows : F(r) = RowAfter(r, e)
    BY <1>1, <1>2, <1>7 DEF RowAfter, Applied, ResourceRow, Kinds
  <2>2. ViewsAfter(e) = EnvsApply(rrows, e)
    BY <1>7 DEF ViewsAfter
  <2>3. EnvsApply(rrows, e) = {F(r) : r \in rrows}
    BY <1>1 DEF EnvsApply
  <2> HIDE DEF F
  <2> QED
    BY <2>1, <2>2, <2>3
<1>8. CASE e.table = "bundle"
  <2> DEFINE F(r) == IF r.table = "bundle" /\ r.id = e.id THEN [r EXCEPT !.ref = e.ref, !.attr = e.attr, !.version = @ + 1] ELSE r
  <2>1. \A r \in rrows : F(r) = RowAfter(r, e)
    BY <1>1, <1>2, <1>8 DEF RowAfter, Applied, ResourceRow, Kinds
  <2>2. ViewsAfter(e) = BundlesApply(rrows, e)
    BY <1>8 DEF ViewsAfter
  <2>3. BundlesApply(rrows, e) = {F(r) : r \in rrows}
    BY <1>1 DEF BundlesApply
  <2> HIDE DEF F
  <2> QED
    BY <2>1, <2>2, <2>3
<1>9. CASE e.table = "restore"
  <2> DEFINE F(r) == IF r.table = "restore" /\ r.id = e.id THEN [r EXCEPT !.ref = e.ref, !.attr = e.attr, !.version = @ + 1] ELSE r
  <2>1. \A r \in rrows : F(r) = RowAfter(r, e)
    BY <1>1, <1>2, <1>9 DEF RowAfter, Applied, ResourceRow, Kinds
  <2>2. ViewsAfter(e) = RestoresApply(rrows, e)
    BY <1>9 DEF ViewsAfter
  <2>3. RestoresApply(rrows, e) = {F(r) : r \in rrows}
    BY <1>1 DEF RestoresApply
  <2> HIDE DEF F
  <2> QED
    BY <2>1, <2>2, <2>3
<1>10. CASE e.table = "member"
  <2> DEFINE F(r) == CASE r.table = "member" /\ r.id = e.id /\ e.kind = "deleted" ->
                            [r EXCEPT !.live = FALSE, !.version = @ + 1]
                       [] r.table = "member" /\ r.id = e.id /\ e.kind = "updated" /\ r.live ->
                            [r EXCEPT !.attr = e.attr, !.version = @ + 1]
                       [] OTHER -> r
  <2>1. ASSUME NEW r \in rrows PROVE F(r) = RowAfter(r, e)
    <3>2. r \in ResourceRow
      OBVIOUS
    <3>3. CASE ~(r.table = "member" /\ r.id = e.id)
      BY <3>3, <1>10 DEF RowAfter
    <3>4. CASE r.table = "member" /\ r.id = e.id /\ e.kind = "deleted"
      BY <3>2, <3>4, <1>10 DEF RowAfter, Applied, ResourceRow
    <3>5. CASE r.table = "member" /\ r.id = e.id /\ e.kind = "updated"
      <4>1. r.live = TRUE
        BY <3>2, <3>5, <1>10 DEF ResourceRow
      <4>2. RowAfter(r, e) = Applied(r, e)
        BY <3>5, <1>10 DEF RowAfter
      <4>3. Applied(r, e) = [r EXCEPT !.attr = e.attr, !.version = @ + 1]
        BY <3>2, <3>5, <4>1, <1>10 DEF Applied, ResourceRow
      <4> QED
        BY <3>5, <4>1, <4>2, <4>3
    <3> QED
      BY <1>1, <3>3, <3>4, <3>5
  <2>2. ViewsAfter(e) = MembersApply(rrows, e)
    BY <1>10 DEF ViewsAfter
  <2>3. MembersApply(rrows, e) = {F(r) : r \in rrows}
    BY <1>1 DEF MembersApply
  <2> HIDE DEF F
  <2> QED
    BY <2>1, <2>2, <2>3
<1>11. CASE e.table = "app"
  <2> DEFINE F(r) == CASE r.table = "app" /\ r.id = e.id /\ e.kind = "deleted" ->
                            [r EXCEPT !.live = FALSE, !.version = @ + 1]
                       [] r.table = "app" /\ r.id = e.id /\ e.kind = "updated" /\ r.live ->
                            [r EXCEPT !.key = IF e.key = None THEN @ ELSE e.key, !.version = @ + 1]
                       [] OTHER -> r
  <2>1. ASSUME NEW r \in rrows PROVE F(r) = RowAfter(r, e)
    <3>2. r \in ResourceRow
      OBVIOUS
    <3>3. CASE ~(r.table = "app" /\ r.id = e.id)
      BY <3>3, <1>11 DEF RowAfter
    <3>4. CASE r.table = "app" /\ r.id = e.id /\ e.kind = "deleted"
      BY <3>2, <3>4, <1>11 DEF RowAfter, Applied, ResourceRow
    <3>5. CASE r.table = "app" /\ r.id = e.id /\ e.kind = "updated"
      <4>1. r.live = TRUE
        BY <3>2, <3>5, <1>11 DEF ResourceRow
      <4>2. RowAfter(r, e) = Applied(r, e)
        BY <3>5, <1>11 DEF RowAfter
      <4>3. Applied(r, e) = [r EXCEPT !.key = IF e.key = None THEN @ ELSE e.key, !.version = @ + 1]
        BY <3>2, <3>5, <4>1, <1>11 DEF Applied, ResourceRow
      <4> QED
        BY <3>5, <4>1, <4>2, <4>3
    <3> QED
      BY <1>1, <3>3, <3>4, <3>5
  <2>2. ViewsAfter(e) = AppsApply(rrows, e)
    BY <1>11 DEF ViewsAfter
  <2>3. AppsApply(rrows, e) = {F(r) : r \in rrows}
    BY <1>1 DEF AppsApply
  <2> HIDE DEF F
  <2> QED
    BY <2>1, <2>2, <2>3
<1>12. CASE e.table = "route"
  <2> DEFINE F(r) == CASE r.table = "route" /\ r.id = e.id /\ e.kind = "deleted" ->
                            [r EXCEPT !.live = FALSE, !.version = @ + 1]
                       [] r.table = "route" /\ r.id = e.id /\ e.kind = "updated" /\ r.live ->
                            [r EXCEPT !.version = @ + 1]
                       [] OTHER -> r
  <2>1. ASSUME NEW r \in rrows PROVE F(r) = RowAfter(r, e)
    <3>2. r \in ResourceRow
      OBVIOUS
    <3>3. CASE ~(r.table = "route" /\ r.id = e.id)
      BY <3>3, <1>12 DEF RowAfter
    <3>4. CASE r.table = "route" /\ r.id = e.id /\ e.kind = "deleted"
      BY <3>2, <3>4, <1>12 DEF RowAfter, Applied, ResourceRow
    <3>5. CASE r.table = "route" /\ r.id = e.id /\ e.kind = "updated"
      <4>1. r.live = TRUE
        BY <3>2, <3>5, <1>12 DEF ResourceRow
      <4>2. RowAfter(r, e) = Applied(r, e)
        BY <3>5, <1>12 DEF RowAfter
      <4>3. Applied(r, e) = [r EXCEPT !.version = @ + 1]
        BY <3>2, <3>5, <4>1, <1>12 DEF Applied, ResourceRow
      <4> QED
        BY <3>5, <4>1, <4>2, <4>3
    <3> QED
      BY <1>1, <3>3, <3>4, <3>5
  <2>2. ViewsAfter(e) = RoutesApply(rrows, e)
    BY <1>12 DEF ViewsAfter
  <2>3. RoutesApply(rrows, e) = {F(r) : r \in rrows}
    BY <1>1 DEF RoutesApply
  <2> HIDE DEF F
  <2> QED
    BY <2>1, <2>2, <2>3
<1>13. e.table \notin {"release", "snapshot"}
  BY <1>1 DEF Kinds
<1> QED
  BY <1>1, <1>3, <1>4, <1>5, <1>6, <1>7, <1>8, <1>9, <1>10, <1>11, <1>12, <1>13 DEF ResourceEvent, Tables

\* The views after an event that creates.
LEMMA ViewsAfterCreate ==
    ASSUME NEW e \in Logged, e.kind = "created", e.table # "env"
    PROVE  ViewsAfter(e) = rrows \cup {Inserted(e)}
<1>1. e.table \in Tables
  BY DEF Logged, ResourceEvent
<1> QED
  BY <1>1 DEF Tables, ViewsAfter, OrgsApply, MembersApply, ProjectsApply, AppsApply, ReleasesApply,
     RoutesApply, BundlesApply, VolumesApply, SnapshotsApply, RestoresApply, AttachmentsApply

\* A row of another aggregate than that of the next event.
LEMMA OtherRowOK ==
    ASSUME NEW L, NEW n \in Nat, NEW r, RowOK(r, L, n),
           ~(r.table = L[n + 1].table /\ r.id = L[n + 1].id)
    PROVE  RowOK(r, L, n + 1)
<1>1. /\ Agg(L, n + 1, r.table, r.id) = Agg(L, n, r.table, r.id)
      /\ Born(L, n + 1, r.table, r.id) <=> Born(L, n, r.table, r.id)
      /\ Gone(L, n + 1, r.table, r.id) <=> Gone(L, n, r.table, r.id)
  BY OneMore
<1> QED
  BY <1>1 DEF RowOK

\* The row an event creates.
LEMMA InsertedRowOK ==
    ASSUME NEW L, NEW V, NEW n \in Nat, L[n + 1] \in Logged, EventOK(L, n + 1, V),
           L[n + 1].kind = "created"
    PROVE  RowOK(Inserted(L[n + 1]), L, n + 1)
<1>0. PICK e : e = L[n + 1]
  OBVIOUS
<1>1. PICK r : r = Inserted(e)
  OBVIOUS
<1>2. /\ r.table = e.table /\ r.id = e.id /\ r.key = e.key /\ r.ref = e.ref /\ r.attr = e.attr
      /\ r.version = 1 /\ r.live = TRUE
  BY <1>0, <1>1, InsertedIsRow
<1>3. (n + 1) - 1 = n
  OBVIOUS
<1>4. Agg(L, n, e.table, e.id) = {}
  BY <1>0, <1>3 DEF EventOK
<1>5. ~Gone(L, n, e.table, e.id)
  BY <1>4 DEF Agg, Gone
<1>6. /\ Agg(L, n + 1, e.table, e.id) = Agg(L, n, e.table, e.id) \cup {n + 1}
      /\ Cardinality(Agg(L, n + 1, e.table, e.id)) = Cardinality(Agg(L, n, e.table, e.id)) + 1
      /\ Born(L, n + 1, e.table, e.id)
      /\ ~Gone(L, n + 1, e.table, e.id)
  BY <1>0, <1>4, <1>5, OneMore
<1>7. Cardinality(Agg(L, n, e.table, e.id)) = 0
  BY <1>4, FS_EmptySet
<1>8. /\ Agg(L, n + 1, e.table, e.id) = {n + 1}
      /\ r.version = Cardinality(Agg(L, n + 1, e.table, e.id))
  BY <1>2, <1>4, <1>6, <1>7
<1>9. /\ \E i \in Agg(L, n + 1, r.table, r.id) :
            r.ref = L[i].ref /\ (r.table \in {"restore", "bundle"} => r.attr = L[i].attr)
      /\ \A i \in Agg(L, n + 1, r.table, r.id) : L[i].kind = "created" /\ r.key = L[i].key
  BY <1>0, <1>2, <1>8
<1>10. RowOK(r, L, n + 1)
  BY <1>2, <1>6, <1>8, <1>9 DEF RowOK
<1> QED
  BY <1>0, <1>1, <1>10

\* The row an event changes.
LEMMA ChangedRowOK ==
    ASSUME NEW L, NEW V, NEW n \in Nat, NEW r \in ResourceRow, RowOK(r, L, n),
           L[n + 1] \in Logged, EventOK(L, n + 1, V),
           r.table = L[n + 1].table, r.id = L[n + 1].id, L[n + 1].kind # "created"
    PROVE  RowOK(Applied(r, L[n + 1]), L, n + 1)
<1>0. PICK e : e = L[n + 1]
  OBVIOUS
<1>1. PICK s : s = Applied(r, e)
  OBVIOUS
<1>2. /\ s.table = r.table /\ s.id = r.id /\ s.version = r.version + 1
      /\ s.live = (r.live /\ e.kind # "deleted")
      /\ s.ref = IF e.table \in {"restore", "bundle"} THEN e.ref ELSE r.ref
      /\ e.table \in {"restore", "bundle"} => s.attr = e.attr
      /\ e.table = "member" => s.key = r.key
  BY <1>0, <1>1, AppliedIsRow
<1>3. (n + 1) - 1 = n
  OBVIOUS
<1>4. /\ Agg(L, n + 1, r.table, r.id) = Agg(L, n, r.table, r.id) \cup {n + 1}
      /\ Cardinality(Agg(L, n + 1, r.table, r.id)) = Cardinality(Agg(L, n, r.table, r.id)) + 1
      /\ Born(L, n + 1, r.table, r.id) <=> Born(L, n, r.table, r.id) \/ e.kind = "created"
      /\ Gone(L, n + 1, r.table, r.id) <=> Gone(L, n, r.table, r.id) \/ e.kind = "deleted"
  <2>1. L[n + 1].table = r.table /\ L[n + 1].id = r.id
    OBVIOUS
  <2> QED
    BY <1>0, <2>1, OneMore
<1>5. /\ Born(L, n + 1, r.table, r.id)
      /\ s.version = Cardinality(Agg(L, n + 1, r.table, r.id))
      /\ s.live = ~Gone(L, n + 1, r.table, r.id)
  BY <1>2, <1>4 DEF RowOK
<1>6. \E i \in Agg(L, n + 1, r.table, r.id) :
          s.ref = L[i].ref /\ (r.table \in {"restore", "bundle"} => s.attr = L[i].attr)
  <2>1. CASE e.table \in {"restore", "bundle"}
    <3>1. n + 1 \in Agg(L, n + 1, r.table, r.id) /\ s.ref = L[n + 1].ref /\ s.attr = L[n + 1].attr
      BY <1>0, <1>2, <1>4, <2>1
    <3> QED
      BY <3>1
  <2>2. CASE e.table \notin {"restore", "bundle"}
    <3>1. PICK i \in Agg(L, n, r.table, r.id) : r.ref = L[i].ref
      BY DEF RowOK
    <3>2. i \in Agg(L, n + 1, r.table, r.id) /\ s.ref = L[i].ref /\ r.table \notin {"restore", "bundle"}
      BY <3>1, <1>0, <1>2, <1>4, <2>2
    <3> QED
      BY <3>2
  <2> QED
    BY <2>1, <2>2
<1>7. r.table = "bundle" => s.ref # 0
  BY <1>0, <1>2 DEF EventOK
<1>8. ASSUME r.table = "member", NEW i \in Agg(L, n + 1, r.table, r.id) PROVE s.key = L[i].key
  <2>1. s.key = r.key /\ \A j \in Agg(L, n, r.table, r.id) : r.key = L[j].key
    BY <1>0, <1>2, <1>8 DEF RowOK
  <2>2. CASE i \in Agg(L, n, r.table, r.id)
    BY <2>1, <2>2
  <2>3. CASE i = n + 1
    <3>1. PICK j \in Agg(L, n, r.table, r.id) : TRUE
      BY DEF RowOK
    <3>2. L[n + 1].key = L[j].key
      BY <1>3, <1>8, <3>1 DEF EventOK
    <3> QED
      BY <2>1, <2>3, <3>1, <3>2
  <2> QED
    BY <2>2, <2>3, <1>4, <1>8
<1>9. RowOK(s, L, n + 1)
  BY <1>2, <1>5, <1>6, <1>7, <1>8 DEF RowOK
<1> QED
  BY <1>0, <1>1, <1>9

\* What the projections make of the next event: a row more, or one row changed.
LEMMA NextViews ==
    ASSUME NEW V, LogOK(rlog, V), RowsOK(rrows, rlog, rdone), rdone < Len(rlog)
    PROVE  LET e == rlog[rdone + 1] IN
           /\ e \in Logged /\ EventOK(rlog, rdone + 1, V)
           /\ e.kind = "created" => /\ ViewsAfter(e) = rrows \cup {Inserted(e)}
                                    /\ e.table # "env"
                                    /\ \A r \in rrows : ~(r.table = e.table /\ r.id = e.id)
           /\ e.kind # "created" => /\ ViewsAfter(e) = {RowAfter(r, e) : r \in rrows}
                                    /\ \E r \in rrows : r.table = e.table /\ r.id = e.id
<1>0. PICK e : e = rlog[rdone + 1]
  OBVIOUS
<1>1. /\ rdone \in Nat /\ Len(rlog) \in Nat /\ rdone + 1 \in 1 .. Len(rlog) /\ (rdone + 1) - 1 = rdone
      /\ rlog \in Seq(Logged) /\ rrows \subseteq ResourceRow
  BY DEF RowsOK, LogOK
<1>2. e \in Logged /\ EventOK(rlog, rdone + 1, V)
  BY <1>0, <1>1 DEF LogOK
<1>3. ASSUME e.kind = "created"
      PROVE  /\ ViewsAfter(e) = rrows \cup {Inserted(e)} /\ e.table # "env"
             /\ \A r \in rrows : ~(r.table = e.table /\ r.id = e.id)
  <2>1. e.table # "env"
    BY <1>0, <1>1, <1>3 DEF RowsOK
  <2>2. Agg(rlog, rdone, e.table, e.id) = {}
    BY <1>0, <1>1, <1>2, <1>3 DEF EventOK
  <2>3. ASSUME NEW r \in rrows, r.table = e.table, r.id = e.id PROVE FALSE
    <3>1. Born(rlog, rdone, e.table, e.id)
      BY <2>3 DEF RowsOK, RowOK
    <3> QED
      BY <2>2, <3>1 DEF Agg, Born
  <2> QED
    BY <1>2, <1>3, <2>1, <2>3, ViewsAfterCreate
<1>4. ASSUME e.kind # "created"
      PROVE  /\ ViewsAfter(e) = {RowAfter(r, e) : r \in rrows}
             /\ \E r \in rrows : r.table = e.table /\ r.id = e.id
  <2>1. Born(rlog, rdone, e.table, e.id) /\ (e.kind # "deleted" => ~Gone(rlog, rdone, e.table, e.id))
    BY <1>0, <1>1, <1>2, <1>4 DEF EventOK
  <2>2. \E r \in rrows : r.table = e.table /\ r.id = e.id
    BY <2>1 DEF Born, RowsOK
  <2>3. \A r \in rrows : r.table = e.table /\ r.id = e.id /\ e.kind = "updated" => r.live
    BY <2>1 DEF RowsOK, RowOK
  <2> QED
    BY <1>1, <1>2, <1>4, <2>2, <2>3, ViewsAfterChange
<1> QED
  BY <1>0, <1>2, <1>3, <1>4

\* The rows follow the log.
LEMMA RowsFollow ==
    ASSUME NEW V, LogOK(rlog, V), RowsOK(rrows, rlog, rdone), rdone < Len(rlog)
    PROVE  RowsOK(ViewsAfter(rlog[rdone + 1]), rlog, rdone + 1)
<1>0. PICK e : e = rlog[rdone + 1]
  OBVIOUS
<1>1. /\ rdone \in Nat /\ Len(rlog) \in Nat /\ rdone + 1 \in 0 .. Len(rlog)
      /\ rlog \in Seq(Logged) /\ rrows \subseteq ResourceRow
  BY DEF RowsOK, LogOK
<1>2. /\ e \in Logged /\ EventOK(rlog, rdone + 1, V)
      /\ e.kind = "created" => /\ ViewsAfter(e) = rrows \cup {Inserted(e)}
                               /\ e.table # "env"
                               /\ \A r \in rrows : ~(r.table = e.table /\ r.id = e.id)
      /\ e.kind # "created" => /\ ViewsAfter(e) = {RowAfter(r, e) : r \in rrows}
                               /\ \E r \in rrows : r.table = e.table /\ r.id = e.id
  BY <1>0, NextViews
<1>3. \A i \in 1 .. Len(rlog) : rlog[i].table = "env" /\ rlog[i].kind = "created" => i <= rdone + 1
  BY <1>1 DEF RowsOK
<1>4. CASE e.kind = "created"
  <2>0. PICK w : w = Inserted(e)
    OBVIOUS
  <2>1. /\ ViewsAfter(e) = rrows \cup {w} /\ w \in ResourceRow
        /\ w.table = e.table /\ w.id = e.id
    BY <1>2, <1>4, <2>0, InsertedIsRow
  <2>2. RowOK(w, rlog, rdone + 1)
    BY <1>0, <1>1, <1>2, <1>4, <2>0, InsertedRowOK
  <2>3. ASSUME NEW r \in rrows PROVE RowOK(r, rlog, rdone + 1)
    BY <1>0, <1>1, <1>2, <1>4, OtherRowOK DEF RowsOK
  <2>4. \A r, s \in rrows \cup {w} : r.table = s.table /\ r.id = s.id => r = s
    BY <1>2, <1>4, <2>1 DEF RowsOK
  <2>5. \A i \in 1 .. (rdone + 1) : rlog[i].kind = "created" =>
           \E r \in rrows \cup {w} : r.table = rlog[i].table /\ r.id = rlog[i].id
    BY <1>0, <1>1, <2>1 DEF RowsOK
  <2> QED
    BY <1>0, <1>1, <1>3, <2>1, <2>2, <2>3, <2>4, <2>5 DEF RowsOK
<1>5. CASE e.kind # "created"
  <2>0. PICK R : R = ViewsAfter(e)
    OBVIOUS
  <2>1. R = {RowAfter(r, e) : r \in rrows}
    BY <1>2, <1>5, <2>0
  <2>2. ASSUME NEW r \in rrows
        PROVE  /\ RowAfter(r, e) \in ResourceRow
               /\ RowAfter(r, e).table = r.table /\ RowAfter(r, e).id = r.id
               /\ RowOK(RowAfter(r, e), rlog, rdone + 1)
    <3>1. r \in ResourceRow /\ RowOK(r, rlog, rdone)
      BY <1>1 DEF RowsOK
    <3>2. CASE r.table = e.table /\ r.id = e.id
      <4>1. RowAfter(r, e) = Applied(r, e)
        BY <3>2 DEF RowAfter
      <4>2. RowOK(Applied(r, e), rlog, rdone + 1)
        BY <1>0, <1>1, <1>2, <1>5, <3>1, <3>2, ChangedRowOK
      <4> QED
        BY <4>1, <4>2, <1>2, <3>1, AppliedIsRow
    <3>3. CASE ~(r.table = e.table /\ r.id = e.id)
      <4>1. RowAfter(r, e) = r
        BY <3>3 DEF RowAfter
      <4> QED
        BY <4>1, <1>0, <1>1, <3>1, <3>3, OtherRowOK
    <3> QED
      BY <3>2, <3>3
  <2>3. \A r, s \in R : r.table = s.table /\ r.id = s.id => r = s
    <3>1. SUFFICES ASSUME NEW r \in rrows, NEW s \in rrows, RowAfter(r, e).table = RowAfter(s, e).table,
                          RowAfter(r, e).id = RowAfter(s, e).id
                   PROVE  RowAfter(r, e) = RowAfter(s, e)
      BY <2>1
    <3>2. r = s
      BY <3>1, <2>2 DEF RowsOK
    <3> QED
      BY <3>2
  <2>4. \A i \in 1 .. (rdone + 1) : rlog[i].kind = "created" =>
           \E r \in R : r.table = rlog[i].table /\ r.id = rlog[i].id
    <3>1. SUFFICES ASSUME NEW i \in 1 .. (rdone + 1), rlog[i].kind = "created"
                   PROVE  \E r \in R : r.table = rlog[i].table /\ r.id = rlog[i].id
      OBVIOUS
    <3>2. i \in 1 .. rdone
      BY <3>1, <1>0, <1>1, <1>5
    <3>3. PICK r \in rrows : r.table = rlog[i].table /\ r.id = rlog[i].id
      BY <3>1, <3>2 DEF RowsOK
    <3> QED
      BY <2>1, <2>2, <3>3
  <2>5. R \subseteq ResourceRow /\ \A r \in R : RowOK(r, rlog, rdone + 1)
    BY <2>1, <2>2
  <2> QED
    BY <1>0, <1>1, <1>3, <2>0, <2>3, <2>4, <2>5 DEF RowsOK
<1> QED
  BY <1>4, <1>5

----------------------------------------------------------------------------
(* Requests.                                                                  *)

\* One request changes, and versions may be added.
LEMMA OneRequestMoves ==
    ASSUME ResourceInv, NEW c \in Handlers, NEW q \in ResourceRequest,
           RequestOK(rlog, sversions', q), rreq' = [rreq EXCEPT ![c] = q],
           sversions \subseteq sversions', VersionsOK(sversions'),
           UNCHANGED <<focus, rlog, rdone, rrows, rworker>>
    PROVE  ResourceInv'
<1>1. Continues(rlog, rlog)
  BY DEF ResourceInv, LogOK, Continues
<1>2. LogOK(rlog, sversions')
  <2>1. Len(rlog) \in Nat /\ \A i \in (Len(rlog) + 1) .. Len(rlog) : EventOK(rlog, i, sversions')
    BY DEF ResourceInv, LogOK
  <2> QED
    BY <1>1, <2>1, LogContinued DEF ResourceInv
<1>3. rreq' \in [Handlers -> ResourceRequest]
  BY DEF ResourceInv
<1>4. ASSUME NEW d \in Handlers PROVE RequestOK(rlog, sversions', rreq'[d])
  <2>1. CASE d = c
    BY <2>1 DEF ResourceInv
  <2>2. CASE d # c
    <3>1. rreq'[d] = rreq[d] /\ rreq[d] \in ResourceRequest /\ RequestOK(rlog, sversions, rreq[d])
      BY <2>2 DEF ResourceInv
    <3> QED
      BY <1>1, <1>2, <3>1, RequestStaysOK
  <2> QED
    BY <2>1, <2>2
<1>5. /\ focus' \in Families /\ rworker' \in {"running", "failed"}
      /\ RowsOK(rrows', rlog', rdone')
  BY DEF ResourceInv
<1> QED
  BY <1>2, <1>3, <1>4, <1>5 DEF ResourceInv

\* A request that holds nothing.
LEMMA NoRequestOK ==
    /\ NoRequest \in ResourceRequest
    /\ \A L, V : RequestOK(L, V, NoRequest)
<1>1. <<>> \in Seq(ResourceEvent)
  OBVIOUS
<1> QED
  BY <1>1 DEF NoRequest, ResourceRequest, RequestOK

\* A handler has its batch.
LEMMA ProceedOK ==
    ASSUME ResourceInv, NEW c \in Handlers, NEW p \in {"loaded", "numbered", "checked"},
           NEW b \in Seq(ResourceEvent), NEW n \in Nat, Proceed(c, p, b, n), UNCHANGED sversions,
           Pending(rlog, sversions, [phase |-> p, batch |-> b, seq |-> n, upto |-> 0, shown |-> 0])
    PROVE  ResourceInv'
<1>1. PICK q : q = [phase |-> p, batch |-> b, seq |-> n, upto |-> 0, shown |-> 0]
  OBVIOUS
<1>2. q \in ResourceRequest /\ q.phase = p
  BY <1>1 DEF ResourceRequest
<1>3. RequestOK(rlog, sversions', q)
  BY <1>1, <1>2 DEF RequestOK
<1>4. rreq' = [rreq EXCEPT ![c] = q] /\ UNCHANGED <<focus, rlog, rdone, rrows, rworker>>
  BY <1>1 DEF Proceed
<1>5. sversions \subseteq sversions' /\ VersionsOK(sversions')
  BY DEF ResourceInv
<1> QED
  BY <1>2, <1>3, <1>4, <1>5, OneRequestMoves

\* It holds the event of a new aggregate.
LEMMA ProceedFresh ==
    ASSUME ResourceInv, NEW c \in Handlers, NEW e \in ResourceEvent, Fresh(rlog, e),
           Proceed(c, "checked", <<e>>, 1), UNCHANGED sversions
    PROVE  ResourceInv'
<1>1. PICK q : q = [phase |-> "checked", batch |-> <<e>>, seq |-> 1, upto |-> 0, shown |-> 0]
  OBVIOUS
<1>2. Pending(rlog, sversions, q)
  BY <1>1 DEF Pending
<1>3. <<e>> \in Seq(ResourceEvent)
  OBVIOUS
<1> QED
  BY <1>1, <1>2, <1>3, ProceedOK

\* It holds the event of an aggregate that exists.
LEMMA ProceedExisting ==
    ASSUME ResourceInv, NEW c \in Handlers, NEW e \in ResourceEvent, NEW n \in Nat,
           NEW p \in {"loaded", "checked"}, Existing(rlog, sversions, e, n, p),
           Proceed(c, p, <<e>>, n), UNCHANGED sversions
    PROVE  ResourceInv'
<1>1. PICK q : q = [phase |-> p, batch |-> <<e>>, seq |-> n, upto |-> 0, shown |-> 0]
  OBVIOUS
<1>2. q.phase = p /\ q.batch = <<e>> /\ q.seq = n
  BY <1>1
<1>3. Pending(rlog, sversions, q)
  BY <1>2 DEF Pending
<1>4. <<e>> \in Seq(ResourceEvent)
  OBVIOUS
<1> QED
  BY <1>1, <1>3, <1>4, ProceedOK

\* What a row of the views says of the whole log.
LEMMA RowFacts ==
    ASSUME ResourceInv, NEW r \in rrows
    PROVE  /\ r \in ResourceRow /\ r.id >= 1 /\ r.version + 1 \in Nat
           /\ Born(rlog, Len(rlog), r.table, r.id)
           /\ r.version + 1 <= Cardinality(Agg(rlog, Len(rlog), r.table, r.id)) + 1
           /\ r.live /\ r.version + 1 = Cardinality(Agg(rlog, Len(rlog), r.table, r.id)) + 1 =>
                 ~Gone(rlog, Len(rlog), r.table, r.id)
           /\ r.table = "member" => \A i \in Agg(rlog, Len(rlog), "member", r.id) :
                 rlog[i].key = r.key /\ rlog[i].ref = r.ref
           /\ ParentTable(r) # "none" => Born(rlog, rdone, ParentTable(r), r.ref)
           /\ ParentTable(r) # "none" => Born(rlog, Len(rlog), ParentTable(r), r.ref)
<1>1. /\ r \in ResourceRow /\ RowOK(r, rlog, rdone) /\ rdone \in Nat /\ Len(rlog) \in Nat
      /\ rdone <= Len(rlog) /\ LogOK(rlog, sversions) /\ rlog \in Seq(Logged)
  BY DEF ResourceInv, RowsOK, LogOK
<1>2. /\ Born(rlog, rdone, r.table, r.id) /\ r.version = Cardinality(Agg(rlog, rdone, r.table, r.id))
      /\ r.live = ~Gone(rlog, rdone, r.table, r.id)
  BY <1>1 DEF RowOK
<1>3. /\ Born(rlog, Len(rlog), r.table, r.id)
      /\ Cardinality(Agg(rlog, rdone, r.table, r.id)) <= Cardinality(Agg(rlog, Len(rlog), r.table, r.id))
      /\ Cardinality(Agg(rlog, rdone, r.table, r.id)) = Cardinality(Agg(rlog, Len(rlog), r.table, r.id)) =>
            Agg(rlog, rdone, r.table, r.id) = Agg(rlog, Len(rlog), r.table, r.id)
  BY <1>1, <1>2, LongerPrefix
<1>4. Cardinality(Agg(rlog, Len(rlog), r.table, r.id)) \in Nat /\ r.version \in Nat
  BY <1>1, AggFinite DEF ResourceRow
<1>5. r.id >= 1
  <2>1. PICK i \in 1 .. Len(rlog) : rlog[i].id = r.id
    BY <1>3 DEF Born
  <2> QED
    BY <1>1, <2>1 DEF Logged
<1>6. ASSUME r.live, r.version + 1 = Cardinality(Agg(rlog, Len(rlog), r.table, r.id)) + 1
      PROVE  ~Gone(rlog, Len(rlog), r.table, r.id)
  <2>1. Agg(rlog, rdone, r.table, r.id) = Agg(rlog, Len(rlog), r.table, r.id)
    BY <1>2, <1>3, <1>4, <1>6
  <2> QED
    BY <1>2, <1>6, <2>1 DEF Agg, Gone
<1>7. PICK k \in Agg(rlog, rdone, r.table, r.id) :
          r.ref = rlog[k].ref /\ (r.table \in {"restore", "bundle"} => r.attr = rlog[k].attr)
  BY <1>1 DEF RowOK
<1>8. /\ k \in 1 .. rdone /\ k \in 1 .. Len(rlog) /\ k - 1 \in Nat /\ k - 1 <= rdone
      /\ rlog[k].table = r.table /\ rlog[k].id = r.id
  BY <1>1 DEF Agg
<1>9. ASSUME r.table = "member", NEW i \in Agg(rlog, Len(rlog), "member", r.id)
      PROVE  rlog[i].key = r.key /\ rlog[i].ref = r.ref
  <2>1. rlog[k].key = r.key
    BY <1>1, <1>9 DEF RowOK
  <2>2. i \in 1 .. Len(rlog) /\ rlog[i].table = "member" /\ rlog[i].id = r.id
    BY <1>9 DEF Agg
  <2>3. rlog[i].key = rlog[k].key /\ rlog[i].ref = rlog[k].ref
    BY <1>1, <1>8, <1>9, <2>2, MembersKeep
  <2> QED
    BY <1>7, <2>1, <2>3
<1>10. ParentTable(rlog[k]) = ParentTable(r)
  BY <1>7, <1>8 DEF ParentTable
<1>11. ASSUME ParentTable(r) # "none" PROVE Born(rlog, rdone, ParentTable(r), r.ref)
  <2>1. ParentBorn(rlog, k - 1, rlog[k])
    BY <1>1, <1>8 DEF LogOK, EventOK
  <2>2. Born(rlog, k - 1, ParentTable(r), r.ref)
    BY <1>7, <1>10, <1>11, <2>1 DEF ParentBorn
  <2> QED
    BY <1>1, <1>8, <2>2, LongerPrefix
<1>12. ASSUME ParentTable(r) # "none" PROVE Born(rlog, Len(rlog), ParentTable(r), r.ref)
  BY <1>1, <1>11, <1>12, LongerPrefix
<1>13. /\ r \in ResourceRow /\ r.version + 1 \in Nat
       /\ r.version + 1 <= Cardinality(Agg(rlog, Len(rlog), r.table, r.id)) + 1
  BY <1>1, <1>2, <1>3, <1>4
<1> QED
  BY <1>3, <1>5, <1>6, <1>9, <1>11, <1>12, <1>13

----------------------------------------------------------------------------
(* The handlers up to their append.                                           *)

LEMMA SecretEnvIsKey == SecretEnv \in Keys /\ FirstKey \in Keys
  BY ResourceAssumption DEF SecretEnv, FirstKey

\* The events the handlers build are events.
LEMMA EvIsEvent ==
    ASSUME NEW t \in Tables, NEW k \in {"created", "updated", "deleted"}, NEW a \in Int,
           NEW x \in Keys \cup {None}, NEW f \in Int,
           NEW v \in Values \cup Roles \cup {None, "queued", "succeeded"}
    PROVE  /\ Ev(t, k, a, x, f, v) \in ResourceEvent
           /\ Ev(t, k, a, x, f, v).table = t /\ Ev(t, k, a, x, f, v).kind = k
           /\ Ev(t, k, a, x, f, v).id = a /\ Ev(t, k, a, x, f, v).key = x
           /\ Ev(t, k, a, x, f, v).ref = f /\ Ev(t, k, a, x, f, v).attr = v
  BY DEF Ev, ResourceEvent

\* A table without deletes has no deleted aggregates.
LEMMA NeverGone ==
    ASSUME NEW L \in Seq(Logged), NEW n \in 0 .. Len(L), NEW t, NEW a, "deleted" \notin Kinds(t)
    PROVE  ~Gone(L, n, t, a)
<1>1. SUFFICES ASSUME NEW i \in 1 .. n, L[i].table = t, L[i].kind = "deleted" PROVE FALSE
  BY DEF Gone
<1>2. L[i] \in Logged
  BY DEF Gone
<1> QED
  BY <1>1, <1>2 DEF Logged

\* The event of a row's aggregate, numbered by the row's version or not yet.
LEMMA ExistingFromRow ==
    ASSUME ResourceInv, NEW r \in rrows, NEW e \in ResourceEvent, NEW n \in Nat, NEW p,
           e.table = r.table, e.id = r.id, e.kind \in {"updated", "deleted"}, e.kind \in Kinds(e.table),
           e.table \notin {"env", "restore"}, e.ref >= 0, ParentTable(e) = "none" \/ e.ref = r.ref,
           r.live \/ "deleted" \notin Kinds(r.table), n <= r.version + 1,
           r.table = "member" => e.key = r.key /\ e.ref = r.ref,
           r.table = "bundle" => e.attr \in Values /\ p # "checked", p # "numbered"
    PROVE  Existing(rlog, sversions, e, n, p)
<1>1. /\ r \in ResourceRow /\ r.id >= 1 /\ r.version + 1 \in Nat
      /\ Born(rlog, Len(rlog), r.table, r.id)
      /\ r.version + 1 <= Cardinality(Agg(rlog, Len(rlog), r.table, r.id)) + 1
      /\ r.live /\ r.version + 1 = Cardinality(Agg(rlog, Len(rlog), r.table, r.id)) + 1 =>
            ~Gone(rlog, Len(rlog), r.table, r.id)
      /\ r.table = "member" => \A i \in Agg(rlog, Len(rlog), "member", r.id) :
            rlog[i].key = r.key /\ rlog[i].ref = r.ref
      /\ ParentTable(r) # "none" => Born(rlog, Len(rlog), ParentTable(r), r.ref)
  BY RowFacts
<1>2. rlog \in Seq(Logged) /\ Len(rlog) \in Nat
  BY DEF ResourceInv, LogOK
<1>3. "deleted" \notin Kinds(r.table) => ~Gone(rlog, Len(rlog), r.table, r.id)
  BY <1>2, NeverGone
<1>4. Cardinality(Agg(rlog, Len(rlog), r.table, r.id)) \in Nat
  BY <1>2, AggFinite
<1>5. n <= Cardinality(Agg(rlog, Len(rlog), e.table, e.id)) + 1
  BY <1>1, <1>4
<1>6. n = Cardinality(Agg(rlog, Len(rlog), e.table, e.id)) + 1 => ~Gone(rlog, Len(rlog), e.table, e.id)
  BY <1>1, <1>3, <1>4
<1>7. ParentTable(e) = ParentTable(r)
  BY DEF ParentTable
<1>8. ParentBorn(rlog, Len(rlog), e)
  BY <1>1, <1>7 DEF ParentBorn
<1> QED
  BY <1>1, <1>5, <1>6, <1>8 DEF Existing

\* The handler appends an event of a row's aggregate.
LEMMA ProceedFromRow ==
    ASSUME ResourceInv, NEW c \in Handlers, NEW r \in rrows, NEW e \in ResourceEvent, NEW n \in Nat,
           NEW p \in {"loaded", "checked"},
           e.table = r.table, e.id = r.id, e.kind \in {"updated", "deleted"}, e.kind \in Kinds(e.table),
           e.table \notin {"env", "restore"}, e.ref >= 0, ParentTable(e) = "none" \/ e.ref = r.ref,
           r.live \/ "deleted" \notin Kinds(r.table), n <= r.version + 1,
           r.table = "member" => e.key = r.key /\ e.ref = r.ref,
           r.table = "bundle" => e.attr \in Values /\ p # "checked",
           Proceed(c, p, <<e>>, n), UNCHANGED sversions
    PROVE  ResourceInv'
<1>1. Existing(rlog, sversions, e, n, p)
  BY ExistingFromRow
<1> QED
  BY <1>1, ProceedExisting

\* What a row gives a new aggregate as its parent.
LEMMA FreshUnder ==
    ASSUME ResourceInv, NEW e \in ResourceEvent, e.id = -1, e.kind = "created",
           e.table \notin {"org", "env", "bundle", "restore"}, e.ref >= 0,
           \/ ParentTable(e) = "none"
           \/ \E r \in rrows : r.table = ParentTable(e) /\ r.id = e.ref
    PROVE  Fresh(rlog, e)
<1>1. \A r \in rrows : Born(rlog, Len(rlog), r.table, r.id)
  BY RowFacts
<1> QED
  BY <1>1 DEF Fresh, ParentBorn

\* The handlers of organizations, members and projects, up to their second look.
LEMMA TenancyPreserves ==
    ASSUME ResourceInv, NEW c \in Handlers, OrgNext(c) \/ ProjectNext(c), ~CountOwners(c),
           ~CheckProjectName(c), UNCHANGED sversions
    PROVE  ResourceInv'
<1>0. rrows \subseteq ResourceRow /\ \A r \in rrows : r.id \in Nat /\ r.ref \in Nat /\ r.version \in Nat
  BY DEF ResourceInv, RowsOK, ResourceRow
<1>1. ASSUME NEW k \in Keys, CreateOrg(c, k) PROVE ResourceInv'
  <2>1. PICK b : b = OrgWithOwner(k)
    OBVIOUS
  <2>2. /\ Ev("org", "created", -1, None, 0, None) \in ResourceEvent
        /\ Ev("member", "created", -2, k, -1, "owner") \in ResourceEvent
    BY DEF Ev, ResourceEvent, Tables, Roles
  <2>3. b \in Seq(ResourceEvent)
    BY <2>1, <2>2 DEF OrgWithOwner
  <2>4. Pending(rlog, sversions, [phase |-> "checked", batch |-> b, seq |-> 1, upto |-> 0, shown |-> 0])
    BY <2>1 DEF Pending
  <2>5. Proceed(c, "checked", b, 1)
    BY <1>1, <2>1 DEF CreateOrg
  <2> QED
    BY <2>3, <2>4, <2>5, ProceedOK
<1>2. ASSUME NEW o \in RowsOf("org"), UpdateOrg(c, o) PROVE ResourceInv'
  <2>1. PICK e : e = Ev("org", "updated", o.id, None, 0, None)
    OBVIOUS
  <2>2. o \in rrows /\ o.table = "org" /\ o.version + 1 \in Nat
    BY <1>0, <1>2 DEF RowsOf
  <2>3. e \in ResourceEvent /\ e.table = "org" /\ e.id = o.id /\ e.kind = "updated" /\ e.ref = 0
    BY <1>0, <2>1, <2>2 DEF Ev, ResourceEvent, Tables
  <2>4. "updated" \in Kinds("org") /\ "deleted" \notin Kinds("org") /\ ParentTable(e) = "none"
    BY <2>3 DEF Kinds, ParentTable
  <2>5. Proceed(c, "checked", <<e>>, o.version + 1)
    BY <1>2, <2>1 DEF UpdateOrg, OrgUpdated
  <2> QED
    BY <2>2, <2>3, <2>4, <2>5, ProceedFromRow
<1>3. ASSUME NEW o \in RowsOf("org"), NEW k \in Keys, NEW role \in {"owner", "readonly"},
             CreateMember(c, o, k, role)
      PROVE  ResourceInv'
  <2>1. PICK e : e = Ev("member", "created", -1, k, o.id, role)
    OBVIOUS
  <2>2. o \in rrows /\ o.table = "org"
    BY <1>3 DEF RowsOf
  <2>3. /\ e \in ResourceEvent /\ e.table = "member" /\ e.id = -1 /\ e.kind = "created" /\ e.ref = o.id
    BY <1>0, <2>1, <2>2, EvIsEvent DEF Tables, Roles
  <2>4. ParentTable(e) = "org"
    BY <2>3 DEF ParentTable
  <2>5. Fresh(rlog, e)
    BY <1>0, <2>2, <2>3, <2>4, FreshUnder
  <2>6. Proceed(c, "checked", <<e>>, 1)
    BY <1>3, <2>1 DEF CreateMember, MemberAdded
  <2> QED
    BY <2>3, <2>5, <2>6, ProceedFresh
<1>4. ASSUME NEW m \in LiveOf("member"), NEW role \in {"owner", "admin"}, LoadMember(c, m, role)
      PROVE  ResourceInv'
  <2>1. PICK e : e = Ev("member", "updated", m.id, m.key, m.ref, role)
    OBVIOUS
  <2>2. m \in rrows /\ m.table = "member" /\ m.live /\ m.key \in Keys \cup {None} /\ m.version + 1 \in Nat
    BY <1>0, <1>4 DEF LiveOf, RowsOf, ResourceRow
  <2>3. /\ e \in ResourceEvent /\ e.table = "member" /\ e.id = m.id /\ e.kind = "updated" /\ e.ref = m.ref
        /\ e.key = m.key
    BY <1>0, <2>1, <2>2, EvIsEvent DEF Tables, Roles
  <2>4. "updated" \in Kinds("member")
    BY DEF Kinds
  <2>5. PICK p \in {"loaded", "checked"} : Proceed(c, p, <<e>>, m.version + 1)
    BY <1>4, <2>1 DEF LoadMember, RoleUpdated
  <2> QED
    BY <1>0, <2>2, <2>3, <2>4, <2>5, ProceedFromRow
<1>5. ASSUME NEW m \in LiveOf("member"), LoadMemberToDelete(c, m) PROVE ResourceInv'
  <2>1. PICK e : e = Ev("member", "deleted", m.id, m.key, m.ref, m.attr)
    OBVIOUS
  <2>2. /\ m \in rrows /\ m.table = "member" /\ m.live /\ m.key \in Keys \cup {None} /\ m.version + 1 \in Nat
        /\ m.attr \in Values \cup Roles \cup {None, "queued", "succeeded"}
    BY <1>0, <1>5 DEF LiveOf, RowsOf, ResourceRow
  <2>3. /\ e \in ResourceEvent /\ e.table = "member" /\ e.id = m.id /\ e.kind = "deleted" /\ e.ref = m.ref
        /\ e.key = m.key
    BY <1>0, <2>1, <2>2 DEF Ev, ResourceEvent, Tables
  <2>4. "deleted" \in Kinds("member")
    BY DEF Kinds
  <2>5. PICK p \in {"loaded", "checked"} : Proceed(c, p, <<e>>, m.version + 1)
    BY <1>5, <2>1 DEF LoadMemberToDelete, MemberRemoved
  <2> QED
    BY <1>0, <2>2, <2>3, <2>4, <2>5, ProceedFromRow
<1>6. ASSUME NEW n \in Keys, CreateProject(c, n) PROVE ResourceInv'
  <2>1. PICK e : e = Ev("project", "created", -1, n, 0, None)
    OBVIOUS
  <2>2. e \in ResourceEvent /\ e.table = "project" /\ e.id = -1 /\ e.kind = "created" /\ e.ref = 0
    BY <2>1, EvIsEvent DEF Tables
  <2>3. ParentTable(e) = "none"
    BY <2>2 DEF ParentTable
  <2>4. Fresh(rlog, e)
    BY <2>2, <2>3, FreshUnder
  <2>5. Proceed(c, "checked", <<e>>, 1)
    BY <1>6, <2>1 DEF CreateProject, ProjectCreated
  <2> QED
    BY <2>2, <2>4, <2>5, ProceedFresh
<1>7. ASSUME NEW r \in LiveOf("project"), NEW n \in Keys, LoadProject(c, r, n) PROVE ResourceInv'
  <2>1. PICK e : e = Ev("project", "updated", r.id, n, 0, None)
    OBVIOUS
  <2>2. r \in rrows /\ r.table = "project" /\ r.live /\ r.version + 1 \in Nat
    BY <1>0, <1>7 DEF LiveOf, RowsOf
  <2>3. e \in ResourceEvent /\ e.table = "project" /\ e.id = r.id /\ e.kind = "updated" /\ e.ref = 0
    BY <1>0, <2>1, <2>2 DEF Ev, ResourceEvent, Tables
  <2>4. "updated" \in Kinds("project") /\ ParentTable(e) = "none"
    BY <2>3 DEF Kinds, ParentTable
  <2>5. PICK p \in {"loaded", "checked"} : Proceed(c, p, <<e>>, r.version + 1)
    BY <1>7, <2>1 DEF LoadProject, ProjectUpdated
  <2> QED
    BY <1>0, <2>2, <2>3, <2>4, <2>5, ProceedFromRow
<1> QED
  BY <1>1, <1>2, <1>3, <1>4, <1>5, <1>6, <1>7 DEF OrgNext, ProjectNext

\* The handlers of applications and releases, up to their second look.
LEMMA AppPreserves ==
    ASSUME ResourceInv, NEW c \in Handlers, AppNext(c), ~CheckAppName(c), UNCHANGED sversions
    PROVE  ResourceInv'
<1>0. rrows \subseteq ResourceRow /\ \A r \in rrows : r.id \in Nat /\ r.ref \in Nat /\ r.version \in Nat
  BY DEF ResourceInv, RowsOK, ResourceRow
<1>1. ASSUME NEW n \in Keys, CreateApp(c, n) PROVE ResourceInv'
  <2>1. PICK e : e = Ev("app", "created", -1, n, 0, None)
    OBVIOUS
  <2>2. e \in ResourceEvent /\ e.table = "app" /\ e.id = -1 /\ e.kind = "created" /\ e.ref = 0
    BY <2>1, EvIsEvent DEF Tables
  <2>3. ParentTable(e) = "none"
    BY <2>2 DEF ParentTable
  <2>4. Fresh(rlog, e)
    BY <2>2, <2>3, FreshUnder
  <2>5. Proceed(c, "checked", <<e>>, 1)
    BY <1>1, <2>1 DEF CreateApp, AppCreated
  <2> QED
    BY <2>2, <2>4, <2>5, ProceedFresh
<1>2. ASSUME NEW r \in LiveOf("app"), NEW n \in Keys \cup {None}, LoadApp(c, r, n) PROVE ResourceInv'
  <2>1. PICK e : e = Ev("app", "updated", r.id, n, 0, None)
    OBVIOUS
  <2>2. r \in rrows /\ r.table = "app" /\ r.live /\ r.version + 1 \in Nat
    BY <1>0, <1>2 DEF LiveOf, RowsOf
  <2>3. e \in ResourceEvent /\ e.table = "app" /\ e.id = r.id /\ e.kind = "updated" /\ e.ref = 0
    BY <1>0, <2>1, <2>2 DEF Ev, ResourceEvent, Tables
  <2>4. "updated" \in Kinds("app") /\ ParentTable(e) = "none"
    BY <2>3 DEF Kinds, ParentTable
  <2>5. PICK p \in {"loaded", "checked"} : Proceed(c, p, <<e>>, r.version + 1)
    BY <1>2, <2>1 DEF LoadApp, AppUpdated
  <2> QED
    BY <1>0, <2>2, <2>3, <2>4, <2>5, ProceedFromRow
<1>3. ASSUME NEW r \in LiveOf("app"), DeleteApp(c, r) PROVE ResourceInv'
  <2>1. PICK e : e = Ev("app", "deleted", r.id, r.key, 0, None)
    OBVIOUS
  <2>2. r \in rrows /\ r.table = "app" /\ r.live /\ r.version + 1 \in Nat /\ r.key \in Keys \cup {None}
    BY <1>0, <1>3 DEF LiveOf, RowsOf, ResourceRow
  <2>3. e \in ResourceEvent /\ e.table = "app" /\ e.id = r.id /\ e.kind = "deleted" /\ e.ref = 0
    BY <1>0, <2>1, <2>2 DEF Ev, ResourceEvent, Tables
  <2>4. "deleted" \in Kinds("app") /\ ParentTable(e) = "none"
    BY <2>3 DEF Kinds, ParentTable
  <2>5. Proceed(c, "checked", <<e>>, r.version + 1)
    BY <1>3, <2>1 DEF DeleteApp, AppDeleted
  <2> QED
    BY <1>0, <2>2, <2>3, <2>4, <2>5, ProceedFromRow
<1>4. ASSUME NEW a \in LiveOf("app"), CreateRelease(c, a) PROVE ResourceInv'
  <2>1. PICK e : e = Ev("release", "created", -1, None, a.id, None)
    OBVIOUS
  <2>2. a \in rrows /\ a.table = "app"
    BY <1>4 DEF LiveOf, RowsOf
  <2>3. e \in ResourceEvent /\ e.table = "release" /\ e.id = -1 /\ e.kind = "created" /\ e.ref = a.id
    BY <1>0, <2>1, <2>2 DEF Ev, ResourceEvent, Tables
  <2>4. ParentTable(e) = "app"
    BY <2>3 DEF ParentTable
  <2>5. Fresh(rlog, e)
    BY <1>0, <2>2, <2>3, <2>4, FreshUnder
  <2>6. Proceed(c, "checked", <<e>>, 1)
    BY <1>4, <2>1 DEF CreateRelease, ReleaseCreated
  <2> QED
    BY <2>3, <2>5, <2>6, ProceedFresh
<1> QED
  BY <1>1, <1>2, <1>3, <1>4 DEF AppNext

\* The first event of an aggregate creates it.
LEMMA FirstCreates ==
    ASSUME NEW L, NEW V, LogOK(L, V), NEW n \in 0 .. Len(L), NEW t, NEW a, Agg(L, n, t, a) # {}
    PROVE  \E k \in Agg(L, n, t, a) : L[k].kind = "created" /\ \A j \in Agg(L, n, t, a) : k <= j
<1>1. Len(L) \in Nat /\ n \in Nat /\ n <= Len(L)
  BY DEF LogOK
<1>2. Born(L, n, t, a)
  <2>1. PICK i \in 1 .. n : L[i].table = t /\ L[i].id = a
    BY DEF Agg
  <2>2. EventOK(L, i, V) /\ i - 1 \in Nat /\ i - 1 <= n
    BY <1>1 DEF LogOK
  <2>3. CASE L[i].kind = "created"
    BY <2>1, <2>3 DEF Born
  <2>4. CASE L[i].kind # "created"
    <3>1. Born(L, i - 1, t, a)
      BY <2>1, <2>2, <2>4 DEF EventOK
    <3> QED
      BY <1>1, <2>2, <3>1, LongerPrefix
  <2> QED
    BY <2>3, <2>4
<1>3. PICK k \in 1 .. n : L[k].table = t /\ L[k].id = a /\ L[k].kind = "created"
  BY <1>2 DEF Born
<1>4. Agg(L, k - 1, t, a) = {}
  <2>1. k \in 1 .. Len(L)
    BY <1>1
  <2>2. EventOK(L, k, V)
    BY <2>1 DEF LogOK
  <2> QED
    BY <1>3, <2>2 DEF EventOK
<1>5. ASSUME NEW j \in Agg(L, n, t, a) PROVE k <= j
  <2>1. j \in 1 .. n /\ (j < k => j \in Agg(L, k - 1, t, a))
    BY <1>1 DEF Agg
  <2> QED
    BY <1>1, <1>4, <2>1
<1> QED
  BY <1>3, <1>5 DEF Agg

\* What the handlers of routes read from the log.
LEMMA RouteStateFacts ==
    ASSUME ResourceInv, NEW id \in 1 .. Len(rlog), RouteState(id).found
    PROVE  /\ Born(rlog, Len(rlog), "route", id)
           /\ RouteState(id).version = Cardinality(Agg(rlog, Len(rlog), "route", id))
           /\ RouteState(id).version \in Nat
           /\ RouteState(id).deleted = Gone(rlog, Len(rlog), "route", id)
           /\ RouteState(id).key \in Keys \cup {None}
<1> DEFINE A == Agg(rlog, Len(rlog), "route", id)
<1>1. /\ LogOK(rlog, sversions) /\ Len(rlog) \in Nat /\ Len(rlog) \in 0 .. Len(rlog) /\ rlog \in Seq(Logged)
  BY DEF ResourceInv, LogOK
<1>2. RouteEvents(id) = A
  BY DEF RouteEvents, Agg
<1>3. A # {}
  BY <1>2 DEF RouteState
<1>4. PICK k \in A : rlog[k].kind = "created" /\ \A j \in A : k <= j
  BY <1>1, <1>3, FirstCreates
<1>5. Born(rlog, Len(rlog), "route", id)
  BY <1>4 DEF Agg, Born
<1>6. RouteState(id).version = Cardinality(A)
  BY <1>2 DEF RouteState
<1>7. Cardinality(A) \in Nat
  BY <1>1, AggFinite
<1>8. RouteState(id).deleted = \E i \in A : rlog[i].kind = "deleted"
  BY <1>2 DEF RouteState
<1>9. (\E i \in A : rlog[i].kind = "deleted") = Gone(rlog, Len(rlog), "route", id)
  BY DEF Agg, Gone
<1>10. RouteState(id).key \in Keys \cup {None}
  <2>1. RouteState(id).key = rlog[CHOOSE i \in A : \A j \in A : i <= j].key
    BY <1>2, <1>3 DEF RouteState
  <2>2. PICK i : i = CHOOSE x \in A : \A j \in A : x <= j
    OBVIOUS
  <2>3. i \in A
    BY <1>4, <2>2
  <2>4. i \in 1 .. Len(rlog)
    BY <2>3 DEF Agg
  <2>5. rlog[i] \in Logged
    BY <1>1, <2>4
  <2>6. rlog[i].key \in Keys \cup {None}
    BY <2>5 DEF Logged, ResourceEvent
  <2> QED
    BY <2>1, <2>2, <2>6
<1>11. RouteState(id).deleted = Gone(rlog, Len(rlog), "route", id)
  BY <1>8, <1>9
<1> HIDE DEF A
<1>12. RouteState(id).version \in Nat
  BY <1>6, <1>7
<1> QED
  BY <1>5, <1>6, <1>10, <1>11, <1>12 DEF A

\* The handlers of routes, which fold the log.
LEMMA RoutePreserves ==
    ASSUME ResourceInv, NEW c \in Handlers, RouteNext(c), UNCHANGED sversions
    PROVE  ResourceInv'
<1>1. ASSUME NEW h \in Keys, CreateRoute(c, h) PROVE ResourceInv'
  <2>1. PICK e : e = Ev("route", "created", -1, h, 0, None)
    OBVIOUS
  <2>2. e \in ResourceEvent /\ e.table = "route" /\ e.id = -1 /\ e.kind = "created" /\ e.ref = 0
    BY <2>1 DEF Ev, ResourceEvent, Tables
  <2>3. ParentTable(e) = "none"
    BY <2>2 DEF ParentTable
  <2>4. Fresh(rlog, e)
    BY <2>2, <2>3, FreshUnder
  <2>5. Proceed(c, "checked", <<e>>, 1)
    BY <1>1, <2>1 DEF CreateRoute, RouteCreated
  <2> QED
    BY <2>2, <2>4, <2>5, ProceedFresh
<1>2. ASSUME NEW id \in 1 .. Len(rlog), NEW kind \in {"updated", "deleted"}, RouteState(id).found,
             ~RouteState(id).deleted,
             Proceed(c, "checked", <<Ev("route", kind, id, RouteState(id).key, 0, None)>>,
                     RouteState(id).version + 1)
      PROVE  ResourceInv'
  <2>1. /\ Born(rlog, Len(rlog), "route", id)
        /\ RouteState(id).version = Cardinality(Agg(rlog, Len(rlog), "route", id))
        /\ RouteState(id).version \in Nat
        /\ ~Gone(rlog, Len(rlog), "route", id)
        /\ RouteState(id).key \in Keys \cup {None}
    BY <1>2, RouteStateFacts
  <2>2. PICK e : e = Ev("route", kind, id, RouteState(id).key, 0, None)
    OBVIOUS
  <2>3. id \in Int /\ id >= 1
    OBVIOUS
  <2>4. e \in ResourceEvent /\ e.table = "route" /\ e.id = id /\ e.kind = kind /\ e.ref = 0
    BY <2>1, <2>2, <2>3 DEF Ev, ResourceEvent, Tables
  <2>5. kind \in Kinds("route") /\ ParentTable(e) = "none"
    BY <2>4 DEF Kinds, ParentTable
  <2>6. PICK n \in Nat : n = RouteState(id).version + 1
    BY <2>1
  <2>7. n <= Cardinality(Agg(rlog, Len(rlog), "route", id)) + 1
    BY <2>1, <2>6
  <2>8. Existing(rlog, sversions, e, n, "checked")
    BY <2>1, <2>3, <2>4, <2>5, <2>7 DEF Existing, ParentBorn
  <2>9. Proceed(c, "checked", <<e>>, n)
    BY <1>2, <2>2, <2>6
  <2> QED
    BY <2>4, <2>8, <2>9, ProceedExisting
<1>3. ASSUME NEW id \in 1 .. Len(rlog), UpdateRoute(c, id) PROVE ResourceInv'
  <2>1. Proceed(c, "checked", <<Ev("route", "updated", id, RouteState(id).key, 0, None)>>,
                RouteState(id).version + 1)
    BY <1>3 DEF UpdateRoute, RouteUpdated
  <2> QED
    BY <1>2, <1>3, <2>1 DEF UpdateRoute
<1>4. ASSUME NEW id \in 1 .. Len(rlog), DeleteRoute(c, id) PROVE ResourceInv'
  <2>1. Proceed(c, "checked", <<Ev("route", "deleted", id, RouteState(id).key, 0, None)>>,
                RouteState(id).version + 1)
    BY <1>4 DEF DeleteRoute, RouteDeleted
  <2> QED
    BY <1>2, <1>4, <2>1 DEF DeleteRoute
<1> QED
  BY <1>1, <1>3, <1>4 DEF RouteNext

\* The handler goes from phase to phase with the event it has loaded.
LEMMA LoadedFacts ==
    ASSUME ResourceInv, NEW c \in Handlers, rreq[c].phase = "loaded"
    PROVE  \E e \in ResourceEvent : /\ rreq[c].batch = <<e>> /\ rreq[c].batch[1] = e
                                    /\ Existing(rlog, sversions, e, rreq[c].seq, "loaded")
<1>1. Pending(rlog, sversions, rreq[c])
  BY DEF ResourceInv, RequestOK
<1>2. PICK e \in ResourceEvent : rreq[c].batch = <<e>> /\ Existing(rlog, sversions, e, rreq[c].seq, rreq[c].phase)
  BY <1>1 DEF Pending
<1> QED
  BY <1>2

\* A handler goes on with the event it holds.
LEMMA LoadedMovesOn ==
    ASSUME ResourceInv, NEW c \in Handlers, NEW e \in ResourceEvent, NEW n \in Nat,
           NEW p \in {"numbered", "checked"}, rreq[c].batch = <<e>>,
           Existing(rlog, sversions, e, n, p),
           rreq' = [rreq EXCEPT ![c].phase = p, ![c].seq = n],
           UNCHANGED <<focus, rlog, rdone, rrows, rworker, sversions>>
    PROVE  ResourceInv'
<1>1. PICK q : q = [rreq[c] EXCEPT !.phase = p, !.seq = n]
  OBVIOUS
<1>2. rreq[c] \in ResourceRequest /\ rreq \in [Handlers -> ResourceRequest]
  BY DEF ResourceInv
<1>3. /\ q \in ResourceRequest /\ q.phase = p /\ q.seq = n /\ q.batch = <<e>>
  BY <1>1, <1>2 DEF ResourceRequest
<1>4. rreq' = [rreq EXCEPT ![c] = q]
  BY <1>1, <1>2
<1>5. Pending(rlog, sversions, q)
  BY <1>3 DEF Pending
<1>6. RequestOK(rlog, sversions', q)
  BY <1>3, <1>5 DEF RequestOK
<1>7. sversions \subseteq sversions' /\ VersionsOK(sversions')
  BY DEF ResourceInv
<1> QED
  BY <1>3, <1>4, <1>6, <1>7, OneRequestMoves

\* The second looks: the owners counted, the names checked.
LEMMA CheckPreserves ==
    ASSUME ResourceInv, NEW c \in Handlers, CountOwners(c) \/ CheckProjectName(c) \/ CheckAppName(c),
           UNCHANGED sversions
    PROVE  ResourceInv'
<1>1. /\ rreq[c].phase = "loaded" /\ rreq[c].batch[1].table \in {"member", "project", "app"}
      /\ rreq' = [rreq EXCEPT ![c].phase = "checked"]
      /\ UNCHANGED <<focus, rlog, rdone, rrows, rworker, sversions>>
  BY DEF CountOwners, CheckProjectName, CheckAppName
<1>2. PICK e \in ResourceEvent : /\ rreq[c].batch = <<e>> /\ rreq[c].batch[1] = e
                                 /\ Existing(rlog, sversions, e, rreq[c].seq, "loaded")
  BY <1>1, LoadedFacts
<1>3. Existing(rlog, sversions, e, rreq[c].seq, "checked")
  BY <1>1, <1>2 DEF Existing
<1>4. /\ rreq \in [Handlers -> ResourceRequest] /\ rreq[c] \in ResourceRequest /\ rreq[c].seq \in Nat
  BY DEF ResourceInv, ResourceRequest
<1>5. rreq' = [rreq EXCEPT ![c].phase = "checked", ![c].seq = rreq[c].seq]
  BY <1>1, <1>4 DEF ResourceRequest
<1> QED
  BY <1>1, <1>2, <1>3, <1>4, <1>5, LoadedMovesOn

\* delete_volume and delete_attachment read the number after the row.
LEMMA NumberDeletePreserves ==
    ASSUME ResourceInv, NEW c \in Handlers, NumberDelete(c), UNCHANGED sversions
    PROVE  ResourceInv'
<1>1. PICK e \in ResourceEvent : /\ rreq[c].batch = <<e>> /\ rreq[c].batch[1] = e
                                 /\ Existing(rlog, sversions, e, rreq[c].seq, "loaded")
  BY LoadedFacts DEF NumberDelete
<1>2. PICK n : n = Cardinality(Agg(rlog, Len(rlog), e.table, e.id)) + 1
  OBVIOUS
<1>3. /\ e.table \in {"volume", "attachment"} /\ rreq' = [rreq EXCEPT ![c].phase = "checked", ![c].seq = n]
      /\ UNCHANGED <<focus, rlog, rdone, rrows, rworker, sversions>>
  BY <1>1, <1>2 DEF NumberDelete, LogSeq, Agg
<1>4. Len(rlog) \in Nat
  BY DEF ResourceInv, LogOK
<1>5. n \in Nat /\ n <= Cardinality(Agg(rlog, Len(rlog), e.table, e.id)) + 1
  BY <1>2, <1>4, AggFinite
<1>6. e.kind # "updated"
  BY <1>1, <1>3 DEF Existing, Kinds
<1>7. Existing(rlog, sversions, e, n, "checked")
  BY <1>1, <1>3, <1>5, <1>6 DEF Existing
<1> QED
  BY <1>1, <1>3, <1>5, <1>7, LoadedMovesOn

\* The handlers of volumes, snapshots, restores and attachments.
LEMMA VolumePreserves ==
    ASSUME ResourceInv, NEW c \in Handlers, VolumeNext(c), UNCHANGED sversions
    PROVE  ResourceInv'
<1>0. rrows \subseteq ResourceRow /\ \A r \in rrows : r.id \in Nat /\ r.ref \in Nat /\ r.version \in Nat
  BY DEF ResourceInv, RowsOK, ResourceRow
<1>1. ASSUME CreateVolume(c) PROVE ResourceInv'
  <2>1. PICK e : e = Ev("volume", "created", -1, None, 0, None)
    OBVIOUS
  <2>2. e \in ResourceEvent /\ e.table = "volume" /\ e.id = -1 /\ e.kind = "created" /\ e.ref = 0
    BY <2>1 DEF Ev, ResourceEvent, Tables
  <2>3. ParentTable(e) = "none"
    BY <2>2 DEF ParentTable
  <2>4. Fresh(rlog, e)
    BY <2>2, <2>3, FreshUnder
  <2>5. Proceed(c, "checked", <<e>>, 1)
    BY <1>1, <2>1 DEF CreateVolume, VolumeCreated
  <2> QED
    BY <2>2, <2>4, <2>5, ProceedFresh
<1>2. ASSUME NEW v \in LiveOf("volume"), LoadVolumeToDelete(c, v) PROVE ResourceInv'
  <2>1. PICK e : e = Ev("volume", "deleted", v.id, None, 0, None)
    OBVIOUS
  <2>2. v \in rrows /\ v.table = "volume" /\ v.live /\ 0 <= v.version + 1
    BY <1>0, <1>2 DEF LiveOf, RowsOf
  <2>3. e \in ResourceEvent /\ e.table = "volume" /\ e.id = v.id /\ e.kind = "deleted" /\ e.ref = 0
    BY <1>0, <2>1, <2>2 DEF Ev, ResourceEvent, Tables
  <2>4. "deleted" \in Kinds("volume") /\ ParentTable(e) = "none"
    BY <2>3 DEF Kinds, ParentTable
  <2>5. Proceed(c, "loaded", <<e>>, 0)
    BY <1>2, <2>1 DEF LoadVolumeToDelete, VolumeDeleted
  <2> QED
    BY <2>2, <2>3, <2>4, <2>5, ProceedFromRow
<1>3. ASSUME NEW v \in LiveOf("volume"), CreateSnapshot(c, v) PROVE ResourceInv'
  <2>1. PICK e : e = Ev("snapshot", "created", -1, None, v.id, "queued")
    OBVIOUS
  <2>2. v \in rrows /\ v.table = "volume"
    BY <1>3 DEF LiveOf, RowsOf
  <2>3. e \in ResourceEvent /\ e.table = "snapshot" /\ e.id = -1 /\ e.kind = "created" /\ e.ref = v.id
    BY <1>0, <2>1, <2>2 DEF Ev, ResourceEvent, Tables
  <2>4. ParentTable(e) = "volume"
    BY <2>3 DEF ParentTable
  <2>5. Fresh(rlog, e)
    BY <1>0, <2>2, <2>3, <2>4, FreshUnder
  <2>6. Proceed(c, "checked", <<e>>, 1)
    BY <1>3, <2>1 DEF CreateSnapshot, SnapshotCreated
  <2> QED
    BY <2>3, <2>5, <2>6, ProceedFresh
<1>4. ASSUME NEW v \in LiveOf("volume"), NEW s \in RowsOf("snapshot"), RestoreVolume(c, v, s)
      PROVE  ResourceInv'
  <2>1. PICK b : b = RestoreBatch(s)
    OBVIOUS
  <2>2. s \in rrows /\ s.table = "snapshot" /\ s \in ResourceRow /\ s.id \in Nat
    BY <1>0, <1>4 DEF RowsOf
  <2>3. /\ Ev("restore", "created", -1, None, s.id, "queued") \in ResourceEvent
        /\ Ev("volume", "created", -2, None, 0, None) \in ResourceEvent
        /\ Ev("restore", "updated", -1, None, -2, "succeeded") \in ResourceEvent
    BY <2>2 DEF Ev, ResourceEvent, Tables
  <2>4. b \in Seq(ResourceEvent)
    BY <2>1, <2>3 DEF RestoreBatch
  <2>5. Born(rlog, Len(rlog), "snapshot", s.id)
    BY <2>2, RowFacts
  <2>6. Pending(rlog, sversions, [phase |-> "checked", batch |-> b, seq |-> 1, upto |-> 0, shown |-> 0])
    BY <2>1, <2>2, <2>5 DEF Pending
  <2>7. Proceed(c, "checked", b, 1)
    BY <1>4, <2>1 DEF RestoreVolume
  <2> QED
    BY <2>4, <2>6, <2>7, ProceedOK
<1>5. ASSUME NEW v \in LiveOf("volume"), CreateAttachment(c, v, FirstKey) PROVE ResourceInv'
  <2>1. PICK e : e = Ev("attachment", "created", -1, FirstKey, v.id, None)
    OBVIOUS
  <2>2. v \in rrows /\ v.table = "volume"
    BY <1>5 DEF LiveOf, RowsOf
  <2>3. e \in ResourceEvent /\ e.table = "attachment" /\ e.id = -1 /\ e.kind = "created" /\ e.ref = v.id
    BY <1>0, <2>1, <2>2, SecretEnvIsKey DEF Ev, ResourceEvent, Tables
  <2>4. ParentTable(e) = "volume"
    BY <2>3 DEF ParentTable
  <2>5. Fresh(rlog, e)
    BY <1>0, <2>2, <2>3, <2>4, FreshUnder
  <2>6. Proceed(c, "checked", <<e>>, 1)
    BY <1>5, <2>1 DEF CreateAttachment, AttachmentCreated
  <2> QED
    BY <2>3, <2>5, <2>6, ProceedFresh
<1>6. ASSUME NEW a \in LiveOf("attachment"), LoadAttachmentToDelete(c, a) PROVE ResourceInv'
  <2>1. PICK e : e = Ev("attachment", "deleted", a.id, a.key, a.ref, None)
    OBVIOUS
  <2>2. a \in rrows /\ a.table = "attachment" /\ a.live /\ 0 <= a.version + 1 /\ a.key \in Keys \cup {None}
    BY <1>0, <1>6 DEF LiveOf, RowsOf, ResourceRow
  <2>3. e \in ResourceEvent /\ e.table = "attachment" /\ e.id = a.id /\ e.kind = "deleted" /\ e.ref = a.ref
    BY <1>0, <2>1, <2>2 DEF Ev, ResourceEvent, Tables
  <2>4. "deleted" \in Kinds("attachment")
    BY DEF Kinds
  <2>5. Proceed(c, "loaded", <<e>>, 0)
    BY <1>6, <2>1 DEF LoadAttachmentToDelete, AttachmentDeleted
  <2> QED
    BY <1>0, <2>2, <2>3, <2>4, <2>5, ProceedFromRow
<1>7. NumberDelete(c) => ResourceInv'
  BY NumberDeletePreserves
<1> QED
  BY <1>1, <1>2, <1>3, <1>4, <1>5, <1>6, <1>7 DEF VolumeNext

\* put_secrets looks for the bundle.
LEMMA LoadBundlePreserves ==
    ASSUME ResourceInv, NEW c \in Handlers, NEW v \in Values, LoadBundle(c, v)
    PROVE  ResourceInv'
<1>0. rrows \subseteq ResourceRow /\ \A r \in rrows : r.id \in Nat /\ r.ref \in Nat /\ r.version \in Nat
  BY DEF ResourceInv, RowsOK, ResourceRow
<1>1. UNCHANGED sversions
  BY DEF LoadBundle
<1>2. ASSUME NEW r \in RowsOf("bundle"), Proceed(c, "loaded", <<Ev("bundle", "updated", r.id, SecretEnv, 0, v)>>, 0)
      PROVE  ResourceInv'
  <2>1. PICK e : e = Ev("bundle", "updated", r.id, SecretEnv, 0, v)
    OBVIOUS
  <2>2. r \in rrows /\ r.table = "bundle" /\ 0 <= r.version + 1
    BY <1>0, <1>2 DEF RowsOf
  <2>3. /\ e \in ResourceEvent /\ e.table = "bundle" /\ e.id = r.id /\ e.kind = "updated" /\ e.ref = 0
        /\ e.attr = v
    BY <1>0, <2>1, <2>2, SecretEnvIsKey DEF Ev, ResourceEvent, Tables
  <2>4. "updated" \in Kinds("bundle") /\ "deleted" \notin Kinds("bundle") /\ ParentTable(e) = "none"
    BY <2>3 DEF Kinds, ParentTable
  <2>5. Proceed(c, "loaded", <<e>>, 0)
    BY <1>2, <2>1
  <2> QED
    BY <1>1, <2>2, <2>3, <2>4, <2>5, ProceedFromRow
<1>3. ASSUME Proceed(c, "numbered", <<Ev("bundle", "created", 0, SecretEnv, 0, v)>>, 1)
      PROVE  ResourceInv'
  <2>1. PICK b : b = <<Ev("bundle", "created", 0, SecretEnv, 0, v)>>
    OBVIOUS
  <2>2. Ev("bundle", "created", 0, SecretEnv, 0, v) \in ResourceEvent
    BY SecretEnvIsKey DEF Ev, ResourceEvent, Tables
  <2>3. b \in Seq(ResourceEvent)
    BY <2>1, <2>2
  <2>4. Pending(rlog, sversions, [phase |-> "numbered", batch |-> b, seq |-> 1, upto |-> 0, shown |-> 0])
    BY <2>1 DEF Pending
  <2>5. Proceed(c, "numbered", b, 1)
    BY <1>3, <2>1
  <2> QED
    BY <1>1, <2>3, <2>4, <2>5, ProceedOK
<1> QED
  BY <1>2, <1>3 DEF LoadBundle

\* put_secrets reads the number of its event.
LEMMA NumberBundlePreserves ==
    ASSUME ResourceInv, NEW c \in Handlers, NumberBundle(c)
    PROVE  ResourceInv'
<1>1. PICK e \in ResourceEvent : /\ rreq[c].batch = <<e>> /\ rreq[c].batch[1] = e
                                 /\ Existing(rlog, sversions, e, rreq[c].seq, "loaded")
  BY LoadedFacts DEF NumberBundle
<1>2. PICK n : n = Cardinality(Agg(rlog, Len(rlog), "bundle", e.id)) + 1
  OBVIOUS
<1>3. /\ e.table = "bundle" /\ rreq' = [rreq EXCEPT ![c].phase = "numbered", ![c].seq = n]
      /\ UNCHANGED <<focus, rlog, rdone, rrows, rworker, sversions>>
  BY <1>1, <1>2 DEF NumberBundle, LogSeq, Agg
<1>4. Len(rlog) \in Nat /\ rlog \in Seq(Logged)
  BY DEF ResourceInv, LogOK
<1>5. n \in Nat /\ n <= Cardinality(Agg(rlog, Len(rlog), "bundle", e.id)) + 1
  BY <1>2, <1>4, AggFinite
<1>6. "deleted" \notin Kinds("bundle")
  BY DEF Kinds
<1>7. ~Gone(rlog, Len(rlog), "bundle", e.id)
  BY <1>4, <1>6, NeverGone
<1>8. Existing(rlog, sversions, e, n, "numbered")
  BY <1>1, <1>3, <1>5, <1>7 DEF Existing
<1> QED
  BY <1>1, <1>3, <1>5, <1>8, LoadedMovesOn

\* A version more.
LEMMA NewVersionOK ==
    ASSUME NEW V, VersionsOK(V), NEW b \in Nat, NEW v \in Values
    PROVE  LET n == Cardinality(V) + 1 IN
           /\ n \in Nat \ {0}
           /\ VersionsOK(V \cup {NewVersion(b, n, v)})
           /\ Stored(V \cup {NewVersion(b, n, v)}, b, n, v)
<1>1. IsFiniteSet(V) /\ Cardinality(V) \in Nat
  BY FS_CardinalityType DEF VersionsOK
<1>2. PICK n \in Nat \ {0} : n = Cardinality(V) + 1
  BY <1>1
<1>3. PICK s : s = NewVersion(b, n, v)
  OBVIOUS
<1>4. <<b, n, v>> \in Seq(Nat \cup Values)
  BY <1>2
<1>5. /\ s \in SecretVersion /\ s.version = n /\ s.bundle = b /\ s.content = v
      /\ s = NewVersion(s.bundle, s.version, s.content)
  BY <1>2, <1>3, <1>4 DEF NewVersion, Encrypt, SecretsAad, SecretVersion
<1>6. \A u \in V : u.version \in 1 .. Cardinality(V) /\ u.version # n
  BY <1>1, <1>2 DEF VersionsOK
<1>7. s \notin V
  BY <1>5, <1>6
<1>8. IsFiniteSet(V \cup {s}) /\ Cardinality(V \cup {s}) = Cardinality(V) + 1
  BY <1>1, <1>7, FS_AddElement
<1>9. ASSUME NEW u \in V \cup {s}
      PROVE  u.version \in 1 .. Cardinality(V \cup {s}) /\ u = NewVersion(u.bundle, u.version, u.content)
  BY <1>1, <1>2, <1>5, <1>6, <1>8 DEF VersionsOK
<1>10. \A t, u \in V \cup {s} : t.version = u.version => t = u
  BY <1>5, <1>6 DEF VersionsOK
<1>11. V \cup {s} \subseteq SecretVersion
  BY <1>5 DEF VersionsOK
<1>12. VersionsOK(V \cup {s})
  BY <1>8, <1>9, <1>10, <1>11 DEF VersionsOK
<1>13. Stored(V \cup {s}, b, n, v)
  BY <1>5 DEF Stored
<1> QED
  BY <1>2, <1>3, <1>12, <1>13

\* put_secrets stores the material of a new version.
LEMMA StorePreserves ==
    ASSUME ResourceInv, NEW c \in Handlers, StoreSecretMaterial(c)
    PROVE  ResourceInv'
<1>0. PICK q : q = rreq[c]
  OBVIOUS
<1>1. /\ q.phase = "numbered" /\ q \in ResourceRequest /\ Pending(rlog, sversions, q)
      /\ rreq \in [Handlers -> ResourceRequest]
  BY <1>0 DEF StoreSecretMaterial, ResourceInv, RequestOK
<1>2. PICK e : e = q.batch[1]
  OBVIOUS
<1>3. \/ e \in ResourceEvent /\ q.batch = <<e>> /\ Existing(rlog, sversions, e, q.seq, "numbered")
      \/ \E v \in Values : /\ e = Ev("bundle", "created", 0, SecretEnv, 0, v) /\ q.seq = 1
                           /\ q.batch = <<e>>
  BY <1>1, <1>2 DEF Pending
<1>4. PICK n : n = Cardinality(sversions) + 1
  OBVIOUS
<1>5. PICK b : b = IF e.kind = "created" THEN n ELSE e.id
  OBVIOUS
<1>6. PICK W : W = sversions \cup {NewVersion(b, n, e.attr)}
  OBVIOUS
<1>7. PICK p : p = [q EXCEPT !.phase = "checked", !.batch = VersionSet(e, n)]
  OBVIOUS
<1>8. /\ sversions' = W /\ sversions \subseteq W
      /\ rreq' = [rreq EXCEPT ![c] = p]
      /\ UNCHANGED <<focus, rlog, rdone, rrows, rworker>>
  <2>1. /\ sversions' = W
        /\ rreq' = [rreq EXCEPT ![c].phase = "checked", ![c].batch = VersionSet(e, n)]
        /\ UNCHANGED <<focus, rlog, rdone, rrows, rworker>>
    BY <1>0, <1>2, <1>4, <1>5, <1>6 DEF StoreSecretMaterial
  <2>2. [rreq EXCEPT ![c].phase = "checked", ![c].batch = VersionSet(e, n)] = [rreq EXCEPT ![c] = p]
    BY <1>0, <1>1, <1>7
  <2> QED
    BY <2>1, <2>2, <1>6
<1>9. Cardinality(sversions) \in Nat /\ VersionsOK(sversions)
  BY FS_CardinalityType DEF ResourceInv, VersionsOK
<1>10. e.attr \in Values /\ b \in Nat
  <2>1. CASE e \in ResourceEvent /\ Existing(rlog, sversions, e, q.seq, "numbered")
    BY <2>1, <1>4, <1>5, <1>9 DEF Existing, ResourceEvent
  <2>2. CASE \E v \in Values : e = Ev("bundle", "created", 0, SecretEnv, 0, v)
    BY <2>2, <1>4, <1>5, <1>9 DEF Ev
  <2> QED
    BY <2>1, <2>2, <1>3
<1>11. n \in Nat \ {0} /\ VersionsOK(W) /\ Stored(W, b, n, e.attr)
  BY <1>4, <1>6, <1>9, <1>10, NewVersionOK
<1>12. p.phase = "checked" /\ p.batch = VersionSet(e, n) /\ p.seq = q.seq
  BY <1>1, <1>7 DEF ResourceRequest
<1>13. VersionSet(e, n) \in Seq(ResourceEvent) /\ Pending(rlog, W, p)
  <2>1. CASE e \in ResourceEvent /\ Existing(rlog, sversions, e, q.seq, "numbered")
    <3>1. PICK f : f = [e EXCEPT !.ref = n]
      OBVIOUS
    <3>2. /\ f \in ResourceEvent /\ f.table = e.table /\ f.kind = e.kind /\ f.id = e.id /\ f.key = e.key
          /\ f.attr = e.attr /\ f.ref = n /\ n \in Int
      BY <2>1, <3>1, <1>11 DEF ResourceEvent
    <3>3. e.kind # "created" /\ e.table = "bundle"
      BY <2>1 DEF Existing
    <3>4. VersionSet(e, n) = <<f>>
      BY <3>1, <3>3 DEF VersionSet
    <3>5. ParentTable(f) = "none" /\ b = e.id
      BY <3>2, <3>3, <1>5 DEF ParentTable
    <3>6. Existing(rlog, W, f, p.seq, "checked")
      BY <2>1, <3>2, <3>3, <3>5, <1>11, <1>12 DEF Existing, ParentBorn
    <3> QED
      BY <3>2, <3>4, <3>6, <1>12 DEF Pending
  <2>2. CASE \E v \in Values : e = Ev("bundle", "created", 0, SecretEnv, 0, v) /\ q.seq = 1
    <3>1. PICK v \in Values : e = Ev("bundle", "created", 0, SecretEnv, 0, v) /\ q.seq = 1
      BY <2>2
    <3>2. e.kind = "created" /\ e.attr = v /\ e.key = SecretEnv
      BY <3>1 DEF Ev
    <3>3. b = n /\ Stored(W, n, n, v)
      BY <3>2, <1>5, <1>11
    <3>4. Pending(rlog, W, p)
      BY <3>1, <3>3, <1>11, <1>12 DEF Pending
    <3>5. /\ Ev("bundle", "created", n, e.key, 0, None) \in ResourceEvent
          /\ Ev("bundle", "updated", n, e.key, n, e.attr) \in ResourceEvent
      BY <3>2, <1>11, SecretEnvIsKey DEF Ev, ResourceEvent, Tables
    <3>6. VersionSet(e, n) \in Seq(ResourceEvent)
      BY <3>2, <3>5 DEF VersionSet
    <3> QED
      BY <3>4, <3>6
  <2> QED
    BY <2>1, <2>2, <1>3
<1>14. p \in ResourceRequest
  BY <1>1, <1>7, <1>13 DEF ResourceRequest
<1>15. RequestOK(rlog, sversions', p)
  BY <1>8, <1>12, <1>13 DEF RequestOK
<1> QED
  BY <1>8, <1>11, <1>14, <1>15, OneRequestMoves

\* A request ends.
LEMMA RequestEnds ==
    ASSUME ResourceInv, NEW c \in Handlers, rreq' = [rreq EXCEPT ![c] = NoRequest],
           UNCHANGED <<focus, rlog, rdone, rrows, rworker, sversions>>
    PROVE  ResourceInv'
<1>1. sversions \subseteq sversions' /\ VersionsOK(sversions')
  BY DEF ResourceInv
<1>2. NoRequest \in ResourceRequest /\ RequestOK(rlog, sversions', NoRequest)
  BY NoRequestOK
<1> QED
  BY <1>1, <1>2, OneRequestMoves

\* The handlers of secrets.
LEMMA SecretPreserves ==
    ASSUME ResourceInv, NEW c \in Handlers, SecretNext(c)
    PROVE  ResourceInv'
<1>1. MaterialRefused(c) => ResourceInv'
  BY RequestEnds DEF MaterialRefused
<1> QED
  BY <1>1, LoadBundlePreserves, NumberBundlePreserves, StorePreserves DEF SecretNext

----------------------------------------------------------------------------
(* The append.                                                                *)

NamedEvent(e, n) == [e EXCEPT !.id = Named(@, n), !.ref = Named(@, n)]

\* The names of aggregates in a log are positions of it, but for bundles.
LEMMA NamesArePositions ==
    ASSUME NEW L, NEW V, LogOK(L, V), NEW i \in 1 .. Len(L), L[i].table # "bundle"
    PROVE  L[i].id <= i
<1>1. Len(L) \in Nat /\ EventOK(L, i, V)
  BY DEF LogOK
<1>2. CASE L[i].kind = "created"
  BY <1>1, <1>2 DEF EventOK
<1>3. CASE L[i].kind # "created"
  <2>1. PICK k \in 1 .. (i - 1) : L[k].table = L[i].table /\ L[k].id = L[i].id /\ L[k].kind = "created"
    BY <1>1, <1>3 DEF EventOK, Born
  <2>2. k \in 1 .. Len(L)
    BY <1>1
  <2>3. EventOK(L, k, V)
    BY <2>2 DEF LogOK
  <2>4. L[k].id = k
    BY <2>1, <2>3 DEF EventOK
  <2> QED
    BY <1>1, <2>1, <2>4
<1> QED
  BY <1>2, <1>3

\* A fresh aggregate takes the name n - x of its batch position.
LEMMA NamedFacts ==
    ASSUME NEW e \in ResourceEvent, NEW n \in Nat
    PROVE  /\ NamedEvent(e, n) \in ResourceEvent
           /\ NamedEvent(e, n).table = e.table /\ NamedEvent(e, n).kind = e.kind
           /\ NamedEvent(e, n).key = e.key /\ NamedEvent(e, n).attr = e.attr
           /\ NamedEvent(e, n).id = Named(e.id, n) /\ NamedEvent(e, n).ref = Named(e.ref, n)
           /\ ParentTable(NamedEvent(e, n)) = ParentTable(e)
<1>1. e.id \in Int /\ e.ref \in Int
  BY DEF ResourceEvent
<1>2. Named(e.id, n) \in Int /\ Named(e.ref, n) \in Int
  BY <1>1 DEF Named
<1>3. PICK f : f = NamedEvent(e, n)
  OBVIOUS
<1>4. /\ f \in ResourceEvent /\ f.table = e.table /\ f.kind = e.kind /\ f.key = e.key /\ f.attr = e.attr
      /\ f.id = Named(e.id, n) /\ f.ref = Named(e.ref, n)
  BY <1>2, <1>3 DEF NamedEvent, ResourceEvent
<1>5. ParentTable(f) = ParentTable(e)
  BY <1>4 DEF ParentTable
<1> QED
  BY <1>3, <1>4, <1>5

\* The log after an append, and what is left to show of it.
LEMMA AppendedLog ==
    ASSUME ResourceInv, NEW c \in Handlers, NEW bound, AppendBatch(c, bound)
    PROVE  LET b == rreq[c].batch
               n == Len(rlog)
           IN  /\ rreq[c].phase = "checked" /\ b \in Seq(ResourceEvent) /\ n \in Nat
               /\ Pending(rlog, sversions, rreq[c])
               /\ Len(rlog') = n + Len(b)
               /\ \A i \in 1 .. n : rlog'[i] = rlog[i]
               /\ \A i \in 1 .. Len(b) : rlog'[n + i] = NamedEvent(b[i], n)
               /\ rlog' \in Seq(ResourceEvent)
               /\ b[1].id > 0 => rreq[c].seq = Cardinality(Agg(rlog, n, b[1].table, b[1].id)) + 1
<1>1. PICK b : b = rreq[c].batch
  OBVIOUS
<1>2. PICK n : n = Len(rlog)
  OBVIOUS
<1>3. /\ b \in Seq(ResourceEvent) /\ n \in Nat /\ rlog \in Seq(Logged) /\ rlog \in Seq(ResourceEvent)
      /\ rreq[c].phase = "checked" /\ Pending(rlog, sversions, rreq[c])
  <2>1. rlog \in Seq(Logged) /\ rreq[c] \in ResourceRequest /\ RequestOK(rlog, sversions, rreq[c])
    BY DEF ResourceInv, LogOK
  <2>2. rreq[c].phase = "checked"
    BY DEF AppendBatch
  <2>3. Logged \subseteq ResourceEvent
    BY DEF Logged
  <2>4. rlog \in Seq(ResourceEvent)
    BY <2>1, <2>3
  <2> QED
    BY <1>1, <1>2, <2>1, <2>2, <2>4 DEF ResourceRequest, RequestOK
<1>4. PICK d : d = [i \in 1 .. Len(b) |-> NamedEvent(b[i], n)]
  OBVIOUS
<1>5. rlog' = rlog \o d
  BY <1>1, <1>2, <1>4 DEF AppendBatch, NamedEvent
<1>6. Len(b) \in Nat /\ \A i \in 1 .. Len(b) : b[i] \in ResourceEvent
  BY <1>3
<1>7. \A i \in 1 .. Len(b) : NamedEvent(b[i], n) \in ResourceEvent
  BY <1>3, <1>6, NamedFacts
<1>8. d \in Seq(ResourceEvent) /\ Len(d) = Len(b)
  BY <1>4, <1>6, <1>7
<1>9. /\ Len(rlog') = n + Len(b) /\ rlog' \in Seq(ResourceEvent)
      /\ \A i \in 1 .. n : rlog'[i] = rlog[i]
  <2>1. rlog \o d \in Seq(ResourceEvent)
    BY <1>3, <1>8
  <2>2. Len(rlog \o d) = n + Len(b)
    BY <1>2, <1>3, <1>8
  <2>3. \A i \in 1 .. n : (rlog \o d)[i] = rlog[i]
    BY <1>2, <1>3, <1>8
  <2> QED
    BY <1>5, <2>1, <2>2, <2>3
<1>10. ASSUME NEW i \in 1 .. Len(b) PROVE rlog'[n + i] = NamedEvent(b[i], n)
  <2>1. n + i > n /\ n + i <= n + Len(b) /\ (n + i) - n = i
    BY <1>3, <1>6
  <2>2. rlog'[n + i] = d[(n + i) - n]
    BY <1>2, <1>3, <1>5, <1>8, <2>1
  <2> QED
    BY <1>4, <2>1, <2>2
<1>11. b[1].id > 0 => rreq[c].seq = Cardinality(Agg(rlog, n, b[1].table, b[1].id)) + 1
  BY <1>1, <1>2 DEF AppendBatch, LogSeq, Agg
<1> QED
  BY <1>1, <1>2, <1>3, <1>9, <1>10, <1>11

\* It is enough that the new events fit.
LEMMA AppendOK ==
    ASSUME ResourceInv, NEW c \in Handlers, NEW bound, AppendBatch(c, bound), UNCHANGED sversions,
           NEW q, rreq' = [rreq EXCEPT ![c] = q], q \in ResourceRequest, q.phase = "waiting",
           Awaited(rlog', q), Continues(rlog, rlog'),
           \A i \in (Len(rlog) + 1) .. Len(rlog') :
              EventOK(rlog', i, sversions) /\ ~(rlog'[i].table = "env" /\ rlog'[i].kind = "created")
    PROVE  ResourceInv'
<1>0. sversions' = sversions
  OBVIOUS
<1>1. LogOK(rlog', sversions)
  BY LogContinued DEF ResourceInv
<1>2. RowsOK(rrows, rlog', rdone)
  BY RowsStayOK DEF ResourceInv
<1>3. rreq' \in [Handlers -> ResourceRequest]
  BY DEF ResourceInv
<1>4. ASSUME NEW d \in Handlers PROVE RequestOK(rlog', sversions, rreq'[d])
  <2>1. CASE d = c
    <3>1. rreq'[d] = q
      BY <2>1 DEF ResourceInv
    <3> QED
      BY <3>1 DEF RequestOK
  <2>2. CASE d # c
    <3>1. rreq'[d] = rreq[d] /\ rreq[d] \in ResourceRequest /\ RequestOK(rlog, sversions, rreq[d])
      BY <2>2 DEF ResourceInv
    <3> QED
      BY <1>1, <3>1, RequestStaysOK
  <2> QED
    BY <2>1, <2>2
<1>5. focus' \in Families /\ rworker' \in {"running", "failed"} /\ rrows' = rrows /\ rdone' = rdone
  BY DEF ResourceInv, AppendBatch
<1> QED
  BY <1>0, <1>1, <1>2, <1>3, <1>4, <1>5 DEF ResourceInv

\* A new aggregate at position k + 1 of a log: the position is a free name.
LEMMA CreatedFits ==
    ASSUME NEW M, NEW V, NEW k \in Nat, M[k + 1] \in ResourceEvent, M[k + 1].kind = "created",
           M[k + 1].id = k + 1, M[k + 1].table \notin {"bundle", "env"}, M[k + 1].ref >= 0,
           ParentBorn(M, k, M[k + 1]),
           \A i \in 1 .. k : M[i].table # "bundle" => M[i].id # k + 1
    PROVE  M[k + 1] \in Logged /\ EventOK(M, k + 1, V)
<1>1. PICK e : e = M[k + 1]
  OBVIOUS
<1>2. "created" \in Kinds(e.table)
  BY DEF Kinds
<1>3. e \in Logged
  BY <1>1, <1>2 DEF Logged
<1>4. (k + 1) - 1 = k
  OBVIOUS
<1>5. Agg(M, k, e.table, e.id) = {} /\ ~Gone(M, k, e.table, e.id)
  BY <1>1 DEF Agg, Gone
<1>6. EventOK(M, k + 1, V)
  BY <1>1, <1>4, <1>5 DEF EventOK
<1> QED
  BY <1>1, <1>3, <1>6

\* The part of the log that was there before an append.
LEMMA OldPrefix ==
    ASSUME NEW L, NEW M, NEW V, LogOK(L, V), \A i \in 1 .. Len(L) : M[i] = L[i]
    PROVE  /\ \A i \in 1 .. Len(L) : M[i].table # "bundle" => M[i].id \in 1 .. Len(L)
           /\ \A t, a : /\ Agg(M, Len(L), t, a) = Agg(L, Len(L), t, a)
                        /\ Born(M, Len(L), t, a) <=> Born(L, Len(L), t, a)
                        /\ Gone(M, Len(L), t, a) <=> Gone(L, Len(L), t, a)
<1>1. PICK n \in Nat : n = Len(L)
  BY DEF LogOK
<1>2. ASSUME NEW i \in 1 .. n, M[i].table # "bundle" PROVE M[i].id \in 1 .. n
  <2>1. M[i] = L[i] /\ L[i] \in Logged
    BY <1>1 DEF LogOK
  <2>2. L[i].id \in Int /\ L[i].id >= 1
    BY <2>1 DEF Logged, ResourceEvent
  <2>3. L[i].id <= i
    BY <1>1, <1>2, <2>1, NamesArePositions
  <2> QED
    BY <2>1, <2>2, <2>3
<1>3. \A t, a : /\ Agg(M, n, t, a) = Agg(L, n, t, a)
                /\ Born(M, n, t, a) <=> Born(L, n, t, a)
                /\ Gone(M, n, t, a) <=> Gone(L, n, t, a)
  BY <1>1, SamePrefix
<1> QED
  BY <1>1, <1>2, <1>3

\* A log that goes on by one event that fits is a log again.
LEMMA OneEventMore ==
    ASSUME NEW L, NEW M, NEW V, LogOK(L, V), M \in Seq(ResourceEvent), Len(M) = Len(L) + 1,
           \A i \in 1 .. Len(L) : M[i] = L[i], M[Len(L) + 1] \in Logged, EventOK(M, Len(L) + 1, V)
    PROVE  Continues(L, M) /\ LogOK(M, V)
<1>1. PICK n \in Nat : n = Len(L)
  BY DEF LogOK
<1>2. ASSUME NEW i \in 1 .. Len(M) PROVE M[i] \in Logged
  <2>1. CASE i \in 1 .. n
    BY <1>1, <2>1 DEF LogOK
  <2>2. CASE i = n + 1
    BY <1>1, <2>2
  <2> QED
    BY <1>1, <2>1, <2>2
<1>3. M \in Seq(Logged)
  BY <1>2
<1>4. Continues(L, M)
  BY <1>1, <1>3 DEF Continues, LogOK
<1>5. \A i \in (Len(L) + 1) .. Len(M) : EventOK(M, i, V)
  BY <1>1
<1> QED
  BY <1>4, <1>5, LogContinued

\* One event is appended.
LEMMA AppendOne ==
    ASSUME ResourceInv, NEW c \in Handlers, NEW bound, AppendBatch(c, bound), UNCHANGED sversions,
           NEW e \in ResourceEvent, rreq[c].batch = <<e>>,
           NamedEvent(e, Len(rlog)) \in Logged, EventOK(rlog', Len(rlog) + 1, sversions),
           e.table \notin {"org", "restore", "env"} \/ (e.table = "org" /\ e.kind = "updated"),
           e.table = "bundle" => e.kind = "updated"
    PROVE  ResourceInv'
<1>1. PICK n : n = Len(rlog)
  OBVIOUS
<1>2. /\ n \in Nat /\ Len(rlog') = n + Len(<<e>>) /\ \A i \in 1 .. n : rlog'[i] = rlog[i]
      /\ \A i \in 1 .. Len(<<e>>) : rlog'[n + i] = NamedEvent((<<e>>)[i], n)
      /\ rlog' \in Seq(ResourceEvent) /\ rreq[c] \in ResourceRequest
  BY <1>1, AppendedLog DEF ResourceInv
<1>3. Len(rlog') = n + 1 /\ rlog'[n + 1] = NamedEvent(e, n)
  BY <1>2
<1>4. Continues(rlog, rlog')
  BY <1>1, <1>2, <1>3, OneEventMore DEF ResourceInv
<1>5. PICK q : q = [phase |-> "waiting", batch |-> <<>>, seq |-> 0, upto |-> n + WaitIndex(<<e>>),
                    shown |-> n + ShownIndex(<<e>>)]
  OBVIOUS
<1>6. WaitIndex(<<e>>) = 1 /\ ShownIndex(<<e>>) = 1
  BY DEF WaitIndex, ShownIndex
<1>7. rreq' = [rreq EXCEPT ![c] = q]
  BY <1>1, <1>5 DEF AppendBatch
<1>8. q \in ResourceRequest /\ q.phase = "waiting" /\ q.upto = n + 1 /\ q.shown = n + 1
  BY <1>2, <1>5, <1>6 DEF ResourceRequest
<1>9. rlog'[n + 1].table = e.table /\ rlog'[n + 1].kind = e.kind
  BY <1>2, <1>3, NamedFacts
<1>10. Awaited(rlog', q)
  BY <1>2, <1>3, <1>8, <1>9 DEF Awaited
<1>11. \A i \in (Len(rlog) + 1) .. Len(rlog') :
          EventOK(rlog', i, sversions) /\ ~(rlog'[i].table = "env" /\ rlog'[i].kind = "created")
  BY <1>1, <1>2, <1>3, <1>9
<1> QED
  BY <1>4, <1>7, <1>8, <1>10, <1>11, AppendOK

\* The event of a new aggregate is appended.
LEMMA AppendFresh ==
    ASSUME ResourceInv, NEW c \in Handlers, NEW bound, AppendBatch(c, bound), UNCHANGED sversions,
           NEW e \in ResourceEvent, rreq[c].batch = <<e>>, Fresh(rlog, e)
    PROVE  ResourceInv'
<1>1. PICK n : n = Len(rlog)
  OBVIOUS
<1>2. /\ n \in Nat /\ Len(rlog') = n + Len(<<e>>) /\ \A i \in 1 .. n : rlog'[i] = rlog[i]
      /\ \A i \in 1 .. Len(<<e>>) : rlog'[n + i] = NamedEvent((<<e>>)[i], n)
  BY <1>1, AppendedLog
<1>3. Len(rlog') = n + 1 /\ rlog'[n + 1] = NamedEvent(e, n)
  BY <1>2
<1>4. PICK f : f = NamedEvent(e, n)
  OBVIOUS
<1>5. /\ f \in ResourceEvent /\ f.table = e.table /\ f.kind = e.kind /\ f.id = Named(e.id, n)
      /\ f.ref = Named(e.ref, n) /\ ParentTable(f) = ParentTable(e)
  BY <1>2, <1>4, NamedFacts
<1>6. f.id = n + 1 /\ f.ref = e.ref /\ f.kind = "created" /\ f.ref >= 0
  BY <1>2, <1>5 DEF Fresh, Named, ResourceEvent
<1>7. ParentBorn(rlog, n, f)
  BY <1>1, <1>5, <1>6 DEF Fresh, ParentBorn
<1>8. f \in Logged /\ EventOK(rlog', n + 1, sversions)
  <2>1. LogOK(rlog, sversions)
    BY DEF ResourceInv
  <2>2. /\ \A i \in 1 .. n : rlog'[i].table # "bundle" => rlog'[i].id \in 1 .. n
        /\ \A t, a : Born(rlog', n, t, a) <=> Born(rlog, n, t, a)
    BY <1>1, <1>2, <2>1, OldPrefix
  <2>3. f.table \notin {"bundle", "env"} /\ rlog'[n + 1] = f /\ ParentBorn(rlog', n, f)
    BY <1>3, <1>4, <1>5, <1>7, <2>2 DEF Fresh, ParentBorn
  <2>4. \A i \in 1 .. n : rlog'[i].table # "bundle" => rlog'[i].id # n + 1
    BY <1>2, <2>2
  <2> QED
    BY <1>2, <1>5, <1>6, <2>3, <2>4, CreatedFits
<1> QED
  BY <1>1, <1>4, <1>8, AppendOne DEF Fresh

\* The next event of an aggregate is appended.
LEMMA AppendExisting ==
    ASSUME ResourceInv, NEW c \in Handlers, NEW bound, AppendBatch(c, bound), UNCHANGED sversions,
           NEW e \in ResourceEvent, rreq[c].batch = <<e>>, Existing(rlog, sversions, e, rreq[c].seq, "checked")
    PROVE  ResourceInv'
<1>1. PICK n : n = Len(rlog)
  OBVIOUS
<1>2. /\ n \in Nat /\ Len(rlog') = n + Len(<<e>>) /\ \A i \in 1 .. n : rlog'[i] = rlog[i]
      /\ \A i \in 1 .. Len(<<e>>) : rlog'[n + i] = NamedEvent((<<e>>)[i], n)
      /\ (<<e>>)[1].id > 0 => rreq[c].seq = Cardinality(Agg(rlog, n, (<<e>>)[1].table, (<<e>>)[1].id)) + 1
  BY <1>1, AppendedLog
<1>3. Len(rlog') = n + 1 /\ rlog'[n + 1] = NamedEvent(e, n)
  BY <1>2
<1>4. PICK f : f = NamedEvent(e, n)
  OBVIOUS
<1>5. /\ f \in ResourceEvent /\ f.table = e.table /\ f.kind = e.kind /\ f.id = Named(e.id, n)
      /\ f.key = e.key /\ f.attr = e.attr
      /\ f.ref = Named(e.ref, n) /\ ParentTable(f) = ParentTable(e)
  BY <1>2, <1>4, NamedFacts
<1>6. e.id \in Int /\ e.ref \in Int /\ e.id >= 1 /\ e.ref >= 0
  BY DEF Existing, ResourceEvent
<1>7. f.id = e.id /\ f.ref = e.ref
  BY <1>2, <1>5, <1>6 DEF Named
<1>8. f \in Logged
  BY <1>5, <1>6, <1>7 DEF Existing, Logged
<1>9. rreq[c].seq = Cardinality(Agg(rlog, n, e.table, e.id)) + 1
  BY <1>2, <1>6
<1>10. /\ Born(rlog, n, f.table, f.id) /\ (f.kind # "deleted" => ~Gone(rlog, n, f.table, f.id))
       /\ ParentBorn(rlog, n, f)
       /\ f.table = "bundle" => f.ref # 0 /\ Stored(sversions, f.id, f.ref, f.attr)
       /\ f.table = "member" => \A j \in Agg(rlog, n, "member", f.id) : rlog[j].key = f.key /\ rlog[j].ref = f.ref
  BY <1>1, <1>5, <1>7, <1>9 DEF Existing, ParentBorn
<1>11. \A t, a : /\ Agg(rlog', n, t, a) = Agg(rlog, n, t, a)
                 /\ Born(rlog', n, t, a) <=> Born(rlog, n, t, a)
                 /\ Gone(rlog', n, t, a) <=> Gone(rlog, n, t, a)
  BY <1>2, SamePrefix
<1>12. (n + 1) - 1 = n
  BY <1>2
<1>13. \A j \in Agg(rlog, n, "member", f.id) : rlog'[j] = rlog[j]
  BY <1>2 DEF Agg
<1>14. f.kind # "created" /\ f.table # "env"
  BY <1>5 DEF Existing
<1>15. ParentBorn(rlog', n, f)
  BY <1>10, <1>11 DEF ParentBorn
<1>16. EventOK(rlog', n + 1, sversions)
  BY <1>3, <1>4, <1>10, <1>11, <1>12, <1>13, <1>14, <1>15 DEF EventOK
<1>17. /\ e.table \notin {"org", "restore", "env"} \/ (e.table = "org" /\ e.kind = "updated")
       /\ e.table = "bundle" => e.kind = "updated"
  BY DEF Existing, Kinds
<1> QED
  BY <1>1, <1>4, <1>8, <1>16, <1>17, AppendOne

\* A batch is appended: the log goes on, and the handler waits for what it shows.
LEMMA AppendMany ==
    ASSUME ResourceInv, NEW c \in Handlers, NEW bound, AppendBatch(c, bound), UNCHANGED sversions,
           NEW b, rreq[c].batch = b, NEW w \in Nat, NEW x \in 1 .. w, WaitIndex(b) = w,
           ShownIndex(b) = x, w <= Len(b),
           \A i \in 1 .. Len(b) : /\ rlog'[Len(rlog) + i] \in Logged
                                  /\ EventOK(rlog', Len(rlog) + i, sversions)
                                  /\ rlog'[Len(rlog) + i].table # "env",
           rlog'[Len(rlog) + x].table # "restore",
           rlog'[Len(rlog) + x].table = "bundle" => rlog'[Len(rlog) + x].kind = "updated",
           rlog'[Len(rlog) + x].table = "org" =>
              /\ rlog'[Len(rlog) + w].table = "member" /\ rlog'[Len(rlog) + w].kind = "created"
              /\ rlog'[Len(rlog) + w].ref = rlog'[Len(rlog) + x].id
    PROVE  ResourceInv'
<1>1. PICK n : n = Len(rlog)
  OBVIOUS
<1>2. /\ n \in Nat /\ b \in Seq(ResourceEvent) /\ Len(rlog') = n + Len(b)
      /\ \A i \in 1 .. n : rlog'[i] = rlog[i] /\ rlog' \in Seq(ResourceEvent)
  BY <1>1, AppendedLog
<1>3. Len(b) \in Nat
  BY <1>2
<1>4. ASSUME NEW i \in (n + 1) .. (n + Len(b))
      PROVE  /\ rlog'[i] \in Logged /\ EventOK(rlog', i, sversions) /\ rlog'[i].table # "env"
  <2>1. PICK k \in 1 .. Len(b) : i = n + k
    <3>1. i - n \in 1 .. Len(b) /\ i = n + (i - n)
      BY <1>2, <1>3
    <3> QED
      BY <3>1
  <2> QED
    BY <1>1, <2>1
<1>5. Continues(rlog, rlog')
  <2>1. rlog \in Seq(Logged) /\ rlog' \in Seq(ResourceEvent)
    BY AppendedLog DEF ResourceInv, LogOK
  <2>2. ASSUME NEW i \in 1 .. Len(rlog') PROVE rlog'[i] \in Logged
    <3>1. CASE i \in 1 .. n
      BY <1>1, <1>2, <2>1, <3>1
    <3>2. CASE i \in (n + 1) .. (n + Len(b))
      BY <1>4, <3>2
    <3> QED
      BY <1>2, <1>3, <3>1, <3>2
  <2>3. rlog' \in Seq(Logged)
    <3>1. PICK M : M = rlog'
      OBVIOUS
    <3>2. M \in Seq(ResourceEvent) /\ \A i \in 1 .. Len(M) : M[i] \in Logged
      BY <2>1, <2>2, <3>1
    <3>3. M \in Seq(Logged)
      BY <3>2
    <3> QED
      BY <3>1, <3>3
  <2> QED
    BY <1>1, <1>2, <1>3, <2>1, <2>3 DEF Continues
<1>6. PICK q : q = [phase |-> "waiting", batch |-> <<>>, seq |-> 0, upto |-> n + w, shown |-> n + x]
  OBVIOUS
<1>7. rreq' = [rreq EXCEPT ![c] = q]
  BY <1>1, <1>6 DEF AppendBatch
<1>8. q \in ResourceRequest /\ q.phase = "waiting" /\ q.upto = n + w /\ q.shown = n + x
  BY <1>2, <1>6 DEF ResourceRequest
<1>9. n + x \in (n + 1) .. (n + Len(b)) /\ n + x \in 1 .. (n + w) /\ n + w <= Len(rlog')
  BY <1>2, <1>3
<1>10. Awaited(rlog', q)
  BY <1>1, <1>4, <1>8, <1>9 DEF Awaited
<1>11. \A i \in (Len(rlog) + 1) .. Len(rlog') :
          EventOK(rlog', i, sversions) /\ ~(rlog'[i].table = "env" /\ rlog'[i].kind = "created")
  BY <1>1, <1>2, <1>4
<1> QED
  BY <1>5, <1>7, <1>8, <1>10, <1>11, AppendOK

\* An organization is appended with its owner.
LEMMA AppendOrg ==
    ASSUME ResourceInv, NEW c \in Handlers, NEW bound, AppendBatch(c, bound), UNCHANGED sversions,
           NEW k \in Keys, rreq[c].batch = OrgWithOwner(k)
    PROVE  ResourceInv'
<1>1. PICK n : n = Len(rlog)
  OBVIOUS
<1>2. PICK b : b = OrgWithOwner(k)
  OBVIOUS
<1>3. PICK e : e = Ev("org", "created", -1, None, 0, None)
  OBVIOUS
<1>4. PICK f : f = Ev("member", "created", -2, k, -1, "owner")
  OBVIOUS
<1>5. /\ e \in ResourceEvent /\ e.table = "org" /\ e.kind = "created" /\ e.id = -1 /\ e.ref = 0
      /\ f \in ResourceEvent /\ f.table = "member" /\ f.kind = "created" /\ f.id = -2 /\ f.ref = -1
  BY <1>3, <1>4 DEF Ev, ResourceEvent, Tables, Roles
<1>6. Len(b) = 2 /\ b[1] = e /\ b[2] = f
  BY <1>2, <1>3, <1>4 DEF OrgWithOwner
<1>7. /\ n \in Nat /\ \A i \in 1 .. n : rlog'[i] = rlog[i]
      /\ \A i \in 1 .. Len(b) : rlog'[n + i] = NamedEvent(b[i], n)
  BY <1>1, <1>2, AppendedLog
<1>8. PICK M : M = rlog'
  OBVIOUS
<1>9. /\ M[n + 1] \in ResourceEvent /\ M[n + 1].table = "org" /\ M[n + 1].kind = "created"
      /\ M[n + 1].id = n + 1 /\ M[n + 1].ref = 0
  <2>1. M[n + 1] = NamedEvent(e, n)
    BY <1>6, <1>7, <1>8
  <2>2. Named(e.id, n) = n + 1 /\ Named(e.ref, n) = 0
    BY <1>5, <1>7 DEF Named
  <2>3. /\ NamedEvent(e, n) \in ResourceEvent
        /\ NamedEvent(e, n).table = e.table /\ NamedEvent(e, n).kind = e.kind
        /\ NamedEvent(e, n).attr = e.attr
        /\ NamedEvent(e, n).id = Named(e.id, n) /\ NamedEvent(e, n).ref = Named(e.ref, n)
    BY <1>5, <1>7, NamedFacts
  <2> QED
    BY <1>5, <1>7, <2>1, <2>2, <2>3
<1>10. /\ M[n + 2] \in ResourceEvent /\ M[n + 2].table = "member" /\ M[n + 2].kind = "created"
       /\ M[n + 2].id = n + 2 /\ M[n + 2].ref = n + 1
  <2>1. M[n + 2] = NamedEvent(f, n)
    BY <1>6, <1>7, <1>8
  <2>2. Named(f.id, n) = n + 2 /\ Named(f.ref, n) = n + 1
    BY <1>5, <1>7 DEF Named
  <2>3. /\ NamedEvent(f, n) \in ResourceEvent
        /\ NamedEvent(f, n).table = f.table /\ NamedEvent(f, n).kind = f.kind
        /\ NamedEvent(f, n).attr = f.attr
        /\ NamedEvent(f, n).id = Named(f.id, n) /\ NamedEvent(f, n).ref = Named(f.ref, n)
    BY <1>5, <1>7, NamedFacts
  <2> QED
    BY <1>5, <1>7, <2>1, <2>2, <2>3
<1>11. \A i \in 1 .. n : M[i].table # "bundle" => M[i].id \in 1 .. n
  BY <1>1, <1>7, <1>8, OldPrefix DEF ResourceInv
<1>12. M[n + 1] \in Logged /\ EventOK(M, n + 1, sversions)
  <2>1. ParentBorn(M, n, M[n + 1])
    BY <1>9 DEF ParentBorn, ParentTable
  <2>2. \A i \in 1 .. n : M[i].table # "bundle" => M[i].id # n + 1
    BY <1>7, <1>11
  <2>3. M[n + 1].table \notin {"bundle", "env"} /\ M[n + 1].ref >= 0
    BY <1>9
  <2> QED
    BY <1>7, <1>9, <2>1, <2>2, <2>3, CreatedFits
<1>13. M[n + 2] \in Logged /\ EventOK(M, n + 2, sversions)
  <2>1. n + 1 \in Nat /\ (n + 1) + 1 = n + 2
    BY <1>7
  <2>2. ParentTable(M[n + 2]) = "org" /\ Born(M, n + 1, "org", n + 1)
    <3>1. ParentTable(M[n + 2]) = "org"
      BY <1>10 DEF ParentTable
    <3>2. n + 1 \in 1 .. (n + 1)
      BY <1>7
    <3> QED
      BY <1>9, <3>1, <3>2 DEF Born
  <2>3. ParentBorn(M, n + 1, M[n + 2])
    BY <1>10, <2>2 DEF ParentBorn
  <2>4. \A i \in 1 .. (n + 1) : M[i].table # "bundle" => M[i].id # n + 2
    BY <1>7, <1>9, <1>11
  <2> QED
    BY <1>10, <2>1, <2>3, <2>4, CreatedFits
<1>14. WaitIndex(b) = 2 /\ ShownIndex(b) = 1
  BY <1>5, <1>6 DEF WaitIndex, ShownIndex
<1>15. \A i \in 1 .. Len(b) : /\ M[n + i] \in Logged /\ EventOK(M, n + i, sversions)
                              /\ M[n + i].table # "env"
  BY <1>6, <1>9, <1>10, <1>12, <1>13
<1>16. /\ rlog'[n + 1].table = "org" /\ rlog'[n + 2].table = "member" /\ rlog'[n + 2].kind = "created"
       /\ rlog'[n + 2].ref = rlog'[n + 1].id
       /\ \A i \in 1 .. Len(b) : /\ rlog'[n + i] \in Logged /\ EventOK(rlog', n + i, sversions)
                                 /\ rlog'[n + i].table # "env"
  BY <1>8, <1>9, <1>10, <1>15
<1>17. 2 \in Nat /\ 1 \in 1 .. 2 /\ 2 <= Len(b)
  BY <1>6
<1> QED
  BY <1>1, <1>2, <1>14, <1>16, <1>17, AppendMany

\* A restore is appended with the volume it makes.
LEMMA AppendRestore ==
    ASSUME ResourceInv, NEW c \in Handlers, NEW bound, AppendBatch(c, bound), UNCHANGED sversions,
           NEW s \in ResourceRow, Born(rlog, Len(rlog), "snapshot", s.id),
           rreq[c].batch = RestoreBatch(s)
    PROVE  ResourceInv'
<1>1. PICK n : n = Len(rlog)
  OBVIOUS
<1>2. PICK b : b = RestoreBatch(s)
  OBVIOUS
<1>3. PICK e : e = Ev("restore", "created", -1, None, s.id, "queued")
  OBVIOUS
<1>4. PICK f : f = Ev("volume", "created", -2, None, 0, None)
  OBVIOUS
<1>5. PICK g : g = Ev("restore", "updated", -1, None, -2, "succeeded")
  OBVIOUS
<1>6. /\ e \in ResourceEvent /\ e.table = "restore" /\ e.kind = "created" /\ e.id = -1 /\ e.ref = s.id
      /\ e.attr = "queued"
      /\ f \in ResourceEvent /\ f.table = "volume" /\ f.kind = "created" /\ f.id = -2 /\ f.ref = 0
      /\ g \in ResourceEvent /\ g.table = "restore" /\ g.kind = "updated" /\ g.id = -1 /\ g.ref = -2
      /\ g.attr = "succeeded"
  <2>1. s.id \in Int
    BY DEF ResourceRow
  <2> QED
    BY <1>3, <1>4, <1>5, <2>1 DEF Ev, ResourceEvent, Tables
<1>7. Len(b) = 3 /\ b[1] = e /\ b[2] = f /\ b[3] = g
  BY <1>2, <1>3, <1>4, <1>5 DEF RestoreBatch
<1>8. /\ n \in Nat /\ \A i \in 1 .. n : rlog'[i] = rlog[i]
      /\ \A i \in 1 .. Len(b) : rlog'[n + i] = NamedEvent(b[i], n)
  BY <1>1, <1>2, AppendedLog
<1>9. PICK M : M = rlog'
  OBVIOUS
<1>10. /\ M[n + 1] \in ResourceEvent /\ M[n + 1].table = "restore" /\ M[n + 1].kind = "created"
       /\ M[n + 1].id = n + 1 /\ M[n + 1].ref = s.id /\ M[n + 1].attr = "queued" /\ s.id >= 0
  <2>1. M[n + 1] = NamedEvent(e, n)
    BY <1>7, <1>8, <1>9
  <2>2. Named(e.id, n) = n + 1 /\ Named(e.ref, n) = s.id /\ s.id >= 0
    BY <1>6, <1>8 DEF Named, ResourceRow
  <2>3. /\ NamedEvent(e, n) \in ResourceEvent
        /\ NamedEvent(e, n).table = e.table /\ NamedEvent(e, n).kind = e.kind
        /\ NamedEvent(e, n).attr = e.attr
        /\ NamedEvent(e, n).id = Named(e.id, n) /\ NamedEvent(e, n).ref = Named(e.ref, n)
    BY <1>6, <1>8, NamedFacts
  <2> QED
    BY <1>6, <1>8, <2>1, <2>2, <2>3
<1>11. /\ M[n + 2] \in ResourceEvent /\ M[n + 2].table = "volume" /\ M[n + 2].kind = "created"
       /\ M[n + 2].id = n + 2 /\ M[n + 2].ref = 0
  <2>1. M[n + 2] = NamedEvent(f, n)
    BY <1>7, <1>8, <1>9
  <2>2. Named(f.id, n) = n + 2 /\ Named(f.ref, n) = 0
    BY <1>6, <1>8 DEF Named
  <2>3. /\ NamedEvent(f, n) \in ResourceEvent
        /\ NamedEvent(f, n).table = f.table /\ NamedEvent(f, n).kind = f.kind
        /\ NamedEvent(f, n).attr = f.attr
        /\ NamedEvent(f, n).id = Named(f.id, n) /\ NamedEvent(f, n).ref = Named(f.ref, n)
    BY <1>6, <1>8, NamedFacts
  <2> QED
    BY <1>6, <1>8, <2>1, <2>2, <2>3
<1>12. /\ M[n + 3] \in ResourceEvent /\ M[n + 3].table = "restore" /\ M[n + 3].kind = "updated"
       /\ M[n + 3].id = n + 1 /\ M[n + 3].ref = n + 2 /\ M[n + 3].attr = "succeeded"
  <2>1. M[n + 3] = NamedEvent(g, n)
    BY <1>7, <1>8, <1>9
  <2>2. Named(g.id, n) = n + 1 /\ Named(g.ref, n) = n + 2
    BY <1>6, <1>8 DEF Named
  <2>3. /\ NamedEvent(g, n) \in ResourceEvent
        /\ NamedEvent(g, n).table = g.table /\ NamedEvent(g, n).kind = g.kind
        /\ NamedEvent(g, n).attr = g.attr
        /\ NamedEvent(g, n).id = Named(g.id, n) /\ NamedEvent(g, n).ref = Named(g.ref, n)
    BY <1>6, <1>8, NamedFacts
  <2> QED
    BY <1>6, <1>8, <2>1, <2>2, <2>3
<1>13. /\ \A i \in 1 .. n : M[i].table # "bundle" => M[i].id \in 1 .. n
       /\ Born(M, n, "snapshot", s.id)
  BY <1>1, <1>8, <1>9, OldPrefix DEF ResourceInv
<1>14. M[n + 1] \in Logged /\ EventOK(M, n + 1, sversions)
  <2>1. ParentTable(M[n + 1]) = "snapshot"
    BY <1>10 DEF ParentTable
  <2>2. ParentBorn(M, n, M[n + 1])
    BY <1>10, <1>13, <2>1 DEF ParentBorn
  <2>3. \A i \in 1 .. n : M[i].table # "bundle" => M[i].id # n + 1
    BY <1>8, <1>13
  <2> QED
    BY <1>8, <1>10, <2>2, <2>3, CreatedFits
<1>15. M[n + 2] \in Logged /\ EventOK(M, n + 2, sversions)
  <2>1. n + 1 \in Nat /\ (n + 1) + 1 = n + 2
    BY <1>8
  <2>2. ParentBorn(M, n + 1, M[n + 2])
    BY <1>11 DEF ParentBorn, ParentTable
  <2>3. \A i \in 1 .. (n + 1) : M[i].table # "bundle" => M[i].id # n + 2
    BY <1>8, <1>10, <1>13
  <2>4. PICK k \in Nat : k = n + 1
    BY <2>1
  <2>5. /\ k + 1 = n + 2 /\ M[k + 1] \in ResourceEvent /\ M[k + 1].kind = "created" /\ M[k + 1].id = k + 1
        /\ M[k + 1].table \notin {"bundle", "env"} /\ M[k + 1].ref >= 0 /\ ParentBorn(M, k, M[k + 1])
        /\ \A i \in 1 .. k : M[i].table # "bundle" => M[i].id # k + 1
    BY <1>11, <2>1, <2>2, <2>3, <2>4
  <2>6. M[k + 1] \in Logged /\ EventOK(M, k + 1, sversions)
    BY <2>5, CreatedFits
  <2> QED
    BY <2>5, <2>6
<1>16. M[n + 3] \in Logged /\ EventOK(M, n + 3, sversions)
  <2>1. "updated" \in Kinds("restore")
    BY DEF Kinds
  <2>2. M[n + 3] \in Logged
    BY <1>8, <1>12, <2>1 DEF Logged
  <2>3. /\ (n + 3) - 1 = n + 2 /\ n + 1 \in 1 .. (n + 2) /\ n + 2 \in 1 .. (n + 2)
    BY <1>8
  <2>4. Born(M, n + 2, "restore", n + 1) /\ Born(M, n + 2, "volume", n + 2)
    BY <1>10, <1>11, <2>3 DEF Born
  <2>5. ParentTable(M[n + 3]) = "volume"
    BY <1>12 DEF ParentTable
  <2>6. ParentBorn(M, n + 2, M[n + 3])
    BY <1>12, <2>4, <2>5 DEF ParentBorn
  <2>7. ASSUME NEW i \in 1 .. (n + 2), M[i].table = "restore", M[i].id = n + 1, M[i].kind = "deleted"
        PROVE  FALSE
    <3>1. i \notin 1 .. n
      BY <1>8, <1>13, <2>7
    <3>2. i = n + 1 \/ i = n + 2
      BY <1>8, <3>1
    <3> QED
      BY <1>10, <1>11, <2>7, <3>2
  <2>8. ~Gone(M, n + 2, "restore", n + 1)
    BY <2>7 DEF Gone
  <2>9. EventOK(M, n + 3, sversions)
    BY <1>12, <2>3, <2>4, <2>6, <2>8 DEF EventOK
  <2> QED
    BY <2>2, <2>9
<1>17. WaitIndex(b) = 2 /\ ShownIndex(b) = 2
  BY <1>6, <1>7 DEF WaitIndex, ShownIndex
<1>18. \A i \in 1 .. Len(b) : /\ M[n + i] \in Logged /\ EventOK(M, n + i, sversions)
                              /\ M[n + i].table # "env"
  BY <1>7, <1>10, <1>11, <1>12, <1>14, <1>15, <1>16
<1>19. /\ rlog'[n + 2].table = "volume"
       /\ \A i \in 1 .. Len(b) : /\ rlog'[n + i] \in Logged /\ EventOK(rlog', n + i, sversions)
                                 /\ rlog'[n + i].table # "env"
  BY <1>9, <1>11, <1>18
<1>20. 2 \in Nat /\ 2 \in 1 .. 2 /\ 2 <= Len(b)
  BY <1>7
<1> QED
  BY <1>1, <1>2, <1>17, <1>19, <1>20, AppendMany

\* A bundle is appended with its first version.
LEMMA AppendBundle ==
    ASSUME ResourceInv, NEW c \in Handlers, NEW bound, AppendBatch(c, bound), UNCHANGED sversions,
           NEW m \in Nat \ {0}, NEW v \in Values, Stored(sversions, m, m, v), rreq[c].seq = 1,
           rreq[c].batch = VersionSet(Ev("bundle", "created", 0, SecretEnv, 0, v), m)
    PROVE  ResourceInv'
<1>1. PICK n : n = Len(rlog)
  OBVIOUS
<1>2. PICK b : b = rreq[c].batch
  OBVIOUS
<1>3. PICK e : e = Ev("bundle", "created", m, SecretEnv, 0, None)
  OBVIOUS
<1>4. PICK f : f = Ev("bundle", "updated", m, SecretEnv, m, v)
  OBVIOUS
<1>5. /\ e \in ResourceEvent /\ e.table = "bundle" /\ e.kind = "created" /\ e.id = m /\ e.ref = 0
      /\ f \in ResourceEvent /\ f.table = "bundle" /\ f.kind = "updated" /\ f.id = m /\ f.ref = m
      /\ f.attr = v
  BY <1>3, <1>4, SecretEnvIsKey DEF Ev, ResourceEvent, Tables
<1>6. Len(b) = 2 /\ b[1] = e /\ b[2] = f
  <2>1. VersionSet(Ev("bundle", "created", 0, SecretEnv, 0, v), m) = <<e, f>>
    BY <1>3, <1>4 DEF VersionSet, Ev
  <2> QED
    BY <1>2, <2>1
<1>7. /\ n \in Nat /\ \A i \in 1 .. n : rlog'[i] = rlog[i]
      /\ \A i \in 1 .. Len(b) : rlog'[n + i] = NamedEvent(b[i], n)
      /\ b[1].id > 0 => 1 = Cardinality(Agg(rlog, n, b[1].table, b[1].id)) + 1
  BY <1>1, <1>2, AppendedLog
<1>8. PICK M : M = rlog'
  OBVIOUS
<1>9. /\ M[n + 1] \in ResourceEvent /\ M[n + 1].table = "bundle" /\ M[n + 1].kind = "created"
      /\ M[n + 1].id = m /\ M[n + 1].ref = 0
  <2>1. M[n + 1] = NamedEvent(e, n)
    BY <1>6, <1>7, <1>8
  <2>2. Named(e.id, n) = m /\ Named(e.ref, n) = 0
    BY <1>5, <1>7 DEF Named
  <2>3. /\ NamedEvent(e, n) \in ResourceEvent
        /\ NamedEvent(e, n).table = e.table /\ NamedEvent(e, n).kind = e.kind
        /\ NamedEvent(e, n).attr = e.attr
        /\ NamedEvent(e, n).id = Named(e.id, n) /\ NamedEvent(e, n).ref = Named(e.ref, n)
    BY <1>5, <1>7, NamedFacts
  <2> QED
    BY <1>5, <1>7, <2>1, <2>2, <2>3
<1>10. /\ M[n + 2] \in ResourceEvent /\ M[n + 2].table = "bundle" /\ M[n + 2].kind = "updated"
       /\ M[n + 2].id = m /\ M[n + 2].ref = m /\ M[n + 2].attr = v
  <2>1. M[n + 2] = NamedEvent(f, n)
    BY <1>6, <1>7, <1>8
  <2>2. Named(f.id, n) = m /\ Named(f.ref, n) = m
    BY <1>5, <1>7 DEF Named
  <2>3. /\ NamedEvent(f, n) \in ResourceEvent
        /\ NamedEvent(f, n).table = f.table /\ NamedEvent(f, n).kind = f.kind
        /\ NamedEvent(f, n).attr = f.attr
        /\ NamedEvent(f, n).id = Named(f.id, n) /\ NamedEvent(f, n).ref = Named(f.ref, n)
    BY <1>5, <1>7, NamedFacts
  <2> QED
    BY <1>5, <1>7, <2>1, <2>2, <2>3
<1>11. Agg(M, n, "bundle", m) = {}
  <2>0. \A i \in 1 .. n : M[i] = rlog[i]
    BY <1>7, <1>8
  <2>1. Agg(M, n, "bundle", m) = Agg(rlog, n, "bundle", m)
    BY <2>0 DEF Agg
  <2>2. IsFiniteSet(Agg(rlog, n, "bundle", m)) /\ Cardinality(Agg(rlog, n, "bundle", m)) \in Nat
    BY <1>7, AggFinite
  <2>3. Cardinality(Agg(rlog, n, "bundle", m)) = 0
    BY <1>5, <1>6, <1>7, <2>2
  <2>4. Agg(rlog, n, "bundle", m) = {}
    BY <2>2, <2>3, FS_EmptySet
  <2> QED
    BY <2>1, <2>4
<1>12. ~Gone(M, n, "bundle", m)
  BY <1>11 DEF Agg, Gone
<1>13. "created" \in Kinds("bundle") /\ "updated" \in Kinds("bundle")
  BY DEF Kinds
<1>14. M[n + 1] \in Logged /\ EventOK(M, n + 1, sversions)
  <2>1. (n + 1) - 1 = n
    BY <1>7
  <2>2. ParentBorn(M, n, M[n + 1])
    BY <1>9 DEF ParentBorn, ParentTable
  <2>3. M[n + 1] \in Logged
    BY <1>9, <1>13 DEF Logged
  <2> QED
    BY <1>9, <1>11, <1>12, <2>1, <2>2, <2>3 DEF EventOK
<1>15. M[n + 2] \in Logged /\ EventOK(M, n + 2, sversions)
  <2>1. (n + 2) - 1 = n + 1
    BY <1>7
  <2>2. ParentBorn(M, n + 1, M[n + 2])
    BY <1>10 DEF ParentBorn, ParentTable
  <2>3. M[n + 2] \in Logged
    BY <1>10, <1>13 DEF Logged
  <2>4. Born(M, n + 1, "bundle", m) /\ ~Gone(M, n + 1, "bundle", m)
    BY <1>7, <1>9, <1>12, OneMore
  <2> QED
    BY <1>10, <2>1, <2>2, <2>3, <2>4 DEF EventOK
<1>16. WaitIndex(b) = 2 /\ ShownIndex(b) = 2
  BY <1>5, <1>6 DEF WaitIndex, ShownIndex
<1>17. \A i \in 1 .. Len(b) : /\ M[n + i] \in Logged /\ EventOK(M, n + i, sversions)
                              /\ M[n + i].table # "env"
  BY <1>6, <1>9, <1>10, <1>14, <1>15
<1> QED
  BY <1>1, <1>2, <1>6, <1>8, <1>10, <1>16, <1>17, AppendMany

\* Every batch a handler may hold.
LEMMA AppendPreservesAll ==
    ASSUME ResourceInv, NEW c \in Handlers, NEW bound, AppendBatch(c, bound), UNCHANGED sversions
    PROVE  ResourceInv'
<1>1. rreq[c].phase = "checked" /\ Pending(rlog, sversions, rreq[c])
  BY AppendedLog
<1>2. CASE \E e \in ResourceEvent : rreq[c].batch = <<e>> /\ Fresh(rlog, e)
  BY <1>2, AppendFresh
<1>3. CASE \E k \in Keys : rreq[c].batch = OrgWithOwner(k)
  BY <1>3, AppendOrg
<1>4. CASE \E s \in ResourceRow : Born(rlog, Len(rlog), "snapshot", s.id) /\ rreq[c].batch = RestoreBatch(s)
  BY <1>4, AppendRestore
<1>5. CASE \E e \in ResourceEvent :
              rreq[c].batch = <<e>> /\ Existing(rlog, sversions, e, rreq[c].seq, rreq[c].phase)
  BY <1>1, <1>5, AppendExisting
<1>6. CASE rreq[c].seq = 1 /\ \E n \in Nat \ {0}, v \in Values :
              /\ Stored(sversions, n, n, v)
              /\ rreq[c].batch = VersionSet(Ev("bundle", "created", 0, SecretEnv, 0, v), n)
  BY <1>6, AppendBundle
<1> QED
  BY <1>1, <1>2, <1>3, <1>4, <1>5, <1>6 DEF Pending

----------------------------------------------------------------------------
(* The first state.                                                           *)

\* A log of created aggregates, each named by its position.
AllCreated(L) ==
    /\ L \in Seq(Logged)
    /\ \A i \in 1 .. Len(L) : L[i].kind = "created" /\ L[i].id = i /\ L[i].table # "bundle"

\* A log of created aggregates is well-formed, and its rows are what was inserted.
LEMMA CreatedLogOK ==
    ASSUME NEW L, AllCreated(L),
           \A i \in 1 .. Len(L) : ParentBorn(L, i - 1, L[i]) /\ (L[i].table = "env" => i = 1)
    PROVE  LogOK(L, {}) /\ RowsOK({Inserted(L[i]) : i \in 1 .. Len(L)}, L, Len(L))
<1>1. L \in Seq(Logged) /\ Len(L) \in Nat /\ Len(L) \in 0 .. Len(L)
  BY DEF AllCreated
<1>2. \A i \in 1 .. Len(L) : /\ L[i] \in Logged /\ L[i].kind = "created" /\ L[i].id = i
                             /\ L[i].table # "bundle"
  BY <1>1 DEF AllCreated
<1>3. ASSUME NEW i \in 1 .. Len(L) PROVE EventOK(L, i, {})
  <2>1. \A j \in 1 .. (i - 1) : L[j].id # i /\ L[j].kind # "deleted"
    BY <1>1, <1>2
  <2>2. Agg(L, i - 1, L[i].table, L[i].id) = {} /\ ~Gone(L, i - 1, L[i].table, L[i].id)
    BY <1>2, <2>1 DEF Agg, Gone
  <2> QED
    BY <1>2, <2>2 DEF EventOK
<1>4. LogOK(L, {})
  BY <1>1, <1>3 DEF LogOK
<1>5. PICK R : R = {Inserted(L[i]) : i \in 1 .. Len(L)}
  OBVIOUS
<1>6. ASSUME NEW i \in 1 .. Len(L)
      PROVE  /\ Inserted(L[i]) \in ResourceRow /\ Inserted(L[i]).table = L[i].table
             /\ Inserted(L[i]).id = i /\ RowOK(Inserted(L[i]), L, Len(L))
  <2>1. PICK r : r = Inserted(L[i])
    OBVIOUS
  <2>2. /\ r \in ResourceRow /\ r.table = L[i].table /\ r.id = i /\ r.key = L[i].key /\ r.ref = L[i].ref
        /\ r.attr = L[i].attr /\ r.version = 1 /\ r.live = TRUE
    BY <1>2, <2>1, InsertedIsRow
  <2>3. Agg(L, Len(L), r.table, r.id) = {i}
    BY <1>2, <2>2 DEF Agg
  <2>4. Cardinality(Agg(L, Len(L), r.table, r.id)) = 1
    BY <2>3, FS_Singleton
  <2>5. Born(L, Len(L), r.table, r.id) /\ ~Gone(L, Len(L), r.table, r.id)
    BY <1>2, <2>2 DEF Born, Gone
  <2>6. RowOK(r, L, Len(L))
    BY <1>2, <2>2, <2>3, <2>4, <2>5 DEF RowOK
  <2> QED
    BY <2>1, <2>2, <2>6
<1>7. R \subseteq ResourceRow /\ \A r \in R : RowOK(r, L, Len(L))
  BY <1>5, <1>6
<1>8. \A r, s \in R : r.table = s.table /\ r.id = s.id => r = s
  BY <1>5, <1>6
<1>9. \A i \in 1 .. Len(L) : L[i].kind = "created" => \E r \in R : r.table = L[i].table /\ r.id = L[i].id
  BY <1>2, <1>5, <1>6
<1>10. \A i \in 1 .. Len(L) : i <= Len(L)
  BY <1>1
<1>11. RowsOK(R, L, Len(L))
  BY <1>1, <1>7, <1>8, <1>9, <1>10 DEF RowsOK
<1> QED
  BY <1>4, <1>5, <1>11

\* The logs that earlier requests have left are such logs.
LEMMA InitialLogCreated ==
    ASSUME NEW f
    PROVE  /\ AllCreated(InitialLog(f))
           /\ \A i \in 1 .. Len(InitialLog(f)) :
                 /\ ParentBorn(InitialLog(f), i - 1, InitialLog(f)[i])
                 /\ InitialLog(f)[i].table = "env" => i = 1
<1>0. PICK L : L = InitialLog(f)
  OBVIOUS
<1>1. CASE f = "org"
  <2>1. PICK a : a = Ev("org", "created", 1, None, 0, None)
    OBVIOUS
  <2>2. PICK b : b = Ev("member", "created", 2, FirstKey, 1, "owner")
    OBVIOUS
  <2>3. L = <<a, b>>
    BY <1>0, <1>1, <2>1, <2>2 DEF InitialLog
  <2>4. /\ a \in ResourceEvent /\ a.table = "org" /\ a.kind = "created" /\ a.id = 1 /\ a.ref = 0
        /\ b \in ResourceEvent /\ b.table = "member" /\ b.kind = "created" /\ b.id = 2 /\ b.ref = 1
    BY <2>1, <2>2, SecretEnvIsKey DEF Ev, ResourceEvent, Tables, Roles
  <2>5. "created" \in Kinds("org") /\ "created" \in Kinds("member")
    BY DEF Kinds
  <2>6. a \in Logged /\ b \in Logged
    BY <2>4, <2>5 DEF Logged
  <2>7. Len(L) = 2 /\ L[1] = a /\ L[2] = b /\ L \in Seq(Logged)
    BY <2>3, <2>6
  <2>8. ParentTable(a) = "none" /\ ParentTable(b) = "org"
    BY <2>4 DEF ParentTable
  <2>9. Born(L, 1, "org", 1)
    BY <2>4, <2>7 DEF Born
  <2>10. ParentBorn(L, 0, a) /\ ParentBorn(L, 1, b)
    BY <2>4, <2>8, <2>9 DEF ParentBorn
  <2>11. AllCreated(L)
    BY <2>4, <2>7 DEF AllCreated
  <2>12. \A i \in 1 .. Len(L) : ParentBorn(L, i - 1, L[i]) /\ (L[i].table = "env" => i = 1)
    BY <2>4, <2>7, <2>10
  <2> QED
    BY <1>0, <2>11, <2>12
<1>2. CASE f \in {"route", "secret"}
  <2>1. PICK a : a = Ev("env", "created", 1, None, 0, None)
    OBVIOUS
  <2>2. L = <<a>>
    BY <1>0, <1>2, <2>1 DEF InitialLog
  <2>3. a \in ResourceEvent /\ a.table = "env" /\ a.kind = "created" /\ a.id = 1 /\ a.ref = 0
    BY <2>1 DEF Ev, ResourceEvent, Tables
  <2>4. "created" \in Kinds("env")
    BY DEF Kinds
  <2>5. a \in Logged
    BY <2>3, <2>4 DEF Logged
  <2>6. Len(L) = 1 /\ L[1] = a /\ L \in Seq(Logged)
    BY <2>2, <2>5
  <2>7. ParentBorn(L, 0, a)
    BY <2>3 DEF ParentBorn, ParentTable
  <2>8. AllCreated(L)
    BY <2>3, <2>6 DEF AllCreated
  <2>9. \A i \in 1 .. Len(L) : ParentBorn(L, i - 1, L[i]) /\ (L[i].table = "env" => i = 1)
    BY <2>6, <2>7
  <2> QED
    BY <1>0, <2>8, <2>9
<1>3. CASE f = "volume"
  <2>1. PICK a : a = Ev("env", "created", 1, None, 0, None)
    OBVIOUS
  <2>2. PICK b : b = Ev("volume", "created", 2, None, 0, None)
    OBVIOUS
  <2>3. PICK d : d = Ev("snapshot", "created", 3, None, 2, "queued")
    OBVIOUS
  <2>4. L = <<a, b, d>>
    BY <1>0, <1>3, <2>1, <2>2, <2>3 DEF InitialLog
  <2>5. /\ a \in ResourceEvent /\ a.table = "env" /\ a.kind = "created" /\ a.id = 1 /\ a.ref = 0
        /\ b \in ResourceEvent /\ b.table = "volume" /\ b.kind = "created" /\ b.id = 2 /\ b.ref = 0
        /\ d \in ResourceEvent /\ d.table = "snapshot" /\ d.kind = "created" /\ d.id = 3 /\ d.ref = 2
    BY <2>1, <2>2, <2>3 DEF Ev, ResourceEvent, Tables
  <2>6. "created" \in Kinds("env") /\ "created" \in Kinds("volume") /\ "created" \in Kinds("snapshot")
    BY DEF Kinds
  <2>7. a \in Logged /\ b \in Logged /\ d \in Logged
    BY <2>5, <2>6 DEF Logged
  <2>8. Len(L) = 3 /\ L[1] = a /\ L[2] = b /\ L[3] = d /\ L \in Seq(Logged)
    BY <2>4, <2>7
  <2>9. ParentTable(a) = "none" /\ ParentTable(b) = "none" /\ ParentTable(d) = "volume"
    BY <2>5 DEF ParentTable
  <2>10. Born(L, 2, "volume", 2)
    BY <2>5, <2>8 DEF Born
  <2>11. ParentBorn(L, 0, a) /\ ParentBorn(L, 1, b) /\ ParentBorn(L, 2, d)
    BY <2>5, <2>9, <2>10 DEF ParentBorn
  <2>12. AllCreated(L)
    BY <2>5, <2>8 DEF AllCreated
  <2>13. \A i \in 1 .. Len(L) : ParentBorn(L, i - 1, L[i]) /\ (L[i].table = "env" => i = 1)
    BY <2>5, <2>8, <2>11
  <2> QED
    BY <1>0, <2>12, <2>13
<1>4. CASE f \notin {"org", "route", "secret", "volume"}
  <2>1. L = <<>>
    BY <1>0, <1>4 DEF InitialLog
  <2>2. L \in Seq(Logged) /\ Len(L) = 0
    BY <2>1
  <2> QED
    BY <1>0, <2>2 DEF AllCreated
<1> QED
  BY <1>1, <1>2, <1>3, <1>4

\* The first state.
LEMMA ResourceInitOK == ResourceInit => ResourceInv
<1>1. SUFFICES ASSUME ResourceInit PROVE ResourceInv
  OBVIOUS
<1>2. LogOK(rlog, {}) /\ RowsOK({Inserted(rlog[i]) : i \in 1 .. Len(rlog)}, rlog, Len(rlog))
  <2>1. PICK L : L = InitialLog(focus)
    OBVIOUS
  <2>2. AllCreated(L) /\ \A i \in 1 .. Len(L) : ParentBorn(L, i - 1, L[i]) /\ (L[i].table = "env" => i = 1)
    BY <2>1, InitialLogCreated
  <2>3. LogOK(L, {}) /\ RowsOK({Inserted(L[i]) : i \in 1 .. Len(L)}, L, Len(L))
    BY <2>2, CreatedLogOK
  <2>4. rlog = L
    BY <1>1, <2>1 DEF ResourceInit
  <2> QED
    BY <2>3, <2>4
<1>3. VersionsOK({})
  BY FS_EmptySet DEF VersionsOK
<1>4. rreq \in [Handlers -> ResourceRequest] /\ \A c \in Handlers : RequestOK(rlog, {}, rreq[c])
  BY <1>1, NoRequestOK DEF ResourceInit
<1> QED
  BY <1>1, <1>2, <1>3, <1>4 DEF ResourceInit, ResourceInv

----------------------------------------------------------------------------
(* The other steps.                                                           *)

LEMMA DeleteEnvPreserves ==
    ASSUME ResourceInv, NEW bound, DeleteEnvOf(bound), UNCHANGED sversions
    PROVE  ResourceInv'
<1>1. PICK n : n = Len(rlog)
  OBVIOUS
<1>2. PICK e : e = Ev("env", "deleted", 1, None, 0, None)
  OBVIOUS
<1>3. e \in ResourceEvent /\ e.table = "env" /\ e.kind = "deleted" /\ e.id = 1 /\ e.ref = 0
  BY <1>2 DEF Ev, ResourceEvent, Tables
<1>4. e \in Logged
  <2>1. "deleted" \in Kinds("env")
    BY DEF Kinds
  <2> QED
    BY <1>3, <2>1 DEF Logged
<1>5. LogOK(rlog, sversions) /\ rlog \in Seq(Logged) /\ n \in Nat
  BY <1>1 DEF ResourceInv, LogOK
<1>6. PICK M : M = Append(rlog, e)
  OBVIOUS
<1>7. /\ rlog' = M /\ UNCHANGED <<focus, rdone, rrows, rworker, rreq, sversions>>
  BY <1>2, <1>6 DEF DeleteEnvOf
<1>8. M \in Seq(Logged) /\ Len(M) = n + 1 /\ M[n + 1] = e /\ \A i \in 1 .. n : M[i] = rlog[i]
  BY <1>1, <1>4, <1>5, <1>6
<1>9. Continues(rlog, M)
  BY <1>1, <1>5, <1>8 DEF Continues
<1>10. Born(rlog, n, "env", 1)
  <2>1. PICK r \in rrows : r.table = "env"
    BY DEF DeleteEnvOf, EnvExists, LiveOf, RowsOf
  <2>2. Born(rlog, Len(rlog), "env", r.id)
    BY <2>1, RowFacts
  <2>3. PICK i \in 1 .. Len(rlog) : rlog[i].table = "env" /\ rlog[i].id = r.id /\ rlog[i].kind = "created"
    BY <2>2 DEF Born
  <2>4. rlog[i].id = 1
    BY <1>5, <2>3 DEF LogOK, EventOK
  <2> QED
    BY <1>1, <2>3, <2>4 DEF Born
<1>11. EventOK(M, n + 1, sversions)
  <2>1. (n + 1) - 1 = n
    BY <1>5
  <2>2. Born(M, n, "env", 1)
    BY <1>5, <1>8, <1>10, SamePrefix
  <2>3. ParentBorn(M, n, e)
    BY <1>3 DEF ParentBorn, ParentTable
  <2> QED
    BY <1>3, <1>8, <2>1, <2>2, <2>3 DEF EventOK
<1>12. LogOK(M, sversions)
  <2>1. \A i \in (Len(rlog) + 1) .. Len(M) : EventOK(M, i, sversions)
    BY <1>1, <1>5, <1>8, <1>11
  <2> QED
    BY <1>5, <1>9, <2>1, LogContinued
<1>13. RowsOK(rrows, M, rdone)
  <2>1. \A i \in (Len(rlog) + 1) .. Len(M) : ~(M[i].table = "env" /\ M[i].kind = "created")
    BY <1>1, <1>3, <1>5, <1>8
  <2> QED
    BY <1>9, <2>1, RowsStayOK DEF ResourceInv
<1>14. ASSUME NEW c \in Handlers PROVE RequestOK(M, sversions, rreq[c])
  BY <1>9, <1>12, RequestStaysOK DEF ResourceInv
<1> QED
  BY <1>7, <1>12, <1>13, <1>14 DEF ResourceInv

\* The projections apply the next event.
LEMMA ProjectResourcePreserves ==
    ASSUME ResourceInv, ProjectResource
    PROVE  ResourceInv'
<1>1. RowsOK(ViewsAfter(rlog[rdone + 1]), rlog, rdone + 1)
  BY RowsFollow DEF ResourceInv, ProjectResource
<1>2. /\ rrows' = ViewsAfter(rlog[rdone + 1]) /\ rdone' = rdone + 1
      /\ UNCHANGED <<focus, rlog, rworker, rreq, sversions>>
  BY DEF ProjectResource
<1> QED
  BY <1>1, <1>2 DEF ResourceInv

\* A client starts to walk a list.
LEMMA WalkPreserves ==
    ASSUME ResourceInv, NEW c \in Handlers, NEW t, StartWalk(c, t), UNCHANGED sversions
    PROVE  ResourceInv'
<1>1. PICK q : q = [rreq[c] EXCEPT !.phase = "walking"]
  OBVIOUS
<1>2. rreq[c] \in ResourceRequest /\ rreq \in [Handlers -> ResourceRequest]
  BY DEF ResourceInv
<1>3. q \in ResourceRequest /\ q.phase = "walking"
  BY <1>1, <1>2 DEF ResourceRequest
<1>4. rreq' = [rreq EXCEPT ![c] = q]
  BY <1>1, <1>2 DEF StartWalk
<1>5. RequestOK(rlog, sversions', q)
  BY <1>3 DEF RequestOK
<1>6. sversions \subseteq sversions' /\ VersionsOK(sversions')
  BY DEF ResourceInv
<1>7. UNCHANGED <<focus, rlog, rdone, rrows, rworker>>
  BY DEF StartWalk
<1> QED
  BY <1>3, <1>4, <1>5, <1>6, <1>7, OneRequestMoves

\* Every step keeps the log, the rows and what the handlers hold.
LEMMA ResourceNextPreserves ==
    ASSUME ResourceInv, [ResourceNext]_rvars
    PROVE  ResourceInv'
<1>1. ASSUME NEW c \in Handlers, UNCHANGED sversions,
             OrgNext(c) \/ ProjectNext(c) \/ AppNext(c) \/ RouteNext(c) \/ VolumeNext(c)
      PROVE  ResourceInv'
  <2>1. CASE CountOwners(c) \/ CheckProjectName(c) \/ CheckAppName(c)
    BY <1>1, <2>1, CheckPreserves
  <2>2. CASE ~(CountOwners(c) \/ CheckProjectName(c) \/ CheckAppName(c))
    BY <1>1, <2>2, TenancyPreserves, AppPreserves, RoutePreserves, VolumePreserves
  <2> QED
    BY <2>1, <2>2
<1>2. ASSUME NEW c \in Handlers, UNCHANGED sversions, Abandon(c) \/ RefuseNumber(c) \/ AnswerRequest(c)
      PROVE  ResourceInv'
  BY <1>2, RequestEnds DEF Abandon, RefuseNumber, AnswerRequest
<1>3. ASSUME NEW c \in Handlers, UNCHANGED sversions, AppendBatch(c, LogBound)
      PROVE  ResourceInv'
  BY <1>3, AppendPreservesAll
<1>4. ASSUME NEW c \in Handlers, SecretNext(c) PROVE ResourceInv'
  BY <1>4, SecretPreserves
<1>5. ASSUME DeleteEnvOf(LogBound), UNCHANGED sversions PROVE ResourceInv'
  BY <1>5, DeleteEnvPreserves
<1>6. ASSUME ProjectResource PROVE ResourceInv'
  BY <1>6, ProjectResourcePreserves
<1>7. ASSUME ProjectRefused \/ RestartWorker PROVE ResourceInv'
  BY <1>7 DEF ProjectRefused, RestartWorker, ResourceInv
<1>8. ASSUME NextPage, UNCHANGED sversions PROVE ResourceInv'
  BY <1>8 DEF NextPage, resourceVars, ResourceInv
<1>9. ASSUME NEW c \in Handlers, EndWalk(c), UNCHANGED sversions PROVE ResourceInv'
  BY <1>9, RequestEnds DEF EndWalk
<1>10. ASSUME NEW c \in Handlers, NEW t \in Listed, StartWalk(c, t), UNCHANGED sversions PROVE ResourceInv'
  BY <1>10, WalkPreserves
<1>11. ASSUME UNCHANGED rvars PROVE ResourceInv'
  BY <1>11 DEF rvars, ResourceInv
<1> QED
  BY <1>1, <1>2, <1>3, <1>4, <1>5, <1>6, <1>7, <1>8, <1>9, <1>10, <1>11 DEF ResourceNext

\* Whatever the handlers do, the log is well-formed (an aggregate is created once and first, its
\* parent before it, and only deletes follow a delete), the rows are what the applied prefix of
\* the log says, and what a handler holds will fit the log or have its number refused.
THEOREM ResourceInvariant == ResourceSpec => []ResourceInv
<1>1. ResourceInv /\ [ResourceNext]_rvars => ResourceInv'
  BY ResourceNextPreserves
<1> QED
  BY ResourceInitOK, <1>1, PTL DEF ResourceSpec

----------------------------------------------------------------------------
(* What clients see.                                                          *)

\* An applied event has its row, live unless a delete was applied.
LEMMA EventHasRow ==
    ASSUME ResourceInv, NEW i \in 1 .. rdone
    PROVE  \E r \in rrows : /\ r.table = rlog[i].table /\ r.id = rlog[i].id /\ RowOK(r, rlog, rdone)
                            /\ r.live = ~Gone(rlog, rdone, rlog[i].table, rlog[i].id)
<1>1. /\ LogOK(rlog, sversions) /\ rdone \in 0 .. Len(rlog) /\ Len(rlog) \in Nat
  BY DEF ResourceInv, RowsOK, LogOK
<1>2. i \in Agg(rlog, rdone, rlog[i].table, rlog[i].id)
  BY DEF Agg
<1>3. PICK k \in Agg(rlog, rdone, rlog[i].table, rlog[i].id) : rlog[k].kind = "created"
  BY <1>1, <1>2, FirstCreates
<1>4. k \in 1 .. rdone /\ rlog[k].table = rlog[i].table /\ rlog[k].id = rlog[i].id
  BY <1>3 DEF Agg
<1>5. PICK r \in rrows : r.table = rlog[k].table /\ r.id = rlog[k].id
  BY <1>3, <1>4 DEF ResourceInv, RowsOK
<1>6. RowOK(r, rlog, rdone)
  BY DEF ResourceInv, RowsOK
<1> QED
  BY <1>4, <1>5, <1>6 DEF RowOK

\* What the invariant says of versions and deletes.
LEMMA HistoriesFollow == ResourceInv => HistoriesWellFormed
<1>1. SUFFICES ASSUME ResourceInv PROVE HistoriesWellFormed
  OBVIOUS
<1>2. /\ LogOK(rlog, sversions) /\ RowsOK(rrows, rlog, rdone) /\ rdone \in Nat /\ Len(rlog) \in Nat
      /\ rdone <= Len(rlog) /\ rlog \in Seq(Logged)
  BY <1>1 DEF ResourceInv, RowsOK, LogOK
<1>3. ASSUME NEW r \in RowsOf("route")
      PROVE  /\ GetRoute(r.id) <= RouteState(r.id).version
             /\ rdone = Len(rlog) => /\ r.live = ~RouteState(r.id).deleted
                                     /\ r.version = RouteState(r.id).version
  <2>1. r \in rrows /\ r.table = "route" /\ r \in ResourceRow /\ RowOK(r, rlog, rdone)
    BY <1>2, <1>3 DEF RowsOf, RowsOK
  <2>2. /\ r.id >= 1 /\ Born(rlog, Len(rlog), "route", r.id) /\ r.id \in Nat
    BY <1>1, <2>1, RowFacts DEF ResourceRow
  <2>3. PICK i \in 1 .. Len(rlog) : rlog[i].table = "route" /\ rlog[i].id = r.id
    BY <2>2 DEF Born
  <2>4. r.id <= i
    BY <1>2, <2>3, NamesArePositions
  <2>5. r.id \in 1 .. Len(rlog)
    BY <1>2, <2>2, <2>4
  <2>6. RouteState(r.id).found
    BY <2>3 DEF RouteState, RouteEvents
  <2>7. /\ RouteState(r.id).version = Cardinality(Agg(rlog, Len(rlog), "route", r.id))
        /\ RouteState(r.id).version \in Nat
        /\ RouteState(r.id).deleted = Gone(rlog, Len(rlog), "route", r.id)
    BY <1>1, <2>5, <2>6, RouteStateFacts
  <2>8. Cardinality(Agg(rlog, rdone, "route", r.id)) <= Cardinality(Agg(rlog, Len(rlog), "route", r.id))
    BY <1>2, LongerPrefix
  <2>9. r.version = Cardinality(Agg(rlog, rdone, "route", r.id)) /\ r.live = ~Gone(rlog, rdone, "route", r.id)
    BY <2>1 DEF RowOK
  <2>10. GetRoute(r.id) <= RouteState(r.id).version
    <3>1. CASE \E s \in LiveOf("route") : s.id = r.id
      <4>1. PICK w : w = CHOOSE s \in LiveOf("route") : s.id = r.id
        OBVIOUS
      <4>2. w \in LiveOf("route") /\ w.id = r.id
        BY <3>1, <4>1
      <4>3. w = r
        BY <1>2, <2>1, <4>2 DEF LiveOf, RowsOf, RowsOK
      <4>4. GetRoute(r.id) = w.version
        BY <3>1, <4>1 DEF GetRoute
      <4> QED
        BY <2>7, <2>8, <2>9, <4>3, <4>4
    <3>2. CASE ~\E s \in LiveOf("route") : s.id = r.id
      <4>1. GetRoute(r.id) = IF RouteState(r.id).deleted THEN 0 ELSE RouteState(r.id).version
        BY <3>2 DEF GetRoute
      <4> QED
        BY <2>7, <4>1
    <3> QED
      BY <3>1, <3>2
  <2>11. rdone = Len(rlog) => /\ r.live = ~RouteState(r.id).deleted
                              /\ r.version = RouteState(r.id).version
    BY <2>7, <2>9
  <2> QED
    BY <2>10, <2>11
<1>4. ASSUME NEW r \in rrows PROVE r.version = LogSeq(rdone, r.table, r.id)
  BY <1>2 DEF RowsOK, RowOK, LogSeq, Agg
<1>5. ASSUME NEW i \in 1 .. Len(rlog), NEW j \in 1 .. Len(rlog), i < j, rlog[i].kind = "deleted",
             rlog[j].table = rlog[i].table, rlog[j].id = rlog[i].id, rlog[j].kind # "deleted"
      PROVE  FALSE
  <2>1. ~Gone(rlog, j - 1, rlog[j].table, rlog[j].id)
    BY <1>2, <1>5 DEF LogOK, EventOK
  <2>2. i \in 1 .. (j - 1)
    BY <1>2, <1>5
  <2> QED
    BY <1>5, <2>1, <2>2 DEF Gone
<1> QED
  BY <1>3, <1>4, <1>5 DEF HistoriesWellFormed

\* What the invariant says of parents and of stored material.
LEMMA ReferencesFollow == ResourceInv => ReferencesResolve
<1>1. SUFFICES ASSUME ResourceInv, NEW r \in rrows
               PROVE  /\ ParentTable(r) # "none" => \E p \in RowsOf(ParentTable(r)) : p.id = r.ref
                      /\ r.table = "bundle" /\ r.ref # 0 =>
                           /\ \E s \in sversions : s.bundle = r.id /\ s.version = r.ref
                           /\ GetSecretMaterial(r.ref) = {r.attr} /\ GrpcGetSecretMaterial(r.ref) = {r.attr}
  BY DEF ReferencesResolve
<1>2. /\ LogOK(rlog, sversions) /\ RowsOK(rrows, rlog, rdone) /\ rdone \in Nat /\ Len(rlog) \in Nat
      /\ rdone <= Len(rlog) /\ VersionsOK(sversions) /\ RowOK(r, rlog, rdone)
  BY <1>1 DEF ResourceInv, RowsOK, LogOK
<1>3. ASSUME ParentTable(r) # "none" PROVE \E p \in RowsOf(ParentTable(r)) : p.id = r.ref
  <2>1. Born(rlog, rdone, ParentTable(r), r.ref)
    BY <1>1, <1>3, RowFacts
  <2>2. PICK i \in 1 .. rdone : /\ rlog[i].table = ParentTable(r) /\ rlog[i].id = r.ref
                                /\ rlog[i].kind = "created"
    BY <2>1 DEF Born
  <2>3. \E p \in rrows : p.table = rlog[i].table /\ p.id = rlog[i].id
    BY <1>2, <2>2 DEF RowsOK
  <2> QED
    BY <2>2, <2>3 DEF RowsOf
<1>4. ASSUME r.table = "bundle", r.ref # 0
      PROVE  /\ \E s \in sversions : s.bundle = r.id /\ s.version = r.ref
             /\ GetSecretMaterial(r.ref) = {r.attr} /\ GrpcGetSecretMaterial(r.ref) = {r.attr}
  <2>1. PICK i \in Agg(rlog, rdone, r.table, r.id) : r.ref = rlog[i].ref /\ r.attr = rlog[i].attr
    BY <1>2, <1>4 DEF RowOK
  <2>2. i \in 1 .. Len(rlog) /\ rlog[i].table = "bundle" /\ rlog[i].id = r.id
    BY <1>2, <1>4, <2>1 DEF Agg
  <2>3. EventOK(rlog, i, sversions)
    BY <1>2, <2>2 DEF LogOK
  <2>4. Stored(sversions, r.id, r.ref, r.attr)
    BY <1>4, <2>1, <2>2, <2>3 DEF EventOK
  <2>5. PICK s \in sversions : s.bundle = r.id /\ s.version = r.ref /\ s.content = r.attr
    BY <2>4 DEF Stored
  <2>6. {t \in sversions : t.version = r.ref} = {s}
    BY <1>2, <2>5 DEF VersionsOK
  <2>7. s = NewVersion(s.bundle, s.version, s.content)
    BY <1>2, <2>5 DEF VersionsOK
  <2>8. s.material = Encrypt(s.content, SecretsAad(s.bundle, s.version, s.content))
    <3>1. PICK x : x = s.content
      OBVIOUS
    <3>2. PICK a : a = SecretsAad(s.bundle, s.version, x)
      OBVIOUS
    <3>3. s = [bundle |-> s.bundle, version |-> s.version, content |-> x, material |-> Encrypt(x, a)]
      BY <2>7, <3>1, <3>2 DEF NewVersion
    <3>4. s.material = Encrypt(x, a)
      BY <3>3
    <3> QED
      BY <3>1, <3>2, <3>4
  <2>9. Decrypt(s.material, SecretsAad(s.bundle, s.version, s.content)) = {s.content}
    BY <2>8 DEF Encrypt, Decrypt
  <2>10. GetSecretMaterial(r.ref) = UNION {Decrypt(s.material, SecretsAad(s.bundle, s.version, s.content))}
    BY <2>6 DEF GetSecretMaterial
  <2>11. GetSecretMaterial(r.ref) = {r.attr}
    BY <2>5, <2>9, <2>10
  <2> QED
    BY <2>5, <2>11 DEF GrpcGetSecretMaterial
<1> QED
  BY <1>3, <1>4

\* The row that the answer is made of.
LEMMA ShownIsRead ==
    ASSUME ResourceInv, NEW i \in 1 .. rdone, rlog[i].table \notin {"restore", "env"},
           rlog[i].table = "bundle" => rlog[i].kind = "updated",
           ~Gone(rlog, rdone, rlog[i].table, rlog[i].id)
    PROVE  ReadBack(rlog[i])
<1>1. PICK e : e = rlog[i]
  OBVIOUS
<1>2. PICK r \in rrows : r.table = e.table /\ r.id = e.id /\ RowOK(r, rlog, rdone) /\ r.live = TRUE
  BY <1>1, EventHasRow
<1>3. /\ LogOK(rlog, sversions) /\ rdone \in Nat /\ Len(rlog) \in Nat /\ rdone <= Len(rlog)
      /\ i \in 1 .. Len(rlog) /\ e \in Logged
  BY <1>1 DEF ResourceInv, RowsOK, LogOK
<1>4. e.table \in Tables /\ e.kind \in Kinds(e.table)
  BY <1>3 DEF Logged, ResourceEvent
<1>5. r \in RowsOf(e.table) /\ r \in LiveOf(e.table)
  BY <1>2 DEF RowsOf, LiveOf
<1>6. e.kind # "deleted"
  BY <1>1 DEF Gone
<1>7. CASE e.table = "release"
  <2>1. PICK k \in Agg(rlog, rdone, e.table, e.id) : r.ref = rlog[k].ref
    BY <1>2 DEF RowOK
  <2>2. k \in 1 .. rdone /\ k \in 1 .. Len(rlog) /\ rlog[k].table = e.table /\ rlog[k].id = e.id
    BY <1>3, <2>1 DEF Agg
  <2>3. rlog[k] \in Logged
    BY <1>3, <2>2 DEF LogOK
  <2>4. rlog[k].kind = "created" /\ e.kind = "created"
    BY <1>4, <1>7, <2>2, <2>3 DEF Logged, Kinds
  <2>5. EventOK(rlog, i, sversions) /\ EventOK(rlog, k, sversions)
    BY <1>3, <2>2 DEF LogOK
  <2>6. k = i
    BY <1>1, <1>3, <1>7, <2>2, <2>4, <2>5 DEF EventOK
  <2>7. r \in GetRelease(e.ref, e.id)
    BY <1>1, <1>2, <1>5, <1>7, <2>1, <2>6 DEF GetRelease
  <2> QED
    BY <1>1, <1>6, <1>7, <2>7 DEF ReadBack, ReleaseReadBack
<1>8. CASE e.table = "bundle"
  <2>1. i \in Agg(rlog, rdone, r.table, r.id)
    BY <1>1, <1>2 DEF Agg
  <2>2. r.ref # 0
    BY <1>1, <1>2, <1>8, <2>1 DEF RowOK
  <2>3. r \in GetSecretsMetadata
    BY <1>5, <1>8, <2>2 DEF GetSecretsMetadata
  <2> QED
    BY <1>1, <1>6, <1>8, <2>3 DEF ReadBack, SecretsReadBack
<1>9. CASE e.table = "volume"
  <2>1. [row |-> r, attachments |-> AttachmentsOf(e.id)] \in GetVolume(e.id)
    BY <1>2, <1>5, <1>9 DEF GetVolume
  <2>2. ReadBack(e) = VolumeReadBack(e)
    BY <1>6, <1>9 DEF ReadBack
  <2> QED
    BY <1>1, <2>1, <2>2 DEF VolumeReadBack
<1>10. CASE e.table \in {"org", "member", "project", "app", "route", "snapshot", "attachment"}
  <2>1. OrgReadBack(e) \/ e.table # "org"
    BY <1>2, <1>5 DEF OrgReadBack
  <2>2. MemberReadBack(e) \/ e.table # "member"
    BY <1>2, <1>5 DEF MemberReadBack
  <2>3. ProjectReadBack(e) \/ e.table # "project"
    BY <1>2, <1>5 DEF ProjectReadBack, GetProject
  <2>4. AppReadBack(e) \/ e.table # "app"
    BY <1>2, <1>5 DEF AppReadBack, GetApp
  <2>5. RouteReadBack(e) \/ e.table # "route"
    BY <1>2, <1>5 DEF RouteReadBack
  <2>6. SnapshotReadBack(e) \/ e.table # "snapshot"
    BY <1>2, <1>5 DEF SnapshotReadBack
  <2>7. AttachmentReadBack(e) \/ e.table # "attachment"
    BY <1>2, <1>5 DEF AttachmentReadBack
  <2> QED
    BY <1>1, <1>6, <1>10, <2>1, <2>2, <2>3, <2>4, <2>5, <2>6, <2>7 DEF ReadBack
<1> QED
  BY <1>1, <1>4, <1>7, <1>8, <1>9, <1>10 DEF Tables

\* What the invariant says of the row a handler reads back.
LEMMA MaterializedFollows == ResourceInv => MaterializedWhenAwaited
<1>1. SUFFICES ASSUME ResourceInv, NEW c \in Handlers, rreq[c].phase = "waiting", rdone >= rreq[c].upto
               PROVE  LET e == rlog[rreq[c].shown]
                          owner == rlog[rreq[c].upto]
                          Followed(f) == \E i \in 1 .. rdone :
                             rlog[i].table = f.table /\ rlog[i].id = f.id /\ rlog[i].kind = "deleted"
                      IN  /\ ReadBack(e) \/ Followed(e)
                          /\ e.table = "org" /\ e.kind = "created" =>
                               Followed(owner) \/ \E o \in ListOrgs(owner.key) : o.id = e.id
  BY DEF MaterializedWhenAwaited
<1>2. PICK x : x = rreq[c].shown
  OBVIOUS
<1>3. PICK u : u = rreq[c].upto
  OBVIOUS
<1>4. /\ LogOK(rlog, sversions) /\ RowsOK(rrows, rlog, rdone) /\ rdone \in Nat /\ Len(rlog) \in Nat
      /\ rdone <= Len(rlog) /\ Awaited(rlog, rreq[c]) /\ u \in Nat
  BY <1>1, <1>3 DEF ResourceInv, RowsOK, LogOK, RequestOK, ResourceRequest
<1>5. x \in 1 .. rdone /\ u \in 1 .. rdone
  BY <1>1, <1>2, <1>3, <1>4 DEF Awaited
<1>6. /\ rlog[x].table \notin {"restore", "env"} /\ (rlog[x].table = "bundle" => rlog[x].kind = "updated")
      /\ rlog[x].table = "org" /\ rlog[x].kind = "created" =>
            rlog[u].table = "member" /\ rlog[u].kind = "created" /\ rlog[u].ref = rlog[x].id
  BY <1>2, <1>3, <1>4 DEF Awaited
<1>7. ReadBack(rlog[x]) \/ Gone(rlog, rdone, rlog[x].table, rlog[x].id)
  BY <1>1, <1>5, <1>6, ShownIsRead
<1>8. ASSUME rlog[x].table = "org", rlog[x].kind = "created", ~Gone(rlog, rdone, rlog[u].table, rlog[u].id)
      PROVE  \E o \in ListOrgs(rlog[u].key) : o.id = rlog[x].id
  <2>1. rlog[u].table = "member" /\ rlog[u].kind = "created" /\ rlog[u].ref = rlog[x].id
    BY <1>6, <1>8
  <2>2. PICK o \in rrows : o.table = "org" /\ o.id = rlog[x].id
    BY <1>1, <1>5, <1>8, EventHasRow
  <2>3. PICK m \in rrows : m.table = "member" /\ m.id = rlog[u].id /\ RowOK(m, rlog, rdone) /\ m.live = TRUE
    BY <1>1, <1>5, <1>8, <2>1, EventHasRow
  <2>4. u \in Agg(rlog, rdone, m.table, m.id)
    BY <1>5, <2>1, <2>3 DEF Agg
  <2>5. m.key = rlog[u].key
    BY <2>3, <2>4 DEF RowOK
  <2>6. PICK k \in Agg(rlog, rdone, m.table, m.id) : m.ref = rlog[k].ref
    BY <2>3 DEF RowOK
  <2>7. k \in 1 .. Len(rlog) /\ u \in 1 .. Len(rlog) /\ rlog[k].table = "member" /\ rlog[k].id = rlog[u].id
    BY <1>4, <1>5, <2>3, <2>6 DEF Agg
  <2>8. rlog[k].ref = rlog[u].ref
    BY <1>4, <2>1, <2>7, MembersKeep
  <2>9. m \in LiveOf("member") /\ m.ref = o.id /\ o \in RowsOf("org")
    BY <2>1, <2>2, <2>3, <2>6, <2>8 DEF LiveOf, RowsOf
  <2>10. o \in ListOrgs(rlog[u].key)
    BY <2>5, <2>9 DEF ListOrgs
  <2> QED
    BY <2>2, <2>10
<1> QED
  BY <1>2, <1>3, <1>7, <1>8 DEF Gone

\* A row counts the applied events of its aggregate, nothing but a repeated delete follows a
\* delete, and the projection and the fold of the handlers of routes read the same.
THEOREM ResourceHistories == ResourceSpec => []HistoriesWellFormed
  BY ResourceInvariant, HistoriesFollow, PTL

\* What a row names can be read, and a current secret version has its material.
THEOREM ReferencesAlwaysResolve == ResourceSpec => []ReferencesResolve
  BY ResourceInvariant, ReferencesFollow, PTL

\* A handler whose wait is over finds its row, and the creator of an organization sees it.
THEOREM AwaitedIsMaterialized == ResourceSpec => []MaterializedWhenAwaited
  BY ResourceInvariant, MaterializedFollows, PTL

----------------------------------------------------------------------------
(* Pages.                                                                     *)

\* The rank of a number in a set: how many members are smaller.
Below(A, i) == {j \in A : j < i}

\* The members of a finite set below one of them are fewer than all.
LEMMA RankFacts ==
    ASSUME NEW A, A \subseteq Nat, IsFiniteSet(A), NEW i \in A
    PROVE  /\ Cardinality(A) \in Nat
           /\ IsFiniteSet(Below(A, i)) /\ Cardinality(Below(A, i)) \in Nat
           /\ Cardinality(Below(A, i)) < Cardinality(A)
<1>1. Below(A, i) \in SUBSET A /\ i \notin Below(A, i)
  BY DEF Below
<1>2. Below(A, i) # A
  BY <1>1
<1>3. IsFiniteSet(Below(A, i)) /\ Cardinality(Below(A, i)) <= Cardinality(A)
  BY <1>1, FS_Subset
<1>4. Cardinality(A) # Cardinality(Below(A, i))
  BY <1>1, <1>2, FS_Subset
<1>5. Cardinality(A) \in Nat /\ Cardinality(Below(A, i)) \in Nat
  BY <1>3, FS_CardinalityType
<1> QED
  BY <1>3, <1>4, <1>5

\* Ranks are ordered as the members are.
LEMMA RankGrows ==
    ASSUME NEW A, A \subseteq Nat, IsFiniteSet(A), NEW i \in A, NEW j \in A
    PROVE  Cardinality(Below(A, i)) < Cardinality(Below(A, j)) <=> i < j
<1>1. ASSUME NEW x \in A, NEW y \in A, x < y
      PROVE  Cardinality(Below(A, x)) < Cardinality(Below(A, y))
  <2>1. x \in Nat /\ y \in Nat
    OBVIOUS
  <2>7. \A z \in A : z \in Nat /\ (z < x => z < y)
    BY <1>1, <2>1
  <2>8. Below(A, x) \in SUBSET Below(A, y)
    BY <2>7 DEF Below
  <2>9. x \in Below(A, y) /\ x \notin Below(A, x)
    BY <1>1, <2>1 DEF Below
  <2>2. Below(A, x) \in SUBSET Below(A, y) /\ x \in Below(A, y) /\ x \notin Below(A, x)
    BY <2>8, <2>9
  <2>3. Below(A, x) # Below(A, y)
    BY <2>2
  <2>4. IsFiniteSet(Below(A, y))
    BY RankFacts
  <2>5. /\ Cardinality(Below(A, x)) <= Cardinality(Below(A, y))
        /\ Cardinality(Below(A, y)) # Cardinality(Below(A, x))
    BY <2>2, <2>3, <2>4, FS_Subset
  <2>6. Cardinality(Below(A, x)) \in Nat /\ Cardinality(Below(A, y)) \in Nat
    BY RankFacts
  <2> QED
    BY <2>5, <2>6
<1>2. i \in Nat /\ j \in Nat
  OBVIOUS
<1>3. Cardinality(Below(A, i)) \in Nat /\ Cardinality(Below(A, j)) \in Nat
  BY RankFacts
<1>4. i < j \/ i = j \/ j < i
  BY <1>2
<1>5. CASE i < j
  BY <1>1, <1>5
<1>6. CASE i = j
  BY <1>2, <1>3, <1>6
<1>7. CASE j < i
  <2>1. Cardinality(Below(A, j)) < Cardinality(Below(A, i))
    BY <1>1, <1>7
  <2> QED
    BY <1>2, <1>3, <1>7, <2>1
<1> QED
  BY <1>4, <1>5, <1>6, <1>7

\* Members have different ranks.
LEMMA RankDistinct ==
    ASSUME NEW A, A \subseteq Nat, IsFiniteSet(A), NEW i \in A, NEW j \in A,
           Cardinality(Below(A, i)) = Cardinality(Below(A, j))
    PROVE  i = j
<1>1. Cardinality(Below(A, i)) \in Nat /\ i \in Nat /\ j \in Nat
  BY RankFacts
<1>2. Cardinality(Below(A, i)) < Cardinality(Below(A, j)) <=> i < j
  BY RankGrows
<1>3. Cardinality(Below(A, j)) < Cardinality(Below(A, i)) <=> j < i
  BY RankGrows
<1> QED
  BY <1>1, <1>2, <1>3

\* Every rank below the size of the set is taken.
LEMMA RankTaken ==
    ASSUME NEW A, A \subseteq Nat, IsFiniteSet(A), NEW k \in Nat, k < Cardinality(A)
    PROVE  \E i \in A : Cardinality(Below(A, i)) = k
<1>1. Cardinality(A) \in Nat
  BY FS_CardinalityType
<1>2. PICK n : n = Cardinality(A) - 1
  OBVIOUS
<1>3. n \in Nat /\ n + 1 = Cardinality(A)
  BY <1>1, <1>2
<1>4. PICK f : f = [i \in A |-> Cardinality(Below(A, i))]
  OBVIOUS
<1>5. ASSUME NEW i \in A PROVE Cardinality(Below(A, i)) \in 0 .. n
  <2>1. Cardinality(Below(A, i)) \in Nat /\ Cardinality(Below(A, i)) < Cardinality(A)
    BY RankFacts
  <2> QED
    BY <1>3, <2>1
<1>6. f \in [A -> 0 .. n]
  BY <1>4, <1>5
<1>7. ASSUME NEW i \in A, NEW j \in A, f[i] = f[j] PROVE i = j
  <2>1. Cardinality(Below(A, i)) = Cardinality(Below(A, j))
    BY <1>4, <1>7
  <2> QED
    BY <2>1, RankDistinct
<1>8. f \in Injection(A, 0 .. n)
  BY <1>6, <1>7 DEF Injection, IsInjective
<1>9. IsFiniteSet(0 .. n) /\ Cardinality(0 .. n) = n + 1
  <2>1. 0 \in Int /\ n \in Int /\ ~(0 > n) /\ (n - 0) + 1 = n + 1
    BY <1>3
  <2>2. IsFiniteSet(0 .. n) /\ Cardinality(0 .. n) = IF 0 > n THEN 0 ELSE (n - 0) + 1
    BY <2>1, FS_Interval
  <2> QED
    BY <2>1, <2>2
<1>10. f \in Surjection(A, 0 .. n)
  BY <1>3, <1>8, <1>9, FS_Injection
<1>11. k \in 0 .. n
  BY <1>1, <1>3
<1>12. PICK i \in A : f[i] = k
  BY <1>10, <1>11 DEF Surjection
<1> QED
  BY <1>4, <1>12

\* The sequence of a set is ascending and has its members.
AscendingSeq(s) == \A i, j \in 1 .. Len(s) : i < j => s[i] < s[j]

\* A finite set of numbers, listed in ascending order.
LEMMA AscendingFacts ==
    ASSUME NEW A, A \subseteq Nat, IsFiniteSet(A)
    PROVE  /\ Ascending(A) \in Seq(A) /\ Ascending(A) \in Seq(Nat)
           /\ Len(Ascending(A)) = Cardinality(A) /\ Cardinality(A) \in Nat
           /\ AscendingSeq(Ascending(A))
           /\ \A i \in A : \E k \in 1 .. Len(Ascending(A)) : Ascending(A)[k] = i
<1>1. PICK s : s = Ascending(A)
  OBVIOUS
<1>2. PICK n : n = Cardinality(A)
  OBVIOUS
<1>3. n \in Nat
  BY <1>2, FS_CardinalityType
<1>4. s = [k \in 1 .. n |-> CHOOSE i \in A : Cardinality(Below(A, i)) = k - 1]
  BY <1>1, <1>2 DEF Ascending, Below
<1>5. ASSUME NEW k \in 1 .. n PROVE s[k] \in A /\ Cardinality(Below(A, s[k])) = k - 1
  <2>1. k - 1 \in Nat /\ k - 1 < Cardinality(A)
    BY <1>2, <1>3
  <2>2. \E i \in A : Cardinality(Below(A, i)) = k - 1
    BY <2>1, RankTaken
  <2>3. s[k] = CHOOSE i \in A : Cardinality(Below(A, i)) = k - 1
    BY <1>4
  <2> QED
    BY <2>2, <2>3
<1>6. s \in Seq(A) /\ Len(s) = n
  BY <1>3, <1>4, <1>5
<1>7. s \in Seq(Nat)
  <2>1. \A k \in 1 .. n : s[k] \in Nat
    BY <1>5
  <2> QED
    BY <1>3, <1>4, <2>1
<1>8. ASSUME NEW i \in 1 .. n, NEW j \in 1 .. n, i < j PROVE s[i] < s[j]
  <2>1. Cardinality(Below(A, s[i])) < Cardinality(Below(A, s[j]))
    BY <1>3, <1>5, <1>8
  <2>2. s[i] \in A /\ s[j] \in A
    BY <1>5
  <2> QED
    BY <2>1, <2>2, RankGrows
<1>9. ASSUME NEW i \in A PROVE \E k \in 1 .. n : s[k] = i
  <2>1. PICK r : r = Cardinality(Below(A, i))
    OBVIOUS
  <2>2. r \in Nat /\ r < n
    BY <1>2, <2>1, RankFacts
  <2>3. r + 1 \in 1 .. n /\ (r + 1) - 1 = r
    BY <1>3, <2>2
  <2>4. s[r + 1] \in A /\ Cardinality(Below(A, s[r + 1])) = r
    BY <1>5, <2>3
  <2>7. s[r + 1] = i
    BY <2>1, <2>4, RankDistinct
  <2> QED
    BY <2>3, <2>7
<1> QED
  BY <1>1, <1>2, <1>3, <1>6, <1>7, <1>8, <1>9 DEF AscendingSeq

\* The members of a set with a rank below n.
Lowest(A, n) == {i \in A : Cardinality(Below(A, i)) < n}

\* The lowest of a finite set of numbers: ORDER BY ... LIMIT.
LEMMA LowestFacts ==
    ASSUME NEW A, A \subseteq Nat, IsFiniteSet(A), NEW n \in Nat
    PROVE  /\ IsFiniteSet(Lowest(A, n)) /\ Lowest(A, n) \subseteq A
           /\ \A i \in Lowest(A, n), j \in A : j < i => j \in Lowest(A, n)
           /\ Lowest(A, n) # A => Cardinality(Lowest(A, n)) = n
<1>1. Lowest(A, n) \in SUBSET A
  BY DEF Lowest
<1>2. IsFiniteSet(Lowest(A, n))
  BY <1>1, FS_Subset
<1>3. ASSUME NEW i \in Lowest(A, n), NEW j \in A, j < i PROVE j \in Lowest(A, n)
  <2>1. i \in A /\ Cardinality(Below(A, i)) < n
    BY DEF Lowest
  <2>2. Cardinality(Below(A, j)) < Cardinality(Below(A, i))
    BY <1>3, <2>1, RankGrows
  <2>3. Cardinality(Below(A, j)) \in Nat /\ Cardinality(Below(A, i)) \in Nat
    BY <2>1, RankFacts
  <2>4. Cardinality(Below(A, j)) < n
    BY <2>1, <2>2, <2>3
  <2> QED
    BY <2>4 DEF Lowest
<1>4. ASSUME Lowest(A, n) # A PROVE Cardinality(Lowest(A, n)) = n
  <2>1. PICK i \in A : ~(Cardinality(Below(A, i)) < n)
    BY <1>4 DEF Lowest
  <2>2. Cardinality(Below(A, i)) \in Nat /\ Cardinality(Below(A, i)) < Cardinality(A) /\ Cardinality(A) \in Nat
    BY RankFacts
  <2>3. n < Cardinality(A)
    BY <2>1, <2>2
  <2>4. PICK x \in A : Cardinality(Below(A, x)) = n
    BY <2>3, RankTaken
  <2>5. ASSUME NEW j \in A PROVE j < x <=> Cardinality(Below(A, j)) < n
    BY <2>4, RankGrows
  <2>6. Lowest(A, n) = Below(A, x)
    BY <2>5 DEF Lowest, Below
  <2> QED
    BY <2>4, <2>6
<1> QED
  BY <1>1, <1>2, <1>3, <1>4

\* A page after a cursor, of a list with the ids A: ascending, and without a gap up to next.
PageOK(A, cursor, p) ==
    /\ p.items \in Seq(Nat) /\ AscendingSeq(p.items) /\ p.next \in Nat
    /\ \A k \in 1 .. Len(p.items) : p.items[k] > cursor
    /\ p.next # 0 => p.next > cursor /\ \A k \in 1 .. Len(p.items) : p.items[k] <= p.next
    /\ \A i \in A : i > cursor /\ (p.next = 0 \/ i <= p.next) =>
          \E k \in 1 .. Len(p.items) : p.items[k] = i

\* A page holds the lowest ids beyond the cursor, and skips none.
LEMMA PageFacts ==
    ASSUME NEW R, NEW A, A = {r.id : r \in R}, A \subseteq Nat, IsFiniteSet(A), NEW cursor \in Nat,
           NEW s, s = Ascending(FirstPage(R, cursor))
    PROVE  /\ PageOK(A, cursor, [items |-> s, next |-> NextIfFull(s)])
           /\ PageOK(A, cursor, [items |-> s, next |-> NextIfAny(s)])
<1>1. PICK B : B = {i \in A : i > cursor}
  OBVIOUS
<1>2. B = {r.id : r \in {r \in R : r.id > cursor}}
  BY <1>1
<1>3. PICK F : F = Lowest(B, PageLimit)
  OBVIOUS
<1>4. FirstPage(R, cursor) = F
  BY <1>2, <1>3 DEF FirstPage, Lowest, Below
<1>5. B \in SUBSET A /\ B \subseteq Nat
  BY <1>1
<1>6. IsFiniteSet(B)
  BY <1>5, FS_Subset
<1>7. PageLimit \in Nat /\ PageLimit >= 1
  BY PageAssumption
<1>8. /\ IsFiniteSet(F) /\ F \subseteq B /\ (\A i \in F, j \in B : j < i => j \in F)
      /\ F # B => Cardinality(F) = PageLimit
  BY <1>3, <1>5, <1>6, <1>7, LowestFacts
<1>9. F \subseteq Nat
  BY <1>5, <1>8
<1>10. /\ s \in Seq(F) /\ s \in Seq(Nat) /\ Len(s) = Cardinality(F) /\ Cardinality(F) \in Nat
       /\ AscendingSeq(s) /\ \A i \in F : \E k \in 1 .. Len(s) : s[k] = i
  BY <1>4, <1>8, <1>9, AscendingFacts
<1>11. Len(s) \in Nat /\ \A k \in 1 .. Len(s) : s[k] \in F /\ s[k] \in Nat /\ s[k] > cursor
  <2>1. \A i \in F : i \in Nat /\ i > cursor
    BY <1>1, <1>5, <1>8
  <2> QED
    BY <1>10, <2>1
<1>12. ASSUME NEW n, \/ n = 0 /\ F = B
                     \/ Len(s) >= 1 /\ n = s[Len(s)]
       PROVE  PageOK(A, cursor, [items |-> s, next |-> n])
  <2>1. CASE n = 0 /\ F = B
    <3>1. \A i \in A : i > cursor => \E k \in 1 .. Len(s) : s[k] = i
      BY <1>1, <1>10, <2>1
    <3> QED
      BY <1>10, <1>11, <2>1, <3>1 DEF PageOK
  <2>2. CASE Len(s) >= 1 /\ n = s[Len(s)]
    <3>1. Len(s) \in 1 .. Len(s)
      BY <1>11, <2>2
    <3>2. n \in F /\ n \in Nat /\ n > cursor
      BY <1>11, <2>2, <3>1
    <3>3. ASSUME NEW k \in 1 .. Len(s) PROVE s[k] <= n
      <4>1. k < Len(s) \/ k = Len(s)
        BY <1>11
      <4>2. k < Len(s) => s[k] < s[Len(s)]
        BY <1>10, <3>1 DEF AscendingSeq
      <4> QED
        BY <1>11, <2>2, <3>2, <4>1, <4>2
    <3>4. ASSUME NEW i \in A, i > cursor, i <= n PROVE \E k \in 1 .. Len(s) : s[k] = i
      <4>1. i \in B /\ i \in Nat
        BY <1>1, <1>5, <3>4
      <4>2. i < n \/ i = n
        BY <3>2, <3>4, <4>1
      <4>3. i \in F
        BY <1>8, <3>2, <4>1, <4>2
      <4> QED
        BY <1>10, <4>3
    <3>5. n # 0
      BY <3>2
    <3> QED
      BY <1>10, <1>11, <3>2, <3>3, <3>4, <3>5 DEF PageOK
  <2> QED
    BY <1>12, <2>1, <2>2
<1>13. PageOK(A, cursor, [items |-> s, next |-> NextIfFull(s)])
  <2>1. CASE Len(s) = PageLimit
    <3>1. NextIfFull(s) = s[Len(s)] /\ Len(s) >= 1
      BY <1>7, <2>1 DEF NextIfFull
    <3> QED
      BY <1>12, <3>1
  <2>2. CASE Len(s) # PageLimit
    <3>1. NextIfFull(s) = 0 /\ F = B
      BY <1>8, <1>10, <2>2 DEF NextIfFull
    <3> QED
      BY <1>12, <3>1
  <2> QED
    BY <2>1, <2>2
<1>14. PageOK(A, cursor, [items |-> s, next |-> NextIfAny(s)])
  <2>1. CASE s # <<>>
    <3>1. NextIfAny(s) = s[Len(s)] /\ Len(s) >= 1
      BY <1>10, <2>1 DEF NextIfAny
    <3> QED
      BY <1>12, <3>1
  <2>2. CASE s = <<>>
    <3>1. Len(s) = 0
      BY <2>2
    <3>2. NextIfAny(s) = 0 /\ F = B
      BY <1>7, <1>8, <1>10, <2>2, <3>1 DEF NextIfAny
    <3> QED
      BY <1>12, <3>2
  <2> QED
    BY <2>1, <2>2
<1> QED
  BY <1>13, <1>14

----------------------------------------------------------------------------
(* Walks.                                                                     *)

\* The lists of what belongs to something else.
SubLists == {"member", "release", "snapshot"}

\* The rows of a list.
ListedRows(t, of) ==
    CASE t \in {"app", "project", "route", "volume"} -> LiveOf(t)
      [] t = "member" -> {r \in LiveOf(t) : r.ref = of}
      [] OTHER -> {r \in RowsOf(t) : r.ref = of}

\* What a page is taken from.
LEMMA ListedFacts ==
    ASSUME NEW t \in Listed, NEW of, NEW r
    PROVE  /\ r \in ListedRows(t, of) => r \in rrows /\ r.table = t
           /\ r \in rrows /\ r.table = t /\ r.live /\ (t \in SubLists => r.ref = of) => r \in ListedRows(t, of)
  BY DEF Listed, SubLists, ListedRows, LiveOf, RowsOf

\* The ids of a list are finitely many.
LEMMA ListedFinite ==
    ASSUME ResourceInv, NEW t \in Listed, NEW of, NEW A, A = {r.id : r \in ListedRows(t, of)}
    PROVE  A \subseteq Nat /\ IsFiniteSet(A)
<1>1. LogOK(rlog, sversions) /\ Len(rlog) \in Nat
  BY DEF ResourceInv, LogOK
<1>2. ASSUME NEW r \in ListedRows(t, of) PROVE r.id \in Nat /\ r.id <= Len(rlog)
  <2>1. r \in rrows /\ r.table = t /\ t # "bundle"
    BY ListedFacts DEF Listed
  <2>2. Born(rlog, Len(rlog), t, r.id) /\ r.id \in Nat
    BY <2>1, RowFacts DEF ResourceRow
  <2>3. PICK i \in 1 .. Len(rlog) : rlog[i].table = t /\ rlog[i].id = r.id
    BY <2>2 DEF Born
  <2>4. r.id <= i
    BY <1>1, <2>1, <2>3, NamesArePositions
  <2> QED
    BY <1>1, <2>2, <2>4
<1>3. A \in SUBSET Nat /\ \A i \in A : i <= Len(rlog)
  BY <1>2
<1> QED
  BY <1>1, <1>3, FS_BoundedSetOfNaturals

\* A page of the view, and the cursor it leaves.
LEMMA PageOfOK ==
    ASSUME ResourceInv, NEW t \in Listed, NEW of, NEW cursor \in Nat
    PROVE  PageOK({r.id : r \in ListedRows(t, of)}, cursor, PageOf(t, of, cursor))
<1>1. PICK R : R = ListedRows(t, of)
  OBVIOUS
<1>2. PICK A : A = {r.id : r \in R}
  OBVIOUS
<1>3. A \subseteq Nat /\ IsFiniteSet(A)
  BY <1>1, <1>2, ListedFinite
<1>4. PICK s : s = Ascending(FirstPage(R, cursor))
  OBVIOUS
<1>5. /\ PageOK(A, cursor, [items |-> s, next |-> NextIfFull(s)])
      /\ PageOK(A, cursor, [items |-> s, next |-> NextIfAny(s)])
  BY <1>2, <1>3, <1>4, PageFacts
<1>6. ListOf(R, cursor) = [items |-> s, next |-> NextIfFull(s)]
  BY <1>4 DEF ListOf
<1>7. CASE t = "project"
  <2>1. PageOf(t, of, cursor) = ListProjects(cursor) /\ R = LiveOf("project")
    BY <1>1, <1>7 DEF PageOf, ListedRows
  <2>2. ListProjects(cursor) = [items |-> s, next |-> NextIfAny(s)]
    BY <1>4, <2>1 DEF ListProjects
  <2> QED
    BY <1>1, <1>2, <1>5, <2>1, <2>2
<1>8. CASE t # "project"
  <2>1. PageOf(t, of, cursor) = ListOf(R, cursor)
    <3>1. CASE t \in {"app", "route", "volume"}
      BY <1>1, <3>1 DEF PageOf, ListedRows, ListApps, ListRoutes, ListVolumes
    <3>2. CASE t = "member"
      BY <1>1, <3>2 DEF PageOf, ListedRows, ListMembers
    <3>3. CASE t \in {"release", "snapshot"}
      BY <1>1, <3>3 DEF PageOf, ListedRows, ListReleases, ListSnapshots
    <3> QED
      BY <1>8, <3>1, <3>2, <3>3 DEF Listed
  <2> QED
    BY <1>1, <1>2, <1>5, <1>6, <2>1
<1> QED
  BY <1>7, <1>8

\* What the events of a sub-list's aggregate belong to does not change, and exists.
LEMMA OwnerFixed ==
    ASSUME NEW L, NEW V, LogOK(L, V), NEW n \in 0 .. Len(L), NEW t \in SubLists, NEW a,
           NEW i \in Agg(L, n, t, a), NEW j \in Agg(L, n, t, a)
    PROVE  L[i].ref = L[j].ref /\ L[i].ref >= 1
<1>1. /\ Len(L) \in Nat /\ L \in Seq(Logged) /\ EventOK(L, i, V) /\ EventOK(L, j, V)
      /\ i \in 1 .. Len(L) /\ j \in 1 .. Len(L) /\ i \in Int /\ j \in Int
      /\ L[i].table = t /\ L[j].table = t /\ L[i].id = a /\ L[j].id = a
  BY DEF LogOK, Agg
<1>2. L[i] \in Logged /\ L[j] \in Logged
  BY <1>1
<1>3. L[i].ref >= 1
  <2>1. ParentTable(L[i]) # "none"
    BY <1>1 DEF ParentTable, SubLists
  <2>2. Born(L, i - 1, ParentTable(L[i]), L[i].ref)
    BY <1>1, <2>1 DEF EventOK, ParentBorn
  <2>3. PICK k \in 1 .. (i - 1) : L[k].id = L[i].ref
    BY <2>2 DEF Born
  <2>4. k \in 1 .. Len(L)
    BY <1>1
  <2>5. L[k] \in Logged
    BY <1>1, <2>4
  <2> QED
    BY <2>3, <2>5 DEF Logged
<1>4. i < j => i \in Agg(L, j - 1, t, a)
  BY <1>1 DEF Agg
<1>5. j < i => j \in Agg(L, i - 1, t, a)
  BY <1>1 DEF Agg
<1>6. i < j \/ i = j \/ j < i
  BY <1>1
<1>7. CASE t = "member"
  BY <1>1, <1>3, <1>4, <1>5, <1>6, <1>7 DEF EventOK
<1>8. CASE t # "member"
  <2>1. Kinds(t) = {"created"}
    BY <1>8 DEF Kinds, SubLists
  <2>2. L[i].kind = "created" /\ L[j].kind = "created"
    BY <1>1, <1>2, <2>1 DEF Logged
  <2>3. Agg(L, i - 1, t, a) = {} /\ Agg(L, j - 1, t, a) = {}
    BY <1>1, <2>2 DEF EventOK
  <2> QED
    BY <1>3, <1>4, <1>5, <1>6, <2>3
<1> QED
  BY <1>7, <1>8

Walk == [state : {"none", "walking", "done", "refused"}, table : Listed \cup {"none"}, of : Nat,
         cursor : Nat, seen : Seq(Nat), base : SUBSET Nat]

\* A walk: what it has seen is ascending, up to its cursor, and has every row of the beginning
\* that is still there, up to its cursor.
WalkOK(w, R) ==
    /\ w \in Walk
    /\ w.state \in {"walking", "done"} =>
         /\ w.table \in Listed /\ AscendingSeq(w.seen)
         /\ w.state = "walking" => \A k \in 1 .. Len(w.seen) : w.seen[k] <= w.cursor
         /\ \A id \in w.base : \E r \in R :
               r.table = w.table /\ r.id = id /\ (w.table \in SubLists => r.ref = w.of)
         /\ \A id \in w.base : \A r \in R :
               r.table = w.table /\ r.id = id /\ r.live /\ (w.state = "done" \/ id <= w.cursor) =>
                  \E k \in 1 .. Len(w.seen) : w.seen[k] = id

WalkInv == WalkOK(rwalk, rrows)

\* The first page.
LEMMA WalkStarts ==
    ASSUME ResourceInv, NEW c \in Handlers, NEW t \in Listed, StartWalk(c, t)
    PROVE  WalkInv'
<1>1. PICK of \in {IF t \in {"member", "release", "snapshot"} THEN r.ref ELSE 0 : r \in LiveOf(t)} :
        rwalk' = [state |-> IF PageOf(t, of, 0).next = 0 THEN "done" ELSE "walking", table |-> t,
                  of |-> of, cursor |-> PageOf(t, of, 0).next, seen |-> PageOf(t, of, 0).items,
                  base |-> {r.id : r \in {r \in LiveOf(t) : of \in {0, r.ref}}}]
  BY DEF StartWalk
<1>2. PICK p : p = PageOf(t, of, 0)
  OBVIOUS
<1>3. PageOK({r.id : r \in ListedRows(t, of)}, 0, p)
  BY <1>2, PageOfOK
<1>4. PICK w : w = rwalk'
  OBVIOUS
<1>5. /\ w.state = (IF p.next = 0 THEN "done" ELSE "walking") /\ w.table = t /\ w.of = of
      /\ w.cursor = p.next /\ w.seen = p.items
      /\ w.base = {r.id : r \in {r \in LiveOf(t) : of \in {0, r.ref}}}
  BY <1>1, <1>2, <1>4
<1>6. ASSUME NEW r \in LiveOf(t), t \in SubLists PROVE r.ref >= 1 /\ r.ref # 0
  <2>1. r \in rrows /\ r.table = t /\ RowOK(r, rlog, rdone)
    BY DEF LiveOf, RowsOf, ResourceInv, RowsOK
  <2>2. PICK i \in Agg(rlog, rdone, t, r.id) : r.ref = rlog[i].ref
    BY <2>1 DEF RowOK
  <2>3. LogOK(rlog, sversions) /\ rdone \in 0 .. Len(rlog)
    BY DEF ResourceInv, RowsOK
  <2>4. rlog[i].ref >= 1
    BY <1>6, <2>3, OwnerFixed
  <2>5. r.ref \in Nat
    BY <2>1 DEF ResourceInv, RowsOK, ResourceRow
  <2> QED
    BY <2>2, <2>4, <2>5
<1>7. ASSUME NEW id \in w.base
      PROVE  \E r \in LiveOf(t) : r.id = id /\ (t \in SubLists => r.ref = of)
  <2>1. PICK r \in LiveOf(t) : r.id = id /\ of \in {0, r.ref}
    BY <1>5
  <2>2. t \in SubLists => of # 0
    BY <1>1, <1>6 DEF SubLists
  <2> QED
    BY <2>1, <2>2
<1>8. ASSUME NEW id \in w.base
      PROVE  id \in {r.id : r \in ListedRows(t, of)} /\ id > 0
  <2>1. PICK r \in LiveOf(t) : r.id = id /\ (t \in SubLists => r.ref = of)
    BY <1>7
  <2>2. r \in rrows /\ r.table = t /\ r.live
    BY DEF LiveOf, RowsOf
  <2>3. r \in ListedRows(t, of)
    BY <2>1, <2>2, ListedFacts
  <2>4. r.id >= 1 /\ r.id \in Nat
    BY <2>2, RowFacts DEF ResourceRow
  <2> QED
    BY <2>1, <2>3, <2>4
<1>9. ASSUME NEW id \in w.base
      PROVE  \E r \in rrows : r.table = t /\ r.id = id /\ (t \in SubLists => r.ref = of)
  BY <1>7, <1>9 DEF LiveOf, RowsOf
<1>10. ASSUME NEW id \in w.base, w.state = "done" \/ id <= w.cursor
       PROVE  \E k \in 1 .. Len(w.seen) : w.seen[k] = id
  <2>1. p.next = 0 \/ id <= p.next
    BY <1>5, <1>10
  <2> QED
    BY <1>3, <1>5, <1>8, <2>1 DEF PageOK
<1>11. /\ w.cursor \in Nat /\ w.seen \in Seq(Nat) /\ AscendingSeq(w.seen)
       /\ w.state = "walking" => \A k \in 1 .. Len(w.seen) : w.seen[k] <= w.cursor
  BY <1>3, <1>5 DEF PageOK
<1>14. w \in Walk
  <2>1. w.base \in SUBSET Nat
    <3>1. ASSUME NEW r \in LiveOf(t) PROVE r.id \in Nat
      BY DEF LiveOf, RowsOf, ResourceInv, RowsOK, ResourceRow
    <3> QED
      BY <1>5, <3>1
  <2>2. of \in Nat
    <3>1. ASSUME NEW r \in LiveOf(t) PROVE r.ref \in Nat
      BY DEF LiveOf, RowsOf, ResourceInv, RowsOK, ResourceRow
    <3> QED
      BY <1>1, <3>1
  <2>3. p.next \in Nat /\ p.items \in Seq(Nat)
    BY <1>3 DEF PageOK
  <2>4. PICK x, b : x = (IF p.next = 0 THEN "done" ELSE "walking") /\ b = w.base
    OBVIOUS
  <2>5. w = [state |-> x, table |-> t, of |-> of, cursor |-> p.next, seen |-> p.items, base |-> b]
    BY <1>1, <1>2, <1>4, <1>5, <2>4
  <2>6. x \in {"none", "walking", "done", "refused"} /\ b \in SUBSET Nat
    BY <2>1, <2>4
  <2> QED
    BY <2>2, <2>3, <2>5, <2>6 DEF Walk
<1>12. WalkOK(w, rrows)
  BY <1>5, <1>9, <1>10, <1>11, <1>14 DEF WalkOK
<1>13. rrows' = rrows
  BY DEF StartWalk
<1> QED
  BY <1>4, <1>12, <1>13 DEF WalkInv

\* The elements of two sequences, one after the other.
LEMMA Joined ==
    ASSUME NEW a \in Seq(Nat), NEW b \in Seq(Nat)
    PROVE  /\ Len(a) \in Nat /\ Len(b) \in Nat /\ a \o b \in Seq(Nat) /\ Len(a \o b) = Len(a) + Len(b)
           /\ \A k \in 1 .. (Len(a) + Len(b)) : (a \o b)[k] = IF k <= Len(a) THEN a[k] ELSE b[k - Len(a)]
  OBVIOUS

\* A further page.
LEMMA WalkContinues ==
    ASSUME ResourceInv, WalkInv, NextPage
    PROVE  WalkInv'
<1>1. PICK w : w = rwalk
  OBVIOUS
<1>2. PICK p : p = PageOf(w.table, w.of, w.cursor)
  OBVIOUS
<1>3. PICK u : u = rwalk'
  OBVIOUS
<1>4. rrows' = rrows /\ w.state = "walking"
  BY <1>1 DEF NextPage, resourceVars
<1>5. /\ WalkOK(w, rrows) /\ w \in Walk /\ w.table \in Listed
      /\ AscendingSeq(w.seen) /\ (\A k \in 1 .. Len(w.seen) : w.seen[k] <= w.cursor)
  BY <1>1, <1>4 DEF WalkInv, WalkOK
<1>0. w.cursor \in Nat /\ w.seen \in Seq(Nat)
  BY <1>5 DEF Walk
<1>6. CASE ListRefused(w.table, w.of)
  <2>1. u = [w EXCEPT !.state = "refused"]
    BY <1>1, <1>3, <1>6 DEF NextPage
  <2>2. u.state = "refused" /\ u \in Walk
    BY <1>5, <2>1 DEF Walk
  <2>3. WalkOK(u, rrows)
    BY <2>2 DEF WalkOK
  <2> QED
    BY <1>3, <1>4, <2>3 DEF WalkInv
<1>7. CASE ~ListRefused(w.table, w.of)
  <2>1. PICK x, s : x = (IF p.next = 0 THEN "done" ELSE "walking") /\ s = w.seen \o p.items
    OBVIOUS
  <2>2. u = [w EXCEPT !.state = x, !.cursor = p.next, !.seen = s]
    BY <1>1, <1>2, <1>3, <1>7, <2>1 DEF NextPage
  <2>3. /\ u.state = x /\ u.table = w.table /\ u.of = w.of /\ u.cursor = p.next /\ u.seen = s
        /\ u.base = w.base
    BY <1>5, <2>2 DEF Walk
  <2>4. PageOK({r.id : r \in ListedRows(w.table, w.of)}, w.cursor, p)
    BY <1>0, <1>2, <1>5, PageOfOK
  <2>5. /\ p.items \in Seq(Nat) /\ AscendingSeq(p.items) /\ p.next \in Nat
        /\ (\A k \in 1 .. Len(p.items) : p.items[k] > w.cursor)
        /\ p.next # 0 => p.next > w.cursor /\ \A k \in 1 .. Len(p.items) : p.items[k] <= p.next
    BY <2>4 DEF PageOK
  <2>6. PICK m, n : m = Len(w.seen) /\ n = Len(p.items)
    OBVIOUS
  <2>7. /\ m \in Nat /\ n \in Nat /\ s \in Seq(Nat) /\ Len(s) = m + n
        /\ \A k \in 1 .. (m + n) : s[k] = IF k <= m THEN w.seen[k] ELSE p.items[k - m]
    BY <1>0, <2>1, <2>5, <2>6, Joined
  <2>8. \A k \in 1 .. (m + n) : IF k <= m THEN k \in 1 .. m ELSE k - m \in 1 .. n
    BY <2>7
  <2>9. u \in Walk
    <3>1. x \in {"none", "walking", "done", "refused"}
      BY <2>1
    <3> QED
      BY <1>5, <2>2, <2>5, <2>7, <3>1 DEF Walk
  <2>10. ASSUME NEW i \in 1 .. Len(s), NEW j \in 1 .. Len(s), i < j PROVE s[i] < s[j]
    <3>1. CASE j <= m
      <4>1. i \in 1 .. m /\ j \in 1 .. m /\ i <= m
        BY <2>7, <2>10, <3>1
      <4>2. s[i] = w.seen[i] /\ s[j] = w.seen[j]
        BY <2>7, <3>1, <4>1
      <4>3. w.seen[i] < w.seen[j]
        BY <1>5, <2>6, <2>10, <4>1 DEF AscendingSeq
      <4> QED
        BY <4>2, <4>3
    <3>2. CASE ~(i <= m)
      <4>1. i - m \in 1 .. n /\ j - m \in 1 .. n /\ i - m < j - m
        BY <2>7, <2>8, <2>10, <3>2
      <4>2. p.items[i - m] < p.items[j - m]
        BY <2>5, <2>6, <4>1 DEF AscendingSeq
      <4> QED
        BY <2>7, <2>10, <3>2, <4>2
    <3>3. CASE i <= m /\ ~(j <= m)
      <4>1. i \in 1 .. m /\ j - m \in 1 .. n
        BY <2>7, <2>8, <3>3
      <4>4. w.seen[i] <= w.cursor /\ w.seen[i] \in Nat
        BY <1>0, <1>5, <2>6, <4>1
      <4>5. p.items[j - m] > w.cursor /\ p.items[j - m] \in Nat
        <5>1. PICK y : y = j - m
          OBVIOUS
        <5>2. y \in 1 .. n
          BY <4>1, <5>1
        <5>3. p.items[y] > w.cursor
          BY <2>5, <2>6, <5>2
        <5>4. p.items[y] \in Nat
          BY <2>5, <2>6, <5>2
        <5> QED
          BY <5>1, <5>3, <5>4
      <4>2. w.seen[i] <= w.cursor /\ p.items[j - m] > w.cursor /\ w.seen[i] \in Nat /\ p.items[j - m] \in Nat
        BY <4>4, <4>5
      <4>3. s[i] = w.seen[i] /\ s[j] = p.items[j - m]
        BY <2>7, <3>3
      <4> QED
        BY <1>0, <4>2, <4>3
    <3> QED
      BY <2>7, <2>10, <3>1, <3>2, <3>3
  <2>11. ASSUME u.state = "walking", NEW k \in 1 .. Len(s) PROVE s[k] <= u.cursor
    <3>1. p.next # 0
      BY <2>1, <2>3, <2>11
    <3>2. CASE k <= m
      <4>1. k \in 1 .. m /\ s[k] = w.seen[k]
        BY <2>7, <2>8, <3>2
      <4>2. w.seen[k] <= w.cursor /\ w.seen[k] \in Nat
        BY <1>0, <1>5, <2>6, <4>1
      <4> QED
        BY <1>0, <2>3, <2>5, <3>1, <4>1, <4>2
    <3>3. CASE ~(k <= m)
      <4>1. k - m \in 1 .. n /\ s[k] = p.items[k - m]
        BY <2>7, <2>8, <3>3
      <4> QED
        BY <2>3, <2>5, <2>6, <3>1, <4>1
    <3> QED
      BY <3>2, <3>3
  <2>12. ASSUME NEW id \in w.base
         PROVE  \E r \in rrows : r.table = w.table /\ r.id = id /\ (w.table \in SubLists => r.ref = w.of)
    BY <1>4, <1>5 DEF WalkOK
  <2>13. ASSUME NEW id \in w.base, NEW r \in rrows, r.table = w.table, r.id = id, r.live,
                u.state = "done" \/ id <= u.cursor
         PROVE  \E k \in 1 .. Len(s) : s[k] = id
    <3>1. id \in Nat
      BY <1>5 DEF Walk
    <3>2. CASE id <= w.cursor
      <4>1. PICK k \in 1 .. m : w.seen[k] = id
        BY <1>4, <1>5, <2>6, <2>13, <3>2 DEF WalkOK
      <4>2. k \in 1 .. (m + n) /\ k <= m
        BY <2>7
      <4> QED
        BY <2>7, <4>1, <4>2
    <3>3. CASE ~(id <= w.cursor)
      <4>1. PICK q \in rrows : q.table = w.table /\ q.id = id /\ (w.table \in SubLists => q.ref = w.of)
        BY <2>12
      <4>2. q = r
        BY <2>13, <4>1 DEF ResourceInv, RowsOK
      <4>3. r \in ListedRows(w.table, w.of)
        BY <1>5, <2>13, <4>1, <4>2, ListedFacts
      <4>4. id > w.cursor /\ (p.next = 0 \/ id <= p.next)
        BY <1>0, <2>1, <2>3, <2>13, <3>1, <3>3
      <4>5. id \in {y.id : y \in ListedRows(w.table, w.of)}
        BY <2>13, <4>3
      <4>6. PICK k \in 1 .. n : p.items[k] = id
        BY <2>4, <2>6, <4>4, <4>5 DEF PageOK
      <4>7. k + m \in 1 .. (m + n) /\ ~(k + m <= m) /\ (k + m) - m = k
        BY <2>7
      <4>8. s[k + m] = id
        BY <2>7, <4>6, <4>7
      <4> QED
        BY <2>7, <4>7, <4>8
    <3> QED
      BY <3>2, <3>3
  <2>14. WalkOK(u, rrows)
    <3>1. AscendingSeq(u.seen)
      BY <2>3, <2>10 DEF AscendingSeq
    <3>2. \A id \in u.base : \E r \in rrows :
             r.table = u.table /\ r.id = id /\ (u.table \in SubLists => r.ref = u.of)
      BY <2>3, <2>12
    <3>3. \A id \in u.base : \A r \in rrows :
             r.table = u.table /\ r.id = id /\ r.live /\ (u.state = "done" \/ id <= u.cursor) =>
                \E k \in 1 .. Len(u.seen) : u.seen[k] = id
      BY <2>3, <2>13
    <3>4. u.state = "walking" => \A k \in 1 .. Len(u.seen) : u.seen[k] <= u.cursor
      BY <2>3, <2>11
    <3> QED
      BY <1>5, <2>3, <2>9, <3>1, <3>2, <3>3, <3>4 DEF WalkOK
  <2> QED
    BY <1>3, <1>4, <2>14 DEF WalkInv
<1> QED
  BY <1>6, <1>7

\* What the projections do to the rows a walk has to return.
LEMMA WalkKept ==
    ASSUME ResourceInv, ResourceInv', WalkInv, ProjectResource
    PROVE  WalkInv'
<1>1. PICK w : w = rwalk
  OBVIOUS
<1>2. PICK R, n : R = rrows' /\ n = rdone'
  OBVIOUS
<1>3. rwalk' = w /\ rlog' = rlog /\ n = rdone + 1 /\ sversions' = sversions
  BY <1>1, <1>2 DEF ProjectResource
<1>4. /\ LogOK(rlog, sversions) /\ RowsOK(rrows, rlog, rdone) /\ RowsOK(R, rlog, n)
      /\ rdone \in Nat /\ n \in 0 .. Len(rlog) /\ rdone <= n
  BY <1>2, <1>3 DEF ResourceInv, RowsOK
<1>5. WalkOK(w, rrows)
  BY <1>1 DEF WalkInv
<1>6. ASSUME NEW r \in rrows, r.table # "bundle"
      PROVE  \E q \in R :
                /\ q.table = r.table /\ q.id = r.id /\ (q.live => r.live)
                /\ r.table \in SubLists => q.ref = r.ref
  <2>1. RowOK(r, rlog, rdone)
    BY <1>4 DEF RowsOK
  <2>2. PICK i \in 1 .. rdone : rlog[i].table = r.table /\ rlog[i].id = r.id /\ rlog[i].kind = "created"
    BY <2>1 DEF RowOK, Born
  <2>3. i \in 1 .. n
    BY <1>4
  <2>4. PICK q \in R : q.table = r.table /\ q.id = r.id
    BY <1>4, <2>2, <2>3 DEF RowsOK
  <2>5. RowOK(q, rlog, n)
    BY <1>4 DEF RowsOK
  <2>6. Gone(rlog, rdone, r.table, r.id) => Gone(rlog, n, r.table, r.id)
    <3>1. \A k \in 1 .. rdone : k \in 1 .. n
      BY <1>4
    <3> QED
      BY <3>1 DEF Gone
  <2>7. q.live => r.live
    <3>1. q.live = ~Gone(rlog, n, r.table, r.id) /\ r.live = ~Gone(rlog, rdone, r.table, r.id)
      BY <2>1, <2>4, <2>5 DEF RowOK
    <3> QED
      BY <2>6, <3>1
  <2>8. ASSUME r.table \in SubLists PROVE q.ref = r.ref
    <3>1. PICK j \in Agg(rlog, rdone, r.table, r.id) : r.ref = rlog[j].ref
      BY <2>1 DEF RowOK
    <3>2. PICK k \in Agg(rlog, n, r.table, r.id) : q.ref = rlog[k].ref
      BY <2>4, <2>5 DEF RowOK
    <3>3. j \in Agg(rlog, n, r.table, r.id)
      BY <1>4 DEF Agg
    <3>4. rlog[j].ref = rlog[k].ref
      BY <1>4, <2>8, <3>3, OwnerFixed
    <3> QED
      BY <3>1, <3>2, <3>4
  <2> QED
    BY <2>4, <2>7, <2>8
<1>7. ASSUME w.state \in {"walking", "done"}, NEW id \in w.base
      PROVE  /\ \E r \in R : r.table = w.table /\ r.id = id /\ (w.table \in SubLists => r.ref = w.of)
             /\ \A r \in R : r.table = w.table /\ r.id = id /\ r.live /\ (w.state = "done" \/ id <= w.cursor) =>
                   \E k \in 1 .. Len(w.seen) : w.seen[k] = id
  <2>1. PICK r \in rrows : r.table = w.table /\ r.id = id /\ (w.table \in SubLists => r.ref = w.of)
    BY <1>5, <1>7 DEF WalkOK
  <2>2. w.table \in Listed
    BY <1>5, <1>7 DEF WalkOK
  <2>3. r.table # "bundle"
    BY <2>1, <2>2 DEF Listed
  <2>4. PICK q \in R :
             /\ q.table = r.table /\ q.id = r.id /\ (q.live => r.live)
             /\ r.table \in SubLists => q.ref = r.ref
    <3>1. \A z \in rrows : z.table # "bundle" => \E q \in R :
             /\ q.table = z.table /\ q.id = z.id /\ (q.live => z.live)
             /\ z.table \in SubLists => q.ref = z.ref
      BY <1>6
    <3> QED
      BY <2>3, <3>1, Zenon
  <2>5. ASSUME NEW y \in R, y.table = w.table, y.id = id, y.live, w.state = "done" \/ id <= w.cursor
        PROVE  \E k \in 1 .. Len(w.seen) : w.seen[k] = id
    <3>1. y = q
      BY <1>4, <2>1, <2>4, <2>5 DEF RowsOK
    <3>2. r.live
      BY <2>4, <2>5, <3>1
    <3> QED
      BY <1>5, <1>7, <2>1, <2>5, <3>2 DEF WalkOK
  <2>6. \E x \in R : x.table = w.table /\ x.id = id /\ (w.table \in SubLists => x.ref = w.of)
    BY <2>1, <2>4
  <2> QED
    BY <2>5, <2>6
<1>8. WalkOK(w, R)
  BY <1>5, <1>7 DEF WalkOK
<1> QED
  BY <1>2, <1>3, <1>8 DEF WalkInv

\* A walk that has not begun has missed nothing.
LEMMA NotWalkingOK == \A R : WalkOK(NotWalking, R)
<1>1. NotWalking.state = "none" /\ NotWalking \in Walk
  BY DEF NotWalking, Walk
<1> QED
  BY <1>1 DEF WalkOK

\* A handler's step leaves the views and the walk alone.
LEMMA HandlersLeaveViews ==
    ASSUME NEW c, \/ OrgNext(c) \/ ProjectNext(c) \/ AppNext(c) \/ RouteNext(c) \/ VolumeNext(c)
                  \/ SecretNext(c) \/ Abandon(c) \/ AppendBatch(c, LogBound) \/ RefuseNumber(c)
                  \/ AnswerRequest(c)
    PROVE  rrows' = rrows
<1>1. CASE OrgNext(c)
  BY <1>1 DEF OrgNext, CreateOrg, UpdateOrg, CreateMember, LoadMember, LoadMemberToDelete, CountOwners, Proceed
<1>2. CASE ProjectNext(c)
  BY <1>2 DEF ProjectNext, CreateProject, LoadProject, CheckProjectName, Proceed
<1>3. CASE AppNext(c)
  BY <1>3 DEF AppNext, CreateApp, LoadApp, CheckAppName, DeleteApp, CreateRelease, Proceed
<1>4. CASE RouteNext(c)
  BY <1>4 DEF RouteNext, CreateRoute, UpdateRoute, DeleteRoute, Proceed
<1>5. CASE VolumeNext(c)
  BY <1>5 DEF VolumeNext, CreateVolume, LoadVolumeToDelete, CreateSnapshot, NumberDelete, RestoreVolume,
              CreateAttachment, LoadAttachmentToDelete, Proceed
<1>6. CASE SecretNext(c)
  BY <1>6 DEF SecretNext, LoadBundle, NumberBundle, StoreSecretMaterial, MaterialRefused, Proceed
<1>7. CASE Abandon(c) \/ AppendBatch(c, LogBound) \/ RefuseNumber(c) \/ AnswerRequest(c)
  BY <1>7 DEF Abandon, AppendBatch, RefuseNumber, AnswerRequest
<1> QED
  BY <1>1, <1>2, <1>3, <1>4, <1>5, <1>6, <1>7

\* Every step keeps the walk complete.
LEMMA WalkNextPreserves ==
    ASSUME ResourceInv, ResourceInv', WalkInv, [ResourceNext]_rvars
    PROVE  WalkInv'
<1>1. ASSUME rrows' = rrows, rwalk' = rwalk PROVE WalkInv'
  BY <1>1 DEF WalkInv
<1>2. ASSUME NEW c \in Handlers, EndWalk(c) PROVE WalkInv'
  BY <1>2, NotWalkingOK DEF EndWalk, WalkInv
<1>3. ASSUME NEW c \in Handlers, NEW t \in Listed, StartWalk(c, t) PROVE WalkInv'
  BY <1>3, WalkStarts
<1>4. ASSUME NextPage PROVE WalkInv'
  BY <1>4, WalkContinues
<1>5. ASSUME ProjectResource PROVE WalkInv'
  BY <1>5, WalkKept
<1>6. ASSUME ProjectRefused \/ RestartWorker PROVE WalkInv'
  BY <1>1, <1>6 DEF ProjectRefused, RestartWorker
<1>7. ASSUME DeleteEnvOf(LogBound), UNCHANGED rwalk PROVE WalkInv'
  BY <1>1, <1>7 DEF DeleteEnvOf
<1>8. ASSUME NEW c \in Handlers, UNCHANGED rwalk,
             \/ OrgNext(c) \/ ProjectNext(c) \/ AppNext(c) \/ RouteNext(c) \/ VolumeNext(c)
             \/ SecretNext(c) \/ Abandon(c) \/ AppendBatch(c, LogBound) \/ RefuseNumber(c)
             \/ AnswerRequest(c)
      PROVE  WalkInv'
  BY <1>1, <1>8, HandlersLeaveViews
<1>9. ASSUME UNCHANGED rvars PROVE WalkInv'
  BY <1>1, <1>9 DEF rvars
<1> QED
  BY <1>2, <1>3, <1>4, <1>5, <1>6, <1>7, <1>8, <1>9 DEF ResourceNext

\* A finished walk of a list has returned every row that was there when it began and still is,
\* and nothing twice, for any size of the pages and whatever the handlers and the projections did
\* between them (PagesComplete; the cursor conditions of the list_* handlers).
THEOREM WalksMissNothing == ResourceSpec => []PagesComplete
<1>1. ResourceInit => WalkInv
  BY NotWalkingOK DEF ResourceInit, WalkInv
<1>2. ResourceInv /\ ResourceInv' /\ WalkInv /\ [ResourceNext]_rvars => WalkInv'
  BY WalkNextPreserves
<1>3. WalkInv => PagesComplete
  <2>1. SUFFICES ASSUME WalkInv, rwalk.state = "done"
                 PROVE  /\ \A i, j \in 1 .. Len(rwalk.seen) : i < j => rwalk.seen[i] < rwalk.seen[j]
                        /\ \A id \in rwalk.base : (\E r \in LiveOf(rwalk.table) : r.id = id)
                             => \E i \in 1 .. Len(rwalk.seen) : rwalk.seen[i] = id
    BY DEF PagesComplete
  <2>2. \A i, j \in 1 .. Len(rwalk.seen) : i < j => rwalk.seen[i] < rwalk.seen[j]
    BY <2>1 DEF WalkInv, WalkOK, AscendingSeq
  <2>3. \A id \in rwalk.base : (\E r \in LiveOf(rwalk.table) : r.id = id)
           => \E i \in 1 .. Len(rwalk.seen) : rwalk.seen[i] = id
    BY <2>1 DEF WalkInv, WalkOK, LiveOf, RowsOf
  <2> QED
    BY <2>2, <2>3
<1> QED
  BY <1>1, <1>2, <1>3, ResourceInvariant, PTL DEF ResourceSpec

----------------------------------------------------------------------------
(* Owners.                                                                    *)

\* Event i is the last of its aggregate.
LastAt(L, i) == \A j \in 1 .. Len(L) : L[j].table = L[i].table /\ L[j].id = L[i].id => j <= i

\* Event i leaves its member an owner.
OwnerAt(L, i) ==
    L[i].table = "member" /\ L[i].kind # "deleted" /\ L[i].attr = "owner" /\ LastAt(L, i)

\* Organization o has an owner; one that is not member a.
HasOwner(L, o) == \E i \in 1 .. Len(L) : OwnerAt(L, i) /\ L[i].ref = o
HasOther(L, o, a) == \E i \in 1 .. Len(L) : OwnerAt(L, i) /\ L[i].ref = o /\ L[i].id # a

\* A handler is about to change or remove a member.
Leaving(q) == q.phase = "checked" /\ q.batch[1].table = "member" /\ q.batch[1].kind # "created"

\* Its member is no owner, or its number is taken.
Harmless(L, q) ==
    q.seq = Cardinality(Agg(L, Len(L), "member", q.batch[1].id)) + 1 =>
        \A i \in 1 .. Len(L) : OwnerAt(L, i) => L[i].id # q.batch[1].id

\* A handler that may take an owner away leaves another, and is the only one.
OwnersKept(L, Q) ==
    /\ \A j \in 1 .. Len(L) : L[j].table = "org" /\ L[j].kind = "created" => HasOwner(L, L[j].id)
    /\ \A c \in Handlers : Leaving(Q[c]) =>
          Harmless(L, Q[c]) \/ HasOther(L, Q[c].batch[1].ref, Q[c].batch[1].id)
    /\ \A c, d \in Handlers : c # d /\ Leaving(Q[c]) /\ Leaving(Q[d]) =>
          Harmless(L, Q[c]) \/ Harmless(L, Q[d])

\* The role of a member's row is the one its last applied event gave.
RolesOK(R, L, n) ==
    \A r \in R : r.table = "member" /\ r.live =>
        \E i \in Agg(L, n, "member", r.id) :
            L[i].attr = r.attr /\ L[i].kind # "deleted" /\ \A j \in Agg(L, n, "member", r.id) : j <= i

OwnersRaced == <<"owner", None>> \in rraced

OwnersInv == RolesOK(rrows, rlog, rdone) /\ (OwnersRaced \/ OwnersKept(rlog, rreq))

\* An owner stays one as long as nothing happens to it.
LEMMA OwnerStays ==
    ASSUME NEW L, NEW M, Continues(L, M), NEW i \in 1 .. Len(L), OwnerAt(L, i),
           \A j \in (Len(L) + 1) .. Len(M) : M[j].table = "member" => M[j].id # L[i].id
    PROVE  i \in 1 .. Len(M) /\ M[i] = L[i] /\ OwnerAt(M, i)
<1>1. Len(L) \in Nat /\ Len(M) \in Nat /\ Len(L) <= Len(M) /\ \A j \in 1 .. Len(L) : M[j] = L[j]
  BY DEF Continues
<1>2. i \in 1 .. Len(M) /\ M[i] = L[i]
  BY <1>1
<1>3. ASSUME NEW j \in 1 .. Len(M), M[j].table = M[i].table, M[j].id = M[i].id PROVE j <= i
  <2>1. M[i].table = "member"
    BY <1>2 DEF OwnerAt
  <2>2. j \in 1 .. Len(L)
    BY <1>1, <1>2, <1>3, <2>1
  <2> QED
    BY <1>1, <1>2, <1>3, <2>2 DEF OwnerAt, LastAt
<1> QED
  BY <1>2, <1>3 DEF OwnerAt, LastAt

\* What was the last event is the last event of a shorter log.
LEMMA OwnerWas ==
    ASSUME NEW L, NEW M, Continues(L, M), NEW i \in 1 .. Len(L), OwnerAt(M, i)
    PROVE  OwnerAt(L, i)
<1>1. Len(L) \in Nat /\ Len(M) \in Nat /\ Len(L) <= Len(M) /\ \A j \in 1 .. Len(L) : M[j] = L[j]
  BY DEF Continues
<1>2. M[i] = L[i] /\ \A j \in 1 .. Len(L) : j \in 1 .. Len(M) /\ M[j] = L[j]
  BY <1>1
<1> QED
  BY <1>2 DEF OwnerAt, LastAt

\* A handler that takes no owner away takes none later, or loses its number.
LEMMA HarmlessStays ==
    ASSUME NEW L, NEW M, Continues(L, M), NEW q, q.seq \in Nat,
           q.seq <= Cardinality(Agg(L, Len(L), "member", q.batch[1].id)) + 1, Harmless(L, q)
    PROVE  Harmless(M, q)
<1>1. SUFFICES ASSUME q.seq = Cardinality(Agg(M, Len(M), "member", q.batch[1].id)) + 1,
                      NEW i \in 1 .. Len(M), OwnerAt(M, i)
               PROVE  M[i].id # q.batch[1].id
  BY DEF Harmless
<1>2. PICK a : a = q.batch[1].id
  OBVIOUS
<1>3. Len(L) \in Nat /\ Len(M) \in Nat /\ Len(L) <= Len(M) /\ \A j \in 1 .. Len(L) : M[j] = L[j]
  BY DEF Continues
<1>4. /\ Cardinality(Agg(L, Len(L), "member", a)) \in Nat
      /\ Cardinality(Agg(M, Len(M), "member", a)) \in Nat
  BY <1>3, AggFinite
<1>5. /\ Cardinality(Agg(L, Len(L), "member", a)) <= Cardinality(Agg(M, Len(M), "member", a))
      /\ Cardinality(Agg(L, Len(L), "member", a)) = Cardinality(Agg(M, Len(M), "member", a)) =>
            Agg(L, Len(L), "member", a) = Agg(M, Len(M), "member", a)
  BY LongerLog
<1>6. Cardinality(Agg(L, Len(L), "member", a)) = Cardinality(Agg(M, Len(M), "member", a))
  BY <1>1, <1>2, <1>4, <1>5
<1>7. q.seq = Cardinality(Agg(L, Len(L), "member", a)) + 1
  BY <1>1, <1>2, <1>6
<1>8. SUFFICES ASSUME M[i].id = a PROVE FALSE
  BY <1>2
<1>9. i \in Agg(M, Len(M), "member", a)
  BY <1>1, <1>8 DEF Agg, OwnerAt
<1>10. i \in 1 .. Len(L)
  BY <1>5, <1>6, <1>9 DEF Agg
<1>11. OwnerAt(L, i)
  BY <1>1, <1>10, OwnerWas
<1>12. L[i].id = a
  BY <1>3, <1>8, <1>10
<1> QED
  BY <1>2, <1>7, <1>10, <1>11, <1>12 DEF Harmless

\* The first events of the batches.
LEMMA BatchHeads ==
    ASSUME NEW k, NEW s, NEW v, NEW n
    PROVE  /\ OrgWithOwner(k)[1].table = "org"
           /\ RestoreBatch(s)[1].table = "restore"
           /\ VersionSet(Ev("bundle", "created", 0, SecretEnv, 0, v), n)[1].table = "bundle"
<1>1. OrgWithOwner(k)[1] = Ev("org", "created", -1, None, 0, None)
  BY DEF OrgWithOwner
<1>2. RestoreBatch(s)[1] = Ev("restore", "created", -1, None, s.id, "queued")
  BY DEF RestoreBatch
<1>3. PICK e : e = Ev("bundle", "created", 0, SecretEnv, 0, v)
  OBVIOUS
<1>4. e.kind = "created"
  BY <1>3 DEF Ev
<1>5. VersionSet(e, n)[1] = Ev("bundle", "created", n, e.key, 0, None)
  BY <1>4 DEF VersionSet
<1>6. /\ Ev("org", "created", -1, None, 0, None).table = "org"
      /\ Ev("restore", "created", -1, None, s.id, "queued").table = "restore"
      /\ Ev("bundle", "created", n, e.key, 0, None).table = "bundle"
  BY DEF Ev
<1> QED
  BY <1>1, <1>2, <1>3, <1>5, <1>6

\* What a handler that changes or removes a member holds.
LEMMA LeavingFacts ==
    ASSUME ResourceInv, NEW c \in Handlers, Leaving(rreq[c])
    PROVE  LET e == rreq[c].batch[1] IN
           /\ rreq[c].batch = <<e>> /\ e \in ResourceEvent
           /\ Existing(rlog, sversions, e, rreq[c].seq, "checked") /\ rreq[c].seq \in Nat
           /\ rreq[c].seq <= Cardinality(Agg(rlog, Len(rlog), "member", e.id)) + 1
           /\ \A i \in Agg(rlog, Len(rlog), "member", e.id) : rlog[i].ref = e.ref
<1>1. PICK q : q = rreq[c]
  OBVIOUS
<1>2. q.phase = "checked" /\ q.batch[1].table = "member" /\ q.batch[1].kind # "created"
  BY <1>1 DEF Leaving
<1>3. Pending(rlog, sversions, q) /\ q.seq \in Nat
  BY <1>1, <1>2 DEF ResourceInv, RequestOK, ResourceRequest
<1>4. ~\E e \in ResourceEvent : q.batch = <<e>> /\ Fresh(rlog, e)
  BY <1>2 DEF Fresh
<1>5. ~\E k \in Keys : q.batch = OrgWithOwner(k)
  BY <1>2, BatchHeads
<1>6. ~\E s \in ResourceRow : q.batch = RestoreBatch(s)
  BY <1>2, BatchHeads
<1>7. ~\E n \in Nat \ {0}, v \in Values : q.batch = VersionSet(Ev("bundle", "created", 0, SecretEnv, 0, v), n)
  BY <1>2, BatchHeads
<1>8. PICK e \in ResourceEvent : q.batch = <<e>> /\ Existing(rlog, sversions, e, q.seq, q.phase)
  BY <1>2, <1>3, <1>4, <1>5, <1>6, <1>7 DEF Pending
<1>9. q.batch[1] = e
  BY <1>8
<1>10. e.table = "member"
  BY <1>2, <1>9
<1> QED
  BY <1>1, <1>2, <1>3, <1>8, <1>9, <1>10 DEF Existing

\* Events that leave the members there alone.
LEMMA QuietAppend ==
    ASSUME ResourceInv, OwnersKept(rlog, rreq), NEW M, Continues(rlog, M), NEW Q,
           \A d \in Handlers : Q[d] = rreq[d] \/ ~Leaving(Q[d]),
           \A j \in (Len(rlog) + 1) .. Len(M) : M[j].table = "member" => M[j].id > Len(rlog),
           \A j \in (Len(rlog) + 1) .. Len(M) :
              M[j].table = "org" /\ M[j].kind = "created" => HasOwner(M, M[j].id)
    PROVE  OwnersKept(M, Q)
<1>1. /\ Len(rlog) \in Nat /\ Len(M) \in Nat /\ Len(rlog) <= Len(M) /\ LogOK(rlog, sversions)
      /\ rlog \in Seq(Logged) /\ M \in Seq(Logged)
      /\ \A i \in 1 .. Len(rlog) : M[i] = rlog[i]
  BY DEF Continues, ResourceInv, LogOK
<1>2. ASSUME NEW i \in 1 .. Len(rlog), OwnerAt(rlog, i)
      PROVE  i \in 1 .. Len(M) /\ M[i] = rlog[i] /\ OwnerAt(M, i)
  <2>1. rlog[i].table = "member" /\ rlog[i].table # "bundle"
    BY <1>2 DEF OwnerAt
  <2>2. rlog[i].id <= i /\ rlog[i].id \in Int
    <3>1. rlog[i] \in Logged
      BY <1>1
    <3>2. rlog[i].id \in Int
      BY <3>1 DEF Logged, ResourceEvent
    <3> QED
      BY <1>1, <2>1, <3>2, NamesArePositions
  <2>3. ASSUME NEW j \in (Len(rlog) + 1) .. Len(M), M[j].table = "member" PROVE M[j].id # rlog[i].id
    <3>1. M[j].id > Len(rlog)
      BY <2>3
    <3> QED
      BY <1>1, <2>2, <3>1
  <2> QED
    BY <1>2, <2>3, OwnerStays
<1>3. ASSUME NEW j \in 1 .. Len(M), M[j].table = "org", M[j].kind = "created" PROVE HasOwner(M, M[j].id)
  <2>1. CASE j \in 1 .. Len(rlog)
    <3>1. HasOwner(rlog, M[j].id)
      BY <1>1, <1>3, <2>1 DEF OwnersKept
    <3> QED
      BY <1>2, <3>1 DEF HasOwner
  <2>2. CASE j \notin 1 .. Len(rlog)
    <3>1. j \in (Len(rlog) + 1) .. Len(M)
      BY <1>1, <2>2
    <3> QED
      BY <1>3, <3>1
  <2> QED
    BY <2>1, <2>2
<1>4. ASSUME NEW d \in Handlers, Leaving(Q[d]), Harmless(rlog, rreq[d])
      PROVE  Harmless(M, Q[d])
  <2>1. Q[d] = rreq[d]
    BY <1>4
  <2>2. /\ rreq[d].seq \in Nat
        /\ rreq[d].seq <= Cardinality(Agg(rlog, Len(rlog), "member", rreq[d].batch[1].id)) + 1
    BY <1>4, <2>1, LeavingFacts
  <2> QED
    BY <1>4, <2>1, <2>2, HarmlessStays
<1>5. ASSUME NEW d \in Handlers, Leaving(Q[d])
      PROVE  Harmless(M, Q[d]) \/ HasOther(M, Q[d].batch[1].ref, Q[d].batch[1].id)
  <2>1. Q[d] = rreq[d]
    BY <1>5
  <2>2. Harmless(rlog, rreq[d]) \/ HasOther(rlog, rreq[d].batch[1].ref, rreq[d].batch[1].id)
    BY <1>5, <2>1 DEF OwnersKept
  <2>3. ASSUME HasOther(rlog, rreq[d].batch[1].ref, rreq[d].batch[1].id)
        PROVE  HasOther(M, Q[d].batch[1].ref, Q[d].batch[1].id)
    BY <1>2, <2>1, <2>3 DEF HasOther
  <2> QED
    BY <1>4, <1>5, <2>2, <2>3
<1>6. ASSUME NEW c \in Handlers, NEW d \in Handlers, c # d, Leaving(Q[c]), Leaving(Q[d])
      PROVE  Harmless(M, Q[c]) \/ Harmless(M, Q[d])
  <2>1. Q[c] = rreq[c] /\ Q[d] = rreq[d]
    BY <1>6
  <2>2. Harmless(rlog, rreq[c]) \/ Harmless(rlog, rreq[d])
    BY <1>6, <2>1 DEF OwnersKept
  <2> QED
    BY <1>4, <1>6, <2>2
<1> QED
  BY <1>3, <1>5, <1>6 DEF OwnersKept

\* The event of a member, numbered as the next one.
LEMMA MemberAppend ==
    ASSUME ResourceInv, OwnersKept(rlog, rreq), NEW M, Continues(rlog, M), NEW Q, NEW c \in Handlers,
           Leaving(rreq[c]), ~Leaving(Q[c]), \A d \in Handlers \ {c} : Q[d] = rreq[d],
           Len(M) = Len(rlog) + 1, M[Len(rlog) + 1].table = "member",
           M[Len(rlog) + 1].id = rreq[c].batch[1].id,
           rreq[c].seq = Cardinality(Agg(rlog, Len(rlog), "member", rreq[c].batch[1].id)) + 1
    PROVE  OwnersKept(M, Q)
<1>1. PICK e : e = rreq[c].batch[1]
  OBVIOUS
<1>2. PICK n : n = Len(rlog)
  OBVIOUS
<1>3. /\ n \in Nat /\ Len(M) = n + 1 /\ (\A i \in 1 .. n : M[i] = rlog[i]) /\ M[n + 1].table = "member"
      /\ M[n + 1].id = e.id
  BY <1>1, <1>2 DEF Continues
<1>4. \A i \in Agg(rlog, n, "member", e.id) : rlog[i].ref = e.ref
  BY <1>1, <1>2, LeavingFacts
<1>5. ASSUME NEW i \in 1 .. n, OwnerAt(rlog, i), rlog[i].id # e.id
      PROVE  i \in 1 .. Len(M) /\ M[i] = rlog[i] /\ OwnerAt(M, i)
  <2>1. \A j \in (Len(rlog) + 1) .. Len(M) : j = n + 1
    BY <1>2, <1>3
  <2>2. \A j \in (Len(rlog) + 1) .. Len(M) : M[j].table = "member" => M[j].id # rlog[i].id
    BY <1>3, <1>5, <2>1
  <2> QED
    BY <1>2, <1>5, <2>2, OwnerStays
<1>6. Harmless(rlog, rreq[c]) => \A i \in 1 .. n : OwnerAt(rlog, i) => rlog[i].id # e.id
  BY <1>1, <1>2 DEF Harmless
<1>7. Harmless(rlog, rreq[c]) \/ HasOther(rlog, e.ref, e.id)
  BY <1>1 DEF OwnersKept
<1>8. ASSUME NEW o, HasOwner(rlog, o) PROVE HasOwner(M, o)
  <2>1. PICK i \in 1 .. n : OwnerAt(rlog, i) /\ rlog[i].ref = o
    BY <1>2, <1>8 DEF HasOwner
  <2>2. CASE rlog[i].id # e.id
    BY <1>5, <2>1, <2>2 DEF HasOwner
  <2>3. CASE rlog[i].id = e.id
    <3>1. i \in Agg(rlog, n, "member", e.id)
      BY <2>1, <2>3 DEF Agg, OwnerAt
    <3>2. o = e.ref
      BY <1>4, <2>1, <3>1
    <3>3. HasOther(rlog, e.ref, e.id)
      BY <1>6, <1>7, <2>1, <2>3
    <3>4. PICK j \in 1 .. n : OwnerAt(rlog, j) /\ rlog[j].ref = e.ref /\ rlog[j].id # e.id
      BY <1>2, <3>3 DEF HasOther
    <3> QED
      BY <1>5, <3>2, <3>4 DEF HasOwner
  <2> QED
    BY <2>2, <2>3
<1>9. ASSUME NEW j \in 1 .. Len(M), M[j].table = "org", M[j].kind = "created" PROVE HasOwner(M, M[j].id)
  <2>1. j \in 1 .. n
    BY <1>3, <1>9
  <2>2. HasOwner(rlog, M[j].id)
    BY <1>2, <1>3, <1>9, <2>1 DEF OwnersKept
  <2> QED
    BY <1>8, <2>2
<1>10. ASSUME NEW d \in Handlers, Leaving(Q[d]) PROVE d # c /\ Q[d] = rreq[d] /\ Leaving(rreq[d])
  BY <1>10
<1>11. ASSUME NEW d \in Handlers, Leaving(Q[d]), Harmless(rlog, rreq[d]) PROVE Harmless(M, Q[d])
  <2>1. Q[d] = rreq[d] /\ Leaving(rreq[d])
    BY <1>10, <1>11
  <2>2. /\ rreq[d].seq \in Nat
        /\ rreq[d].seq <= Cardinality(Agg(rlog, Len(rlog), "member", rreq[d].batch[1].id)) + 1
    BY <2>1, LeavingFacts
  <2> QED
    BY <1>11, <2>1, <2>2, HarmlessStays
<1>12. ASSUME NEW d \in Handlers, Leaving(Q[d])
       PROVE  Harmless(M, Q[d]) \/ HasOther(M, Q[d].batch[1].ref, Q[d].batch[1].id)
  <2>1. d # c /\ Q[d] = rreq[d] /\ Leaving(rreq[d])
    BY <1>10, <1>12
  <2>2. CASE Harmless(rlog, rreq[d])
    BY <1>11, <1>12, <2>2
  <2>3. CASE ~Harmless(rlog, rreq[d])
    <3>1. Harmless(rlog, rreq[c]) /\ HasOther(rlog, rreq[d].batch[1].ref, rreq[d].batch[1].id)
      BY <2>1, <2>3 DEF OwnersKept
    <3>2. PICK i \in 1 .. n : /\ OwnerAt(rlog, i) /\ rlog[i].ref = rreq[d].batch[1].ref
                              /\ rlog[i].id # rreq[d].batch[1].id
      BY <1>2, <3>1 DEF HasOther
    <3>3. rlog[i].id # e.id
      BY <1>6, <3>1, <3>2
    <3>4. i \in 1 .. Len(M) /\ M[i] = rlog[i] /\ OwnerAt(M, i)
      BY <1>5, <3>2, <3>3
    <3> QED
      BY <2>1, <3>2, <3>4 DEF HasOther
  <2> QED
    BY <2>2, <2>3
<1>13. ASSUME NEW b \in Handlers, NEW d \in Handlers, b # d, Leaving(Q[b]), Leaving(Q[d])
       PROVE  Harmless(M, Q[b]) \/ Harmless(M, Q[d])
  <2>1. Leaving(rreq[b]) /\ Leaving(rreq[d])
    BY <1>10, <1>13
  <2>2. Harmless(rlog, rreq[b]) \/ Harmless(rlog, rreq[d])
    BY <1>13, <2>1 DEF OwnersKept
  <2> QED
    BY <1>11, <1>13, <2>2
<1> QED
  BY <1>9, <1>12, <1>13 DEF OwnersKept

----------------------------------------------------------------------------
(* Keys: names, emails, hostnames, mount paths, the bundle of an environment. *)

\* The tables with a unique index.
Keyed == {"app", "project", "route", "attachment", "bundle", "member"}

\* The event gives its aggregate a key.
SetsKey(e) ==
    \/ e.kind = "created"
    \/ e.kind = "updated" /\ (e.table = "project" \/ (e.table = "app" /\ e.key # None))

\* After the first n events, event i is the one its aggregate, not deleted, has its key from.
HoldsAt(L, n, i) ==
    /\ SetsKey(L[i]) /\ ~Gone(L, n, L[i].table, L[i].id)
    /\ \A j \in 1 .. n : L[j].table = L[i].table /\ L[j].id = L[i].id /\ SetsKey(L[j]) => j <= i

\* Two aggregates cannot both have their key from these events.
Meet(e, f) ==
    /\ e.table = f.table /\ e.key = f.key /\ e.id # f.id
    /\ e.table = "member" => e.ref = f.ref

\* If event m sets key k of table t, nothing else had it.
Entered(L, m, t, k) ==
    SetsKey(L[m]) /\ L[m].table = t /\ L[m].key = k =>
        \A i \in 1 .. (m - 1) : HoldsAt(L, m - 1, i) => ~Meet(L[m], L[i])

\* A handler is about to append an event that sets key k of table t.
Claims(q, t, k) ==
    /\ q.phase \in {"numbered", "checked"}
    /\ q.batch[1].table = t /\ q.batch[1].key = k /\ SetsKey(q.batch[1])

\* Nothing else has the key.
Free(L, e) == \A i \in 1 .. Len(L) : HoldsAt(L, Len(L), i) => ~Meet(e, L[i])

\* Its aggregate has the key already, or its number is taken.
Keeps(L, q) ==
    /\ q.batch[1].kind = "updated"
    /\ q.seq = Cardinality(Agg(L, Len(L), q.batch[1].table, q.batch[1].id)) + 1 =>
          \E i \in 1 .. Len(L) : HoldsAt(L, Len(L), i) /\ L[i].table = q.batch[1].table
                                   /\ L[i].id = q.batch[1].id /\ L[i].key = q.batch[1].key

\* A key that was never raced for was free whenever it was set, and will be.
KeyOK(L, Q, t, k) ==
    /\ \A m \in 1 .. Len(L) : Entered(L, m, t, k)
    /\ \A c \in Handlers : Claims(Q[c], t, k) => Free(L, Q[c].batch[1]) \/ Keeps(L, Q[c])
    /\ \A c, d \in Handlers : c # d /\ Claims(Q[c], t, k) /\ Claims(Q[d], t, k) =>
          Keeps(L, Q[c]) \/ Keeps(L, Q[d])

\* A live row has the key of the event its aggregate has it from.
RowKeysOK(R, L, n) ==
    \A r \in R : r.table \in Keyed /\ r.live => \E i \in 1 .. n :
        HoldsAt(L, n, i) /\ L[i].table = r.table /\ L[i].id = r.id /\ L[i].key = r.key

KeysInv ==
    /\ RowKeysOK(rrows, rlog, rdone)
    /\ \A r, s \in rrows : ~Clashes(r, s)
    /\ \A t \in Keyed, k \in Keys \cup {None} : <<t, k>> \in rraced \/ KeyOK(rlog, rreq, t, k)

\* What holds a key in a longer prefix, or a longer log, held it before.
LEMMA HeldBefore ==
    ASSUME NEW L, NEW m \in Nat, NEW n \in Nat, m <= n, NEW i \in 1 .. m, HoldsAt(L, n, i)
    PROVE  HoldsAt(L, m, i)
<1>1. \A j \in 1 .. m : j \in 1 .. n
  OBVIOUS
<1>2. ~Gone(L, m, L[i].table, L[i].id)
  BY <1>1 DEF HoldsAt, Gone
<1> QED
  BY <1>1, <1>2 DEF HoldsAt

\* What a prefix holds depends on the prefix only.
LEMMA HeldSame ==
    ASSUME NEW L, NEW M, NEW n \in Nat, \A j \in 1 .. n : M[j] = L[j], NEW i \in 1 .. n
    PROVE  HoldsAt(M, n, i) <=> HoldsAt(L, n, i)
<1>1. M[i] = L[i] /\ \A t, a : Gone(M, n, t, a) <=> Gone(L, n, t, a)
  BY DEF Gone
<1> QED
  BY <1>1 DEF HoldsAt

\* So no two have it.
LEMMA HeldOnce ==
    ASSUME NEW L, NEW t, NEW k, NEW n \in Nat, \A m \in 1 .. n : Entered(L, m, t, k),
           NEW i \in 1 .. n, NEW j \in 1 .. n, HoldsAt(L, n, i), HoldsAt(L, n, j),
           L[i].table = t, L[i].key = k
    PROVE  ~Meet(L[i], L[j])
<1>1. SUFFICES ASSUME Meet(L[i], L[j]) PROVE FALSE
  OBVIOUS
<1>2. L[j].table = t /\ L[j].key = k /\ Meet(L[j], L[i]) /\ i # j
  BY <1>1 DEF Meet
<1>3. SetsKey(L[i]) /\ SetsKey(L[j])
  BY DEF HoldsAt
<1>4. CASE i < j
  <2>1. j - 1 \in Nat /\ j - 1 <= n /\ i \in 1 .. (j - 1)
    BY <1>4
  <2>2. HoldsAt(L, j - 1, i)
    BY <2>1, HeldBefore
  <2> QED
    BY <1>2, <1>3, <2>1, <2>2 DEF Entered
<1>5. CASE j < i
  <2>1. i - 1 \in Nat /\ i - 1 <= n /\ j \in 1 .. (i - 1)
    BY <1>5
  <2>2. HoldsAt(L, i - 1, j)
    BY <2>1, HeldBefore
  <2> QED
    BY <1>1, <1>3, <2>1, <2>2 DEF Entered
<1> QED
  BY <1>2, <1>4, <1>5

\* A handler that keeps a key keeps it, or loses its number.
LEMMA KeepsStays ==
    ASSUME NEW L, NEW M, Continues(L, M), NEW q, q.seq \in Nat, q.batch[1].table # "bundle",
           q.seq <= Cardinality(Agg(L, Len(L), q.batch[1].table, q.batch[1].id)) + 1, Keeps(L, q)
    PROVE  Keeps(M, q)
<1>0. PICK t, a, k : t = q.batch[1].table /\ a = q.batch[1].id /\ k = q.batch[1].key
  OBVIOUS
<1>1. SUFFICES ASSUME q.seq = Cardinality(Agg(M, Len(M), t, a)) + 1
               PROVE  \E i \in 1 .. Len(M) : HoldsAt(M, Len(M), i) /\ M[i].table = t /\ M[i].id = a /\ M[i].key = k
  BY <1>0 DEF Keeps
<1>3. Len(L) \in Nat /\ Len(M) \in Nat /\ Len(L) <= Len(M) /\ \A j \in 1 .. Len(L) : M[j] = L[j]
  BY DEF Continues
<1>4. Cardinality(Agg(L, Len(L), t, a)) \in Nat /\ Cardinality(Agg(M, Len(M), t, a)) \in Nat
  BY <1>3, AggFinite
<1>5. /\ Cardinality(Agg(L, Len(L), t, a)) <= Cardinality(Agg(M, Len(M), t, a))
      /\ Cardinality(Agg(L, Len(L), t, a)) = Cardinality(Agg(M, Len(M), t, a)) =>
            Agg(L, Len(L), t, a) = Agg(M, Len(M), t, a)
  BY LongerLog
<1>6. Cardinality(Agg(L, Len(L), t, a)) = Cardinality(Agg(M, Len(M), t, a))
  BY <1>0, <1>1, <1>4, <1>5
<1>7. Agg(L, Len(L), t, a) = Agg(M, Len(M), t, a)
  BY <1>5, <1>6
<1>8. PICK i \in 1 .. Len(L) : HoldsAt(L, Len(L), i) /\ L[i].table = t /\ L[i].id = a /\ L[i].key = k
  BY <1>0, <1>1, <1>6 DEF Keeps
<1>9. i \in 1 .. Len(M) /\ M[i] = L[i]
  BY <1>3
<1>10. \A j \in 1 .. Len(M) : M[j].table = t /\ M[j].id = a => j \in 1 .. Len(L) /\ L[j] = M[j]
  <2>1. ASSUME NEW j \in 1 .. Len(M), M[j].table = t, M[j].id = a PROVE j \in 1 .. Len(L) /\ L[j] = M[j]
    <3>1. j \in Agg(L, Len(L), t, a)
      BY <1>7, <2>1 DEF Agg
    <3>2. j \in 1 .. Len(L)
      BY <3>1 DEF Agg
    <3> QED
      BY <1>3, <3>2
  <2> QED
    BY <2>1
<1>11. ~Gone(M, Len(M), t, a)
  BY <1>8, <1>10 DEF HoldsAt, Gone
<1>12. HoldsAt(M, Len(M), i)
  BY <1>8, <1>9, <1>10, <1>11 DEF HoldsAt
<1> QED
  BY <1>8, <1>9, <1>12

\* The keys of the rows, from the events.
LEMMA RowKeysFollow ==
    ASSUME NEW V, LogOK(rlog, V), RowsOK(rrows, rlog, rdone), rdone < Len(rlog),
           RowKeysOK(rrows, rlog, rdone)
    PROVE  RowKeysOK(ViewsAfter(rlog[rdone + 1]), rlog, rdone + 1)
<1>1. PICK e : e = rlog[rdone + 1]
  OBVIOUS
<1>2. PICK n : n = rdone
  OBVIOUS
<1>3. /\ n \in Nat /\ n + 1 \in 1 .. Len(rlog) /\ rrows \subseteq ResourceRow /\ rlog[n + 1] = e
      /\ rlog \in Seq(Logged) /\ e \in Logged
  BY <1>1, <1>2 DEF RowsOK, LogOK
<1>4. /\ EventOK(rlog, n + 1, V)
      /\ e.kind = "created" => /\ ViewsAfter(e) = rrows \cup {Inserted(e)}
                               /\ \A r \in rrows : ~(r.table = e.table /\ r.id = e.id)
      /\ e.kind # "created" => ViewsAfter(e) = {RowAfter(r, e) : r \in rrows}
  BY <1>1, <1>2, NextViews
<1>5. e.kind \in {"created", "updated", "deleted"}
  BY <1>3 DEF Logged, ResourceEvent
<1>6. ASSUME NEW r \in rrows, r.table \in Keyed, r.live, ~(r.table = e.table /\ r.id = e.id)
      PROVE  \E i \in 1 .. (n + 1) : /\ HoldsAt(rlog, n + 1, i) /\ rlog[i].table = r.table
                                     /\ rlog[i].id = r.id /\ rlog[i].key = r.key
  <2>1. PICK i \in 1 .. n : /\ HoldsAt(rlog, n, i) /\ rlog[i].table = r.table
                            /\ rlog[i].id = r.id /\ rlog[i].key = r.key
    BY <1>2, <1>6 DEF RowKeysOK
  <2>2. Gone(rlog, n + 1, r.table, r.id) <=> Gone(rlog, n, r.table, r.id)
    BY <1>3, <1>6, OneMore
  <2>3. \A j \in 1 .. (n + 1) : rlog[j].table = r.table /\ rlog[j].id = r.id => j \in 1 .. n
    BY <1>3, <1>6
  <2>4. HoldsAt(rlog, n + 1, i)
    BY <2>1, <2>2, <2>3 DEF HoldsAt
  <2>5. i \in 1 .. (n + 1)
    BY <1>3
  <2> QED
    BY <2>1, <2>4, <2>5
<1>7. ASSUME SetsKey(e), ~Gone(rlog, n + 1, e.table, e.id) PROVE HoldsAt(rlog, n + 1, n + 1)
  <2>1. \A j \in 1 .. (n + 1) : j <= n + 1
    BY <1>3
  <2> QED
    BY <1>3, <1>7, <2>1 DEF HoldsAt
<1>8. n + 1 \in 1 .. (n + 1)
  BY <1>3
<1>9. ASSUME NEW r \in ViewsAfter(e), r.table \in Keyed, r.live
      PROVE  \E i \in 1 .. (n + 1) : /\ HoldsAt(rlog, n + 1, i) /\ rlog[i].table = r.table
                                     /\ rlog[i].id = r.id /\ rlog[i].key = r.key
  <2>0. RowsOK(ViewsAfter(e), rlog, n + 1)
    BY <1>1, <1>2, RowsFollow
  <2>00. ~Gone(rlog, n + 1, r.table, r.id)
    BY <1>9, <2>0 DEF RowsOK, RowOK
  <2>1. CASE e.kind = "created"
    <3>1. CASE r \in rrows
      BY <1>4, <1>6, <1>9, <2>1, <3>1
    <3>2. CASE r \notin rrows
      <4>1. r = Inserted(e)
        BY <1>4, <1>9, <2>1, <3>2
      <4>2. r.table = e.table /\ r.id = e.id /\ r.key = e.key
        BY <1>3, <4>1, InsertedIsRow
      <4>3. SetsKey(e)
        BY <2>1 DEF SetsKey
      <4>4. HoldsAt(rlog, n + 1, n + 1)
        BY <1>7, <2>00, <4>2, <4>3
      <4> QED
        BY <1>3, <1>8, <4>2, <4>4
    <3> QED
      BY <3>1, <3>2
  <2>2. CASE e.kind # "created"
    <3>1. PICK s \in rrows : r = RowAfter(s, e)
      BY <1>4, <1>9, <2>2
    <3>2. CASE ~(s.table = e.table /\ s.id = e.id)
      <4>1. r = s
        BY <3>1, <3>2 DEF RowAfter
      <4> QED
        BY <1>6, <1>9, <3>2, <4>1
    <3>3. CASE s.table = e.table /\ s.id = e.id
      <4>1. r = Applied(s, e)
        BY <3>1, <3>3 DEF RowAfter
      <4>2. /\ r.table = s.table /\ r.id = s.id /\ r.live = (s.live /\ e.kind # "deleted")
            /\ r.key = IF e.table = "project" \/ (e.table = "app" /\ e.kind = "updated" /\ e.key # None)
                       THEN e.key ELSE s.key
        BY <1>3, <4>1, AppliedIsRow
      <4>3. s.live /\ e.kind # "deleted"
        BY <1>9, <4>2
      <4>4. e.kind = "updated"
        BY <1>5, <2>2, <4>3
      <4>5. CASE SetsKey(e)
        <5>1. r.key = e.key
          BY <2>2, <4>2, <4>5 DEF SetsKey
        <5>2. HoldsAt(rlog, n + 1, n + 1)
          BY <1>7, <2>00, <3>3, <4>2, <4>5
        <5> QED
          BY <1>3, <1>8, <3>3, <4>2, <5>1, <5>2
      <4>6. CASE ~SetsKey(e)
        <5>1. r.key = s.key
          BY <4>2, <4>4, <4>6 DEF SetsKey
        <5>2. PICK i \in 1 .. n : /\ HoldsAt(rlog, n, i) /\ rlog[i].table = s.table
                                  /\ rlog[i].id = s.id /\ rlog[i].key = s.key
          BY <1>2, <1>9, <4>2, <4>3 DEF RowKeysOK
        <5>3. \A j \in 1 .. (n + 1) : SetsKey(rlog[j]) => j \in 1 .. n
          BY <1>3, <4>6
        <5>4. HoldsAt(rlog, n + 1, i)
          BY <2>00, <4>2, <5>2, <5>3 DEF HoldsAt
        <5>5. i \in 1 .. (n + 1)
          BY <1>3
        <5> QED
          BY <4>2, <5>1, <5>2, <5>4, <5>5
      <4> QED
        BY <4>5, <4>6
    <3> QED
      BY <3>2, <3>3
  <2> QED
    BY <2>1, <2>2
<1> QED
  BY <1>1, <1>2, <1>9 DEF RowKeysOK

\* The roles of the rows, from the events.
LEMMA RolesFollow ==
    ASSUME NEW V, LogOK(rlog, V), RowsOK(rrows, rlog, rdone), rdone < Len(rlog),
           RolesOK(rrows, rlog, rdone)
    PROVE  RolesOK(ViewsAfter(rlog[rdone + 1]), rlog, rdone + 1)
<1>1. PICK e : e = rlog[rdone + 1]
  OBVIOUS
<1>2. PICK n : n = rdone
  OBVIOUS
<1>3. /\ n \in Nat /\ n + 1 \in 1 .. Len(rlog) /\ rrows \subseteq ResourceRow /\ rlog[n + 1] = e
      /\ rlog \in Seq(Logged) /\ e \in Logged
  BY <1>1, <1>2 DEF RowsOK, LogOK
<1>4. /\ e.kind = "created" => /\ ViewsAfter(e) = rrows \cup {Inserted(e)}
                               /\ \A r \in rrows : ~(r.table = e.table /\ r.id = e.id)
      /\ e.kind # "created" => ViewsAfter(e) = {RowAfter(r, e) : r \in rrows}
  BY <1>1, <1>2, NextViews
<1>5. e.kind \in {"created", "updated", "deleted"}
  BY <1>3 DEF Logged, ResourceEvent
<1>6. ASSUME NEW r \in rrows, r.table = "member", r.live, ~(r.table = e.table /\ r.id = e.id)
      PROVE  \E i \in Agg(rlog, n + 1, "member", r.id) :
                /\ rlog[i].attr = r.attr /\ rlog[i].kind # "deleted"
                /\ \A j \in Agg(rlog, n + 1, "member", r.id) : j <= i
  <2>1. Agg(rlog, n + 1, "member", r.id) = Agg(rlog, n, "member", r.id)
    BY <1>3, <1>6, OneMore
  <2> QED
    BY <1>2, <1>6, <2>1 DEF RolesOK
<1>7. ASSUME NEW r, r.table = "member", r.table = e.table, r.id = e.id, r.attr = e.attr, e.kind # "deleted"
      PROVE  \E i \in Agg(rlog, n + 1, "member", r.id) :
                /\ rlog[i].attr = r.attr /\ rlog[i].kind # "deleted"
                /\ \A j \in Agg(rlog, n + 1, "member", r.id) : j <= i
  <2>1. n + 1 \in Agg(rlog, n + 1, "member", r.id) /\ \A j \in Agg(rlog, n + 1, "member", r.id) : j <= n + 1
    BY <1>3, <1>7 DEF Agg
  <2> QED
    BY <1>3, <1>7, <2>1
<1>9. ASSUME NEW r \in ViewsAfter(e), r.table = "member", r.live
      PROVE  \E i \in Agg(rlog, n + 1, "member", r.id) :
                /\ rlog[i].attr = r.attr /\ rlog[i].kind # "deleted"
                /\ \A j \in Agg(rlog, n + 1, "member", r.id) : j <= i
  <2>1. CASE e.kind = "created"
    <3>1. CASE r \in rrows
      BY <1>4, <1>6, <1>9, <2>1, <3>1
    <3>2. CASE r \notin rrows
      <4>1. r = Inserted(e)
        BY <1>4, <1>9, <2>1, <3>2
      <4>2. r.table = e.table /\ r.id = e.id /\ r.attr = e.attr
        BY <1>3, <4>1, InsertedIsRow
      <4> QED
        BY <1>7, <1>9, <2>1, <4>2
    <3> QED
      BY <3>1, <3>2
  <2>2. CASE e.kind # "created"
    <3>1. PICK s \in rrows : r = RowAfter(s, e)
      BY <1>4, <1>9, <2>2
    <3>2. CASE ~(s.table = e.table /\ s.id = e.id)
      <4>1. r = s
        BY <3>1, <3>2 DEF RowAfter
      <4> QED
        BY <1>6, <1>9, <3>2, <4>1
    <3>3. CASE s.table = e.table /\ s.id = e.id
      <4>1. r = Applied(s, e)
        BY <3>1, <3>3 DEF RowAfter
      <4>2. /\ r.table = s.table /\ r.id = s.id /\ r.live = (s.live /\ e.kind # "deleted")
            /\ r.attr = IF e.table \in {"restore", "bundle"} \/ (e.table = "member" /\ e.kind = "updated")
                        THEN e.attr ELSE s.attr
        BY <1>3, <4>1, AppliedIsRow
      <4>3. s.live /\ e.kind # "deleted"
        BY <1>9, <4>2
      <4>4. e.kind = "updated" /\ e.table = "member"
        BY <1>5, <1>9, <2>2, <3>3, <4>2, <4>3
      <4>5. r.attr = e.attr
        BY <4>2, <4>4
      <4> QED
        BY <1>7, <1>9, <3>3, <4>2, <4>3, <4>5
    <3> QED
      BY <3>2, <3>3
  <2> QED
    BY <2>1, <2>2
<1> QED
  BY <1>1, <1>2, <1>9 DEF RolesOK

----------------------------------------------------------------------------
(* What an append adds to the log.                                            *)

\* The event of an aggregate that is there; of a new one.
AddsExisting(q, L, M) ==
    LET e == q.batch[1]
        f == M[Len(L) + 1]
    IN  /\ Len(M) = Len(L) + 1
        /\ e.kind # "created" /\ f.kind = e.kind /\ f.table = e.table /\ f.key = e.key /\ f.id = e.id
        /\ q.seq = Cardinality(Agg(L, Len(L), e.table, e.id)) + 1

AddsFresh(q, L, M) ==
    LET e == q.batch[1]
        f == M[Len(L) + 1]
    IN  /\ Len(M) = Len(L) + 1
        /\ e.kind = "created" /\ f.kind = e.kind /\ f.table = e.table /\ f.key = e.key
        /\ f.ref = e.ref /\ e.id = -1 /\ f.id = Len(L) + 1 /\ f.table # "org"

AddsOrg(L, M) ==
    /\ Len(M) = Len(L) + 2
    /\ M[Len(L) + 1].table = "org" /\ M[Len(L) + 1].id = Len(L) + 1
    /\ M[Len(L) + 2].table = "member" /\ M[Len(L) + 2].kind = "created"
    /\ M[Len(L) + 2].id = Len(L) + 2 /\ M[Len(L) + 2].ref = Len(L) + 1
    /\ M[Len(L) + 2].attr = "owner"

AddsRestore(L, M) == \A i \in (Len(L) + 1) .. Len(M) : M[i].table \in {"restore", "volume"}

AddsBundle(q, L, M) ==
    LET e == q.batch[1]
        f == M[Len(L) + 1]
    IN  /\ Len(M) = Len(L) + 2
        /\ e.kind = "created" /\ f.kind = e.kind /\ f.table = e.table /\ f.key = e.key /\ f.id = e.id
        /\ e.table = "bundle" /\ M[Len(L) + 2].table = "bundle" /\ M[Len(L) + 2].kind = "updated"

\* The next event of an aggregate.
LEMMA AppendsExisting ==
    ASSUME ResourceInv, NEW c \in Handlers, NEW bound, AppendBatch(c, bound),
           NEW e \in ResourceEvent, rreq[c].batch = <<e>>, Existing(rlog, sversions, e, rreq[c].seq, "checked")
    PROVE  AddsExisting(rreq[c], rlog, rlog')
<1>1. PICK n : n = Len(rlog)
  OBVIOUS
<1>2. /\ n \in Nat /\ Len(rlog') = n + Len(<<e>>)
      /\ \A i \in 1 .. Len(<<e>>) : rlog'[n + i] = NamedEvent((<<e>>)[i], n)
      /\ (<<e>>)[1].id > 0 => rreq[c].seq = Cardinality(Agg(rlog, n, (<<e>>)[1].table, (<<e>>)[1].id)) + 1
  BY <1>1, AppendedLog
<1>3. PICK f : f = NamedEvent(e, n)
  OBVIOUS
<1>4. Len(rlog') = n + 1 /\ rlog'[n + 1] = f
  BY <1>2, <1>3
<1>5. /\ f.table = e.table /\ f.kind = e.kind /\ f.id = Named(e.id, n) /\ f.key = e.key
  BY <1>2, <1>3, NamedFacts
<1>6. e.id \in Int /\ e.id >= 1 /\ e.kind # "created"
  BY DEF Existing, ResourceEvent
<1>7. f.id = e.id
  BY <1>2, <1>5, <1>6 DEF Named
<1>8. rreq[c].seq = Cardinality(Agg(rlog, n, e.table, e.id)) + 1
  BY <1>2, <1>6
<1>9. rreq[c].batch[1] = e
  OBVIOUS
<1> QED
  BY <1>1, <1>4, <1>5, <1>6, <1>7, <1>8, <1>9 DEF AddsExisting

\* The event of a new aggregate.
LEMMA AppendsFresh ==
    ASSUME ResourceInv, NEW c \in Handlers, NEW bound, AppendBatch(c, bound),
           NEW e \in ResourceEvent, rreq[c].batch = <<e>>, Fresh(rlog, e)
    PROVE  AddsFresh(rreq[c], rlog, rlog')
<1>1. PICK n : n = Len(rlog)
  OBVIOUS
<1>2. /\ n \in Nat /\ Len(rlog') = n + Len(<<e>>)
      /\ \A i \in 1 .. Len(<<e>>) : rlog'[n + i] = NamedEvent((<<e>>)[i], n)
  BY <1>1, AppendedLog
<1>3. PICK f : f = NamedEvent(e, n)
  OBVIOUS
<1>4. Len(rlog') = n + 1 /\ rlog'[n + 1] = f
  BY <1>2, <1>3
<1>5. /\ f.table = e.table /\ f.kind = e.kind /\ f.id = Named(e.id, n) /\ f.key = e.key
      /\ f.ref = Named(e.ref, n)
  BY <1>2, <1>3, NamedFacts
<1>6. f.id = n + 1 /\ f.ref = e.ref /\ e.kind = "created" /\ e.id = -1 /\ e.table # "org"
  BY <1>2, <1>5 DEF Fresh, Named, ResourceEvent
<1>9. rreq[c].batch[1] = e
  OBVIOUS
<1> QED
  BY <1>1, <1>4, <1>5, <1>6, <1>9 DEF AddsFresh

\* An organization with its owner.
LEMMA AppendsOrg ==
    ASSUME ResourceInv, NEW c \in Handlers, NEW bound, AppendBatch(c, bound),
           NEW k \in Keys, rreq[c].batch = OrgWithOwner(k)
    PROVE  AddsOrg(rlog, rlog')
<1>1. PICK n : n = Len(rlog)
  OBVIOUS
<1>2. PICK b : b = OrgWithOwner(k)
  OBVIOUS
<1>3. PICK e : e = Ev("org", "created", -1, None, 0, None)
  OBVIOUS
<1>4. PICK f : f = Ev("member", "created", -2, k, -1, "owner")
  OBVIOUS
<1>5. /\ e \in ResourceEvent /\ e.table = "org" /\ e.id = -1
      /\ f \in ResourceEvent /\ f.table = "member" /\ f.kind = "created" /\ f.id = -2 /\ f.ref = -1
      /\ f.attr = "owner"
  BY <1>3, <1>4 DEF Ev, ResourceEvent, Tables, Roles
<1>6. Len(b) = 2 /\ b[1] = e /\ b[2] = f
  BY <1>2, <1>3, <1>4 DEF OrgWithOwner
<1>7. /\ n \in Nat /\ Len(rlog') = n + Len(b)
      /\ \A i \in 1 .. Len(b) : rlog'[n + i] = NamedEvent(b[i], n)
  BY <1>1, <1>2, AppendedLog
<1>8. Len(rlog') = n + 2 /\ rlog'[n + 1] = NamedEvent(e, n) /\ rlog'[n + 2] = NamedEvent(f, n)
  BY <1>6, <1>7
<1>9. PICK g, h : g = NamedEvent(e, n) /\ h = NamedEvent(f, n)
  OBVIOUS
<1>10. g.table = "org" /\ g.id = Named(e.id, n)
  BY <1>5, <1>7, <1>9, NamedFacts
<1>11. h.table = "member" /\ h.kind = "created" /\ h.attr = "owner" /\ h.id = Named(f.id, n) /\ h.ref = Named(f.ref, n)
  BY <1>5, <1>7, <1>9, NamedFacts
<1>12. Named(e.id, n) = n + 1 /\ Named(f.id, n) = n + 2 /\ Named(f.ref, n) = n + 1
  BY <1>5, <1>7 DEF Named
<1> QED
  BY <1>1, <1>8, <1>9, <1>10, <1>11, <1>12 DEF AddsOrg

\* A restore and the volume it makes.
LEMMA AppendsRestore ==
    ASSUME ResourceInv, NEW c \in Handlers, NEW bound, AppendBatch(c, bound),
           NEW s \in ResourceRow, rreq[c].batch = RestoreBatch(s)
    PROVE  AddsRestore(rlog, rlog')
<1>1. PICK n : n = Len(rlog)
  OBVIOUS
<1>2. PICK b : b = RestoreBatch(s)
  OBVIOUS
<1>3. b \in Seq(ResourceEvent) /\ n \in Nat /\ Len(rlog') = n + Len(b)
  BY <1>1, <1>2, AppendedLog
<1>4. \A i \in 1 .. Len(b) : rlog'[n + i] = NamedEvent(b[i], n)
  BY <1>1, <1>2, AppendedLog
<1>5. PICK e, f, g : /\ e = Ev("restore", "created", -1, None, s.id, "queued")
                     /\ f = Ev("volume", "created", -2, None, 0, None)
                     /\ g = Ev("restore", "updated", -1, None, -2, "succeeded")
  OBVIOUS
<1>6. e.table = "restore" /\ f.table = "volume" /\ g.table = "restore"
  BY <1>5 DEF Ev
<1>7. Len(b) = 3 /\ b[1] = e /\ b[2] = f /\ b[3] = g
  BY <1>2, <1>5 DEF RestoreBatch
<1>8. ASSUME NEW i \in 1 .. Len(b) PROVE rlog'[n + i].table \in {"restore", "volume"}
  <2>0. i = 1 \/ i = 2 \/ i = 3
    BY <1>7
  <2>1. b[i] \in ResourceEvent /\ b[i].table \in {"restore", "volume"}
    <3>1. b[i] \in ResourceEvent
      BY <1>3
    <3>2. b[i] = e \/ b[i] = f \/ b[i] = g
      BY <1>7, <2>0
    <3> QED
      BY <1>6, <3>1, <3>2
  <2>2. NamedEvent(b[i], n).table = b[i].table
    BY <1>3, <2>1, NamedFacts
  <2> QED
    BY <1>4, <2>1, <2>2
<1>9. ASSUME NEW i \in (n + 1) .. (n + Len(b)) PROVE rlog'[i].table \in {"restore", "volume"}
  <2>1. i - n \in 1 .. Len(b) /\ n + (i - n) = i
    BY <1>3, <1>7
  <2> QED
    BY <1>8, <2>1
<1> QED
  BY <1>1, <1>3, <1>9 DEF AddsRestore

\* A bundle and its first version.
LEMMA AppendsBundle ==
    ASSUME ResourceInv, NEW c \in Handlers, NEW bound, AppendBatch(c, bound),
           NEW m \in Nat \ {0}, NEW v \in Values,
           rreq[c].batch = VersionSet(Ev("bundle", "created", 0, SecretEnv, 0, v), m)
    PROVE  AddsBundle(rreq[c], rlog, rlog')
<1>1. PICK n : n = Len(rlog)
  OBVIOUS
<1>2. PICK b : b = rreq[c].batch
  OBVIOUS
<1>3. PICK e : e = Ev("bundle", "created", m, SecretEnv, 0, None)
  OBVIOUS
<1>4. PICK f : f = Ev("bundle", "updated", m, SecretEnv, m, v)
  OBVIOUS
<1>5. /\ e \in ResourceEvent /\ e.table = "bundle" /\ e.kind = "created" /\ e.id = m
      /\ f \in ResourceEvent /\ f.table = "bundle" /\ f.kind = "updated"
  BY <1>3, <1>4, SecretEnvIsKey DEF Ev, ResourceEvent, Tables
<1>6. Len(b) = 2 /\ b[1] = e /\ b[2] = f
  <2>1. VersionSet(Ev("bundle", "created", 0, SecretEnv, 0, v), m) = <<e, f>>
    BY <1>3, <1>4 DEF VersionSet, Ev
  <2> QED
    BY <1>2, <2>1
<1>7. /\ n \in Nat /\ Len(rlog') = n + Len(b)
      /\ \A i \in 1 .. Len(b) : rlog'[n + i] = NamedEvent(b[i], n)
  BY <1>1, <1>2, AppendedLog
<1>8. Len(rlog') = n + 2 /\ rlog'[n + 1] = NamedEvent(e, n) /\ rlog'[n + 2] = NamedEvent(f, n)
  BY <1>6, <1>7
<1>9. PICK g, h : g = NamedEvent(e, n) /\ h = NamedEvent(f, n)
  OBVIOUS
<1>10. g.table = e.table /\ g.kind = e.kind /\ g.key = e.key /\ g.id = Named(e.id, n)
  BY <1>5, <1>7, <1>9, NamedFacts
<1>11. h.table = "bundle" /\ h.kind = "updated"
  BY <1>5, <1>7, <1>9, NamedFacts
<1>12. Named(e.id, n) = e.id
  BY <1>5, <1>7 DEF Named
<1> QED
  BY <1>1, <1>2, <1>5, <1>6, <1>8, <1>9, <1>10, <1>11, <1>12 DEF AddsBundle

\* What a handler can append.
LEMMA AppendShapes ==
    ASSUME ResourceInv, NEW c \in Handlers, NEW bound, AppendBatch(c, bound), UNCHANGED sversions
    PROVE  /\ Continues(rlog, rlog') /\ rreq[c].phase = "checked"
           /\ \/ AddsExisting(rreq[c], rlog, rlog') \/ AddsFresh(rreq[c], rlog, rlog')
              \/ AddsOrg(rlog, rlog') \/ AddsRestore(rlog, rlog') \/ AddsBundle(rreq[c], rlog, rlog')
<1>1. rreq[c].phase = "checked" /\ Pending(rlog, sversions, rreq[c])
  BY AppendedLog
<1>2. Continues(rlog, rlog')
  <2>1. PICK M : M = rlog'
    OBVIOUS
  <2>2. PICK b : b = rreq[c].batch
    OBVIOUS
  <2>3. /\ b \in Seq(ResourceEvent) /\ Len(rlog) \in Nat /\ Len(M) = Len(rlog) + Len(b)
        /\ \A i \in 1 .. Len(rlog) : M[i] = rlog[i]
    BY <2>1, <2>2, AppendedLog
  <2>4. ResourceInv'
    BY AppendPreservesAll
  <2>5. rlog \in Seq(Logged) /\ M \in Seq(Logged)
    BY <2>1, <2>4 DEF ResourceInv, LogOK
  <2>6. Len(rlog) <= Len(M)
    BY <2>3
  <2> QED
    BY <2>1, <2>3, <2>5, <2>6 DEF Continues
<1>3. CASE \E e \in ResourceEvent : rreq[c].batch = <<e>> /\ Fresh(rlog, e)
  BY <1>1, <1>2, <1>3, AppendsFresh
<1>4. CASE \E k \in Keys : rreq[c].batch = OrgWithOwner(k)
  BY <1>1, <1>2, <1>4, AppendsOrg
<1>5. CASE \E s \in ResourceRow : Born(rlog, Len(rlog), "snapshot", s.id) /\ rreq[c].batch = RestoreBatch(s)
  BY <1>1, <1>2, <1>5, AppendsRestore
<1>6. CASE \E e \in ResourceEvent :
              rreq[c].batch = <<e>> /\ Existing(rlog, sversions, e, rreq[c].seq, rreq[c].phase)
  BY <1>1, <1>2, <1>6, AppendsExisting
<1>7. CASE rreq[c].seq = 1 /\ \E n \in Nat \ {0}, v \in Values :
              /\ Stored(sversions, n, n, v)
              /\ rreq[c].batch = VersionSet(Ev("bundle", "created", 0, SecretEnv, 0, v), n)
  BY <1>1, <1>2, <1>7, AppendsBundle
<1> QED
  BY <1>1, <1>3, <1>4, <1>5, <1>6, <1>7 DEF Pending

----------------------------------------------------------------------------
(* Appends.                                                                   *)

\* The handler that appends holds nothing any more.
LEMMA AppenderWaits ==
    ASSUME ResourceInv, NEW c \in Handlers, NEW bound, AppendBatch(c, bound)
    PROVE  /\ rreq'[c].phase = "waiting" /\ \A d \in Handlers \ {c} : rreq'[d] = rreq[d]
           /\ UNCHANGED <<rdone, rrows, rraced>>
<1>1. rreq \in [Handlers -> ResourceRequest]
  BY DEF ResourceInv
<1>2. PICK q : q.phase = "waiting" /\ rreq' = [rreq EXCEPT ![c] = q]
  BY DEF AppendBatch
<1> QED
  BY <1>1, <1>2 DEF AppendBatch

\* Whatever is appended, the organizations keep their owners.
LEMMA OwnersAppend ==
    ASSUME ResourceInv, OwnersKept(rlog, rreq), NEW c \in Handlers, NEW bound, AppendBatch(c, bound),
           UNCHANGED sversions
    PROVE  OwnersKept(rlog', rreq')
<1>1. PICK M : M = rlog'
  OBVIOUS
<1>2. PICK Q : Q = rreq'
  OBVIOUS
<1>3. PICK n : n = Len(rlog)
  OBVIOUS
<1>0. SUFFICES OwnersKept(M, Q)
  BY <1>1, <1>2
<1>4. /\ Continues(rlog, M) /\ rreq[c].phase = "checked"
      /\ \/ AddsExisting(rreq[c], rlog, M) \/ AddsFresh(rreq[c], rlog, M)
         \/ AddsOrg(rlog, M) \/ AddsRestore(rlog, M) \/ AddsBundle(rreq[c], rlog, M)
  BY <1>1, AppendShapes
<1>5. ~Leaving(Q[c]) /\ \A d \in Handlers \ {c} : Q[d] = rreq[d]
  BY <1>2, AppenderWaits DEF Leaving
<1>6. \A d \in Handlers : Q[d] = rreq[d] \/ ~Leaving(Q[d])
  BY <1>5
<1>7. n \in Nat
  BY <1>3, <1>4 DEF Continues
<1>8. ASSUME \A j \in (n + 1) .. Len(M) : M[j].table # "member" /\ ~(M[j].table = "org" /\ M[j].kind = "created")
      PROVE  OwnersKept(M, Q)
  <2>1. /\ \A j \in (Len(rlog) + 1) .. Len(M) : M[j].table = "member" => M[j].id > Len(rlog)
        /\ \A j \in (Len(rlog) + 1) .. Len(M) :
              M[j].table = "org" /\ M[j].kind = "created" => HasOwner(M, M[j].id)
    BY <1>3, <1>8
  <2> QED
    BY <1>4, <1>6, <2>1, QuietAppend
<1>9. CASE AddsExisting(rreq[c], rlog, M)
  <2>1. /\ Len(M) = n + 1 /\ M[n + 1].kind # "created" /\ rreq[c].batch[1].kind # "created"
        /\ M[n + 1].table = rreq[c].batch[1].table /\ M[n + 1].id = rreq[c].batch[1].id
        /\ rreq[c].seq = Cardinality(Agg(rlog, n, M[n + 1].table, rreq[c].batch[1].id)) + 1
    BY <1>3, <1>9 DEF AddsExisting
  <2>2. CASE M[n + 1].table = "member"
    <3>1. Leaving(rreq[c])
      BY <1>4, <2>1, <2>2 DEF Leaving
    <3>2. /\ Len(M) = Len(rlog) + 1 /\ M[Len(rlog) + 1].table = "member"
          /\ M[Len(rlog) + 1].id = rreq[c].batch[1].id
          /\ rreq[c].seq = Cardinality(Agg(rlog, Len(rlog), "member", rreq[c].batch[1].id)) + 1
      BY <1>3, <2>1, <2>2
    <3> QED
      BY <1>4, <1>5, <3>1, <3>2, MemberAppend
  <2>3. CASE M[n + 1].table # "member"
    <3>1. \A j \in (n + 1) .. Len(M) : j = n + 1
      BY <1>7, <2>1
    <3> QED
      BY <1>8, <2>1, <2>3, <3>1
  <2> QED
    BY <2>2, <2>3
<1>10. CASE AddsFresh(rreq[c], rlog, M)
  <2>1. Len(M) = n + 1 /\ M[n + 1].id = n + 1 /\ M[n + 1].table # "org"
    BY <1>3, <1>10 DEF AddsFresh
  <2>2. \A j \in (n + 1) .. Len(M) : j = n + 1
    BY <1>7, <2>1
  <2>3. /\ \A j \in (Len(rlog) + 1) .. Len(M) : M[j].table = "member" => M[j].id > Len(rlog)
        /\ \A j \in (Len(rlog) + 1) .. Len(M) :
              M[j].table = "org" /\ M[j].kind = "created" => HasOwner(M, M[j].id)
    BY <1>3, <1>7, <2>1, <2>2
  <2> QED
    BY <1>4, <1>6, <2>3, QuietAppend
<1>11. CASE AddsOrg(rlog, M)
  <2>1. /\ Len(M) = n + 2 /\ M[n + 1].table = "org" /\ M[n + 1].id = n + 1
        /\ M[n + 2].table = "member" /\ M[n + 2].kind = "created" /\ M[n + 2].id = n + 2
        /\ M[n + 2].ref = n + 1 /\ M[n + 2].attr = "owner"
    BY <1>3, <1>11 DEF AddsOrg
  <2>2. n + 2 \in 1 .. Len(M) /\ \A j \in 1 .. Len(M) : j <= n + 2
    BY <1>7, <2>1
  <2>3. OwnerAt(M, n + 2)
    BY <2>1, <2>2 DEF OwnerAt, LastAt
  <2>4. HasOwner(M, n + 1)
    BY <2>1, <2>2, <2>3 DEF HasOwner
  <2>5. \A j \in (n + 1) .. Len(M) : j = n + 1 \/ j = n + 2
    BY <1>7, <2>1
  <2>6. n + 2 > n
    BY <1>7
  <2>7. /\ \A j \in (Len(rlog) + 1) .. Len(M) : M[j].table = "member" => M[j].id > Len(rlog)
        /\ \A j \in (Len(rlog) + 1) .. Len(M) :
              M[j].table = "org" /\ M[j].kind = "created" => HasOwner(M, M[j].id)
    BY <1>3, <2>1, <2>4, <2>5, <2>6
  <2> QED
    BY <1>4, <1>6, <2>7, QuietAppend
<1>12. CASE AddsRestore(rlog, M)
  BY <1>3, <1>8, <1>12 DEF AddsRestore
<1>13. CASE AddsBundle(rreq[c], rlog, M)
  <2>1. Len(M) = n + 2 /\ M[n + 1].table = "bundle" /\ M[n + 2].table = "bundle"
    BY <1>3, <1>13 DEF AddsBundle
  <2>2. \A j \in (n + 1) .. Len(M) : j = n + 1 \/ j = n + 2
    BY <1>7, <2>1
  <2> QED
    BY <1>8, <2>1, <2>2
<1> QED
  BY <1>4, <1>9, <1>10, <1>11, <1>12, <1>13

\* What a handler that sets a key holds.
LEMMA ClaimFacts ==
    ASSUME ResourceInv, NEW d \in Handlers, NEW t \in Keyed, NEW k, Claims(rreq[d], t, k)
    PROVE  LET e == rreq[d].batch[1] IN
           /\ t = "member" => e.kind = "created" /\ Born(rlog, Len(rlog), "org", e.ref)
           /\ e.kind = "updated" => /\ t \in {"project", "app"} /\ rreq[d].seq \in Nat
                                    /\ rreq[d].seq <= Cardinality(Agg(rlog, Len(rlog), t, e.id)) + 1
<1>1. PICK q : q = rreq[d]
  OBVIOUS
<1>2. q.phase \in {"numbered", "checked"} /\ q.batch[1].table = t /\ SetsKey(q.batch[1])
  BY <1>1 DEF Claims
<1>3. Pending(rlog, sversions, q) /\ q.seq \in Nat
  BY <1>1, <1>2 DEF ResourceInv, RequestOK, ResourceRequest
<1>4. q.batch[1].kind = "updated" => t \in {"project", "app"}
  BY <1>2 DEF SetsKey
<1>5. CASE \E e \in ResourceEvent : q.batch = <<e>> /\ Fresh(rlog, e)
  <2>1. PICK e \in ResourceEvent : q.batch = <<e>> /\ Fresh(rlog, e)
    BY <1>5
  <2>2. q.batch[1] = e
    BY <2>1
  <2>3. e.kind = "created" /\ ParentBorn(rlog, Len(rlog), e)
    BY <2>1 DEF Fresh
  <2>4. t = "member" => ParentTable(e) = "org"
    BY <1>2, <2>2 DEF ParentTable
  <2> QED
    BY <1>1, <2>2, <2>3, <2>4 DEF ParentBorn
<1>6. CASE \E e \in ResourceEvent : q.batch = <<e>> /\ Existing(rlog, sversions, e, q.seq, q.phase)
  <2>1. PICK e \in ResourceEvent : q.batch = <<e>> /\ Existing(rlog, sversions, e, q.seq, q.phase)
    BY <1>6
  <2>2. q.batch[1] = e
    BY <2>1
  <2>3. e.kind # "created" /\ q.seq <= Cardinality(Agg(rlog, Len(rlog), e.table, e.id)) + 1
    BY <2>1 DEF Existing
  <2>4. t # "member"
    BY <1>2, <2>2, <2>3 DEF SetsKey
  <2> QED
    BY <1>1, <1>2, <1>3, <1>4, <2>2, <2>3, <2>4
<1>7. CASE q.batch[1].table \in {"org", "restore"} \/ (q.batch[1].table = "bundle" /\ q.batch[1].kind # "updated")
  BY <1>1, <1>2, <1>7 DEF Keyed
<1>8. ASSUME NEW v PROVE LET e == Ev("bundle", "created", 0, SecretEnv, 0, v) IN
                         e.table = "bundle" /\ e.kind = "created"
  BY DEF Ev
<1>9. ASSUME NEW v, q.batch = <<Ev("bundle", "created", 0, SecretEnv, 0, v)>>
      PROVE  q.batch[1].table = "bundle" /\ q.batch[1].kind # "updated"
  BY <1>8, <1>9
<1>10. ASSUME NEW n, NEW v, q.batch = VersionSet(Ev("bundle", "created", 0, SecretEnv, 0, v), n)
       PROVE  q.batch[1].table = "bundle" /\ q.batch[1].kind # "updated"
  <2>1. PICK e : e = Ev("bundle", "created", 0, SecretEnv, 0, v)
    OBVIOUS
  <2>2. e.kind = "created"
    BY <1>8, <2>1
  <2>3. VersionSet(e, n)[1] = Ev("bundle", "created", n, e.key, 0, None)
    BY <2>2 DEF VersionSet
  <2>4. Ev("bundle", "created", n, e.key, 0, None).table = "bundle" /\ Ev("bundle", "created", n, e.key, 0, None).kind = "created"
    BY DEF Ev
  <2> QED
    BY <1>10, <2>1, <2>3, <2>4
<1>11. (\E x \in Keys : q.batch = OrgWithOwner(x)) => q.batch[1].table = "org"
  BY BatchHeads
<1>12. (\E s \in ResourceRow : q.batch = RestoreBatch(s)) => q.batch[1].table = "restore"
  BY BatchHeads
<1> QED
  BY <1>3, <1>5, <1>6, <1>7, <1>9, <1>10, <1>11, <1>12 DEF Pending

\* New events that leave key k of table t to the handlers that found it free.
LEMMA KeyAppend ==
    ASSUME ResourceInv, NEW t \in Keyed, NEW k, KeyOK(rlog, rreq, t, k), NEW M, Continues(rlog, M), NEW Q,
           \A d \in Handlers : Q[d] = rreq[d] \/ ~Claims(Q[d], t, k),
           \A m \in (Len(rlog) + 1) .. Len(M) : Entered(M, m, t, k),
           \A m \in (Len(rlog) + 1) .. Len(M), d \in Handlers :
              /\ SetsKey(M[m]) /\ Claims(Q[d], t, k) /\ ~Keeps(rlog, rreq[d])
              /\ Free(rlog, rreq[d].batch[1])
              => ~Meet(rreq[d].batch[1], M[m])
    PROVE  KeyOK(M, Q, t, k)
<1>1. PICK n : n = Len(rlog)
  OBVIOUS
<1>2. n \in Nat /\ Len(M) \in Nat /\ n <= Len(M) /\ \A i \in 1 .. n : M[i] = rlog[i]
  BY <1>1 DEF Continues
<1>3. ASSUME NEW m \in 1 .. Len(M) PROVE Entered(M, m, t, k)
  <2>1. CASE m \in 1 .. n
    <3>1. Entered(rlog, m, t, k)
      BY <1>1, <2>1 DEF KeyOK
    <3>2. m - 1 \in Nat /\ M[m] = rlog[m] /\ \A i \in 1 .. (m - 1) : i \in 1 .. n /\ M[i] = rlog[i]
      BY <1>2, <2>1
    <3>3. \A i \in 1 .. (m - 1) : HoldsAt(M, m - 1, i) => HoldsAt(rlog, m - 1, i)
      BY <3>2, HeldSame
    <3> QED
      BY <3>1, <3>2, <3>3 DEF Entered
  <2>2. CASE m \notin 1 .. n
    <3>1. m \in (Len(rlog) + 1) .. Len(M)
      BY <1>1, <1>2, <2>2
    <3> QED
      BY <3>1
  <2> QED
    BY <2>1, <2>2
<1>4. ASSUME NEW d \in Handlers, Claims(Q[d], t, k), Keeps(rlog, rreq[d]) PROVE Keeps(M, Q[d])
  <2>1. Q[d] = rreq[d] /\ Claims(rreq[d], t, k)
    BY <1>4
  <2>2. rreq[d].batch[1].kind = "updated" /\ rreq[d].batch[1].table = t
    BY <1>4, <2>1 DEF Keeps, Claims
  <2>3. /\ t \in {"project", "app"} /\ rreq[d].seq \in Nat
        /\ rreq[d].seq <= Cardinality(Agg(rlog, Len(rlog), t, rreq[d].batch[1].id)) + 1
    BY <2>1, <2>2, ClaimFacts
  <2>4. PICK q : q = rreq[d]
    OBVIOUS
  <2>5. /\ q.seq \in Nat /\ q.batch[1].table # "bundle" /\ Keeps(rlog, q)
        /\ q.seq <= Cardinality(Agg(rlog, Len(rlog), q.batch[1].table, q.batch[1].id)) + 1
    BY <1>4, <2>2, <2>3, <2>4
  <2>6. Keeps(M, q)
    BY <2>5, KeepsStays
  <2> QED
    BY <2>1, <2>4, <2>6
<1>5. ASSUME NEW d \in Handlers, Claims(Q[d], t, k) PROVE Free(M, Q[d].batch[1]) \/ Keeps(M, Q[d])
  <2>1. Q[d] = rreq[d] /\ Claims(rreq[d], t, k)
    BY <1>5
  <2>2. CASE Keeps(rlog, rreq[d])
    BY <1>4, <1>5, <2>2
  <2>3. CASE ~Keeps(rlog, rreq[d])
    <3>1. PICK e : e = rreq[d].batch[1]
      OBVIOUS
    <3>2. Free(rlog, e)
      BY <2>1, <2>3, <3>1 DEF KeyOK
    <3>3. ASSUME NEW i \in 1 .. Len(M), HoldsAt(M, Len(M), i) PROVE ~Meet(e, M[i])
      <4>1. CASE i \in 1 .. n
        <5>1. HoldsAt(M, n, i)
          BY <1>2, <3>3, <4>1, HeldBefore
        <5>2. HoldsAt(rlog, n, i)
          BY <1>2, <4>1, <5>1, HeldSame
        <5> QED
          BY <1>1, <1>2, <3>2, <4>1, <5>2 DEF Free
      <4>2. CASE i \notin 1 .. n
        <5>1. i \in (Len(rlog) + 1) .. Len(M)
          BY <1>1, <1>2, <4>2
        <5>2. SetsKey(M[i])
          BY <3>3 DEF HoldsAt
        <5> QED
          BY <1>5, <2>3, <3>1, <3>2, <5>1, <5>2
      <4> QED
        BY <4>1, <4>2
    <3>4. Free(M, e)
      BY <3>3 DEF Free
    <3> QED
      BY <2>1, <3>1, <3>4
  <2> QED
    BY <2>2, <2>3
<1>6. ASSUME NEW b \in Handlers, NEW d \in Handlers, b # d, Claims(Q[b], t, k), Claims(Q[d], t, k)
      PROVE  Keeps(M, Q[b]) \/ Keeps(M, Q[d])
  <2>1. Claims(rreq[b], t, k) /\ Claims(rreq[d], t, k)
    BY <1>6
  <2>2. Keeps(rlog, rreq[b]) \/ Keeps(rlog, rreq[d])
    BY <1>6, <2>1 DEF KeyOK
  <2> QED
    BY <1>4, <1>6, <2>2
<1> QED
  BY <1>3, <1>5, <1>6 DEF KeyOK

\* The key that the appending handler sets.
LEMMA ClaimEnters ==
    ASSUME ResourceInv, NEW t \in Keyed, NEW k, KeyOK(rlog, rreq, t, k), NEW c \in Handlers,
           Claims(rreq[c], t, k), NEW M, Continues(rlog, M), NEW e, e = rreq[c].batch[1],
           NEW f, f = M[Len(rlog) + 1], f.table = e.table, f.key = e.key, f.id = e.id \/ e.id = -1,
           t = "member" => f.ref = e.ref,
           Keeps(rlog, rreq[c]) => /\ f.id = e.id
                                   /\ rreq[c].seq = Cardinality(Agg(rlog, Len(rlog), t, e.id)) + 1
    PROVE  /\ Entered(M, Len(rlog) + 1, t, k)
           /\ \A d \in Handlers \ {c} :
                 Claims(rreq[d], t, k) /\ ~Keeps(rlog, rreq[d]) /\ Free(rlog, rreq[d].batch[1])
                 => ~Meet(rreq[d].batch[1], f)
<1>1. PICK n : n = Len(rlog)
  OBVIOUS
<1>2. n \in Nat /\ (\A i \in 1 .. n : M[i] = rlog[i]) /\ rlog \in Seq(Logged) /\ (n + 1) - 1 = n
  BY <1>1 DEF Continues
<1>3. e.table = t /\ e.key = k
  BY DEF Claims
<1>4. ASSUME NEW i \in 1 .. n PROVE rlog[i].id # -1
  <2>1. rlog[i] \in Logged
    BY <1>1, <1>2, <1>4
  <2>2. rlog[i].id >= 1 /\ rlog[i].id \in Int
    BY <2>1 DEF Logged, ResourceEvent
  <2> QED
    BY <2>2
<1>5. Keeps(rlog, rreq[c]) =>
          /\ t # "member" /\ f.id = e.id
          /\ \E i \in 1 .. n : HoldsAt(rlog, n, i) /\ rlog[i].table = t /\ rlog[i].id = e.id /\ rlog[i].key = k
  <2>1. SUFFICES ASSUME Keeps(rlog, rreq[c])
                 PROVE  /\ t # "member" /\ f.id = e.id
                        /\ \E i \in 1 .. n : /\ HoldsAt(rlog, n, i) /\ rlog[i].table = t
                                             /\ rlog[i].id = e.id /\ rlog[i].key = k
    OBVIOUS
  <2>2. e.kind = "updated"
    BY <2>1 DEF Keeps
  <2>3. t # "member"
    BY <2>2, ClaimFacts
  <2> QED
    BY <1>1, <1>3, <2>1, <2>3 DEF Keeps
<1>6. ASSUME NEW i \in 1 .. n, HoldsAt(M, n, i) PROVE ~Meet(f, M[i])
  <2>1. HoldsAt(rlog, n, i) /\ M[i] = rlog[i]
    BY <1>2, <1>6, HeldSame
  <2>2. CASE Keeps(rlog, rreq[c])
    <3>1. PICK j \in 1 .. n : HoldsAt(rlog, n, j) /\ rlog[j].table = t /\ rlog[j].id = e.id /\ rlog[j].key = k
      BY <1>5, <2>2
    <3>2. \A m \in 1 .. n : Entered(rlog, m, t, k)
      BY <1>1 DEF KeyOK
    <3>3. ~Meet(rlog[j], rlog[i])
      BY <1>2, <2>1, <3>1, <3>2, HeldOnce
    <3> QED
      BY <1>3, <1>5, <2>1, <2>2, <3>1, <3>3 DEF Meet
  <2>3. CASE Free(rlog, e)
    <3>1. ~Meet(e, rlog[i])
      BY <1>1, <2>1, <2>3 DEF Free
    <3> QED
      BY <1>3, <1>4, <2>1, <3>1 DEF Meet
  <2> QED
    BY <2>2, <2>3 DEF KeyOK
<1>7. Entered(M, Len(rlog) + 1, t, k)
  BY <1>1, <1>2, <1>6 DEF Entered
<1>8. ASSUME NEW d \in Handlers \ {c}, Claims(rreq[d], t, k), ~Keeps(rlog, rreq[d]),
             Free(rlog, rreq[d].batch[1])
      PROVE  ~Meet(rreq[d].batch[1], f)
  <2>1. Keeps(rlog, rreq[c])
    BY <1>8 DEF KeyOK
  <2>2. PICK j \in 1 .. n : HoldsAt(rlog, n, j) /\ rlog[j].table = t /\ rlog[j].id = e.id /\ rlog[j].key = k
    BY <1>5, <2>1
  <2>3. ~Meet(rreq[d].batch[1], rlog[j])
    BY <1>1, <1>8, <2>2 DEF Free
  <2>4. rreq[d].batch[1].table = t
    BY <1>8 DEF Claims
  <2> QED
    BY <1>3, <1>5, <2>1, <2>2, <2>3, <2>4 DEF Meet
<1> QED
  BY <1>7, <1>8

\* Whatever is appended sets a free key, if no one raced for it.
LEMMA KeysAppend ==
    ASSUME ResourceInv, NEW t \in Keyed, NEW k, KeyOK(rlog, rreq, t, k), NEW c \in Handlers, NEW bound,
           AppendBatch(c, bound), UNCHANGED sversions
    PROVE  KeyOK(rlog', rreq', t, k)
<1>1. PICK M : M = rlog'
  OBVIOUS
<1>2. PICK Q : Q = rreq'
  OBVIOUS
<1>3. PICK n : n = Len(rlog)
  OBVIOUS
<1>0. SUFFICES KeyOK(M, Q, t, k)
  BY <1>1, <1>2
<1>4. /\ Continues(rlog, M) /\ rreq[c].phase = "checked"
      /\ \/ AddsExisting(rreq[c], rlog, M) \/ AddsFresh(rreq[c], rlog, M)
         \/ AddsOrg(rlog, M) \/ AddsRestore(rlog, M) \/ AddsBundle(rreq[c], rlog, M)
  BY <1>1, AppendShapes
<1>5. ~Claims(Q[c], t, k) /\ \A d \in Handlers \ {c} : Q[d] = rreq[d]
  BY <1>2, AppenderWaits DEF Claims
<1>6. \A d \in Handlers : Q[d] = rreq[d] \/ ~Claims(Q[d], t, k)
  BY <1>5
<1>7. n \in Nat /\ LogOK(rlog, sversions) /\ \A i \in 1 .. n : M[i] = rlog[i]
  BY <1>3, <1>4 DEF Continues, ResourceInv
\* An event that sets another key, or none.
<1>8. ASSUME NEW m \in (n + 1) .. Len(M), ~(SetsKey(M[m]) /\ M[m].table = t /\ M[m].key = k)
      PROVE  /\ Entered(M, m, t, k)
             /\ \A d \in Handlers : SetsKey(M[m]) /\ Claims(Q[d], t, k) => ~Meet(rreq[d].batch[1], M[m])
  <2>1. Entered(M, m, t, k)
    BY <1>8 DEF Entered
  <2>2. ASSUME NEW d \in Handlers, SetsKey(M[m]), Claims(Q[d], t, k) PROVE ~Meet(rreq[d].batch[1], M[m])
    <3>1. rreq[d].batch[1].table = t /\ rreq[d].batch[1].key = k
      BY <1>5, <2>2 DEF Claims
    <3> QED
      BY <1>8, <2>2, <3>1 DEF Meet
  <2> QED
    BY <2>1, <2>2
\* The key that the handler claims.
<1>9. ASSUME NEW e, e = rreq[c].batch[1], NEW f, f = M[n + 1], f.kind = e.kind, f.table = e.table,
             f.key = e.key, f.id = e.id \/ (e.id = -1 /\ e.kind = "created"), f.ref = e.ref \/ e.table # "member"
                \/ e.kind # "created",
             e.kind # "created" => rreq[c].seq = Cardinality(Agg(rlog, n, e.table, e.id)) + 1,
             SetsKey(f), f.table = t, f.key = k
      PROVE  /\ Entered(M, n + 1, t, k)
             /\ \A d \in Handlers : Claims(Q[d], t, k) /\ ~Keeps(rlog, rreq[d]) /\ Free(rlog, rreq[d].batch[1])
                                    => ~Meet(rreq[d].batch[1], M[n + 1])
  <2>1. SetsKey(e)
    BY <1>9 DEF SetsKey
  <2>2. Claims(rreq[c], t, k)
    BY <1>4, <1>9, <2>1 DEF Claims
  <2>3. t = "member" => e.kind = "created"
    BY <1>9, <2>2, ClaimFacts
  <2>4. Keeps(rlog, rreq[c]) => /\ f.id = e.id
                                /\ rreq[c].seq = Cardinality(Agg(rlog, Len(rlog), t, e.id)) + 1
    BY <1>3, <1>9 DEF Keeps
  <2>5. t = "member" => f.ref = e.ref
    BY <1>9, <2>3
  <2>6. /\ Continues(rlog, M) /\ e = rreq[c].batch[1] /\ f = M[Len(rlog) + 1]
        /\ f.table = e.table /\ f.key = e.key
    BY <1>3, <1>4, <1>9
  <2>8. f.id = e.id \/ e.id = -1
    BY <1>9
  <2>7. /\ Entered(M, Len(rlog) + 1, t, k)
        /\ \A d \in Handlers \ {c} :
              Claims(rreq[d], t, k) /\ ~Keeps(rlog, rreq[d]) /\ Free(rlog, rreq[d].batch[1])
              => ~Meet(rreq[d].batch[1], f)
    BY <2>2, <2>4, <2>5, <2>6, <2>8, ClaimEnters
  <2> QED
    BY <1>3, <1>5, <1>9, <2>7
<1>10. ASSUME \A m \in (n + 1) .. Len(M) :
                 /\ Entered(M, m, t, k)
                 /\ \A d \in Handlers : /\ SetsKey(M[m]) /\ Claims(Q[d], t, k) /\ ~Keeps(rlog, rreq[d])
                                        /\ Free(rlog, rreq[d].batch[1])
                                        => ~Meet(rreq[d].batch[1], M[m])
       PROVE  KeyOK(M, Q, t, k)
  <2>1. /\ \A m \in (Len(rlog) + 1) .. Len(M) : Entered(M, m, t, k)
        /\ \A m \in (Len(rlog) + 1) .. Len(M), d \in Handlers :
              /\ SetsKey(M[m]) /\ Claims(Q[d], t, k) /\ ~Keeps(rlog, rreq[d])
              /\ Free(rlog, rreq[d].batch[1])
              => ~Meet(rreq[d].batch[1], M[m])
    BY <1>3, <1>10
  <2> QED
    BY <1>4, <1>6, <2>1, KeyAppend
<1>11. CASE AddsExisting(rreq[c], rlog, M) \/ AddsFresh(rreq[c], rlog, M)
  <2>1. PICK e, f : e = rreq[c].batch[1] /\ f = M[n + 1]
    OBVIOUS
  <2>2. /\ Len(M) = n + 1 /\ f.kind = e.kind /\ f.table = e.table /\ f.key = e.key
        /\ f.id = e.id \/ (e.id = -1 /\ e.kind = "created")
        /\ f.ref = e.ref \/ e.table # "member" \/ e.kind # "created"
        /\ e.kind # "created" => rreq[c].seq = Cardinality(Agg(rlog, n, e.table, e.id)) + 1
    <3>1. CASE AddsExisting(rreq[c], rlog, M)
      BY <1>3, <2>1, <3>1 DEF AddsExisting
    <3>2. CASE AddsFresh(rreq[c], rlog, M)
      BY <1>3, <2>1, <3>2 DEF AddsFresh
    <3> QED
      BY <1>11, <3>1, <3>2
  <2>3. \A m \in (n + 1) .. Len(M) : m = n + 1
    BY <1>7, <2>2
  <2>4. CASE SetsKey(f) /\ f.table = t /\ f.key = k
    <3>1. /\ Entered(M, n + 1, t, k)
          /\ \A d \in Handlers : Claims(Q[d], t, k) /\ ~Keeps(rlog, rreq[d]) /\ Free(rlog, rreq[d].batch[1])
                                 => ~Meet(rreq[d].batch[1], M[n + 1])
      BY <1>9, <2>1, <2>2, <2>4
    <3> QED
      BY <1>10, <2>3, <3>1
  <2>5. CASE ~(SetsKey(f) /\ f.table = t /\ f.key = k)
    <3>1. n + 1 \in (n + 1) .. Len(M)
      BY <1>7, <2>2
    <3>2. /\ Entered(M, n + 1, t, k)
          /\ \A d \in Handlers : SetsKey(M[n + 1]) /\ Claims(Q[d], t, k) => ~Meet(rreq[d].batch[1], M[n + 1])
      BY <1>8, <2>1, <2>5, <3>1
    <3> QED
      BY <1>10, <2>3, <3>2
  <2> QED
    BY <2>4, <2>5
<1>12. CASE AddsOrg(rlog, M)
  <2>1. /\ Len(M) = n + 2 /\ M[n + 1].table = "org" /\ M[n + 2].table = "member"
        /\ M[n + 2].ref = n + 1
    BY <1>3, <1>12 DEF AddsOrg
  <2>2. n + 1 \in (n + 1) .. Len(M) /\ n + 2 \in (n + 1) .. Len(M) /\ (n + 2) - 1 = n + 1
        /\ \A m \in (n + 1) .. Len(M) : m = n + 1 \/ m = n + 2
    BY <1>7, <2>1
  <2>3. /\ Entered(M, n + 1, t, k)
        /\ \A d \in Handlers : SetsKey(M[n + 1]) /\ Claims(Q[d], t, k) => ~Meet(rreq[d].batch[1], M[n + 1])
    <3>1. M[n + 1].table # t
      BY <2>1 DEF Keyed
    <3> QED
      BY <1>8, <2>2, <3>1
  <2>4. ASSUME NEW j \in 0 .. n, Born(rlog, j, "org", n + 1) PROVE FALSE
    <3>1. PICK i \in 1 .. j : rlog[i].table = "org" /\ rlog[i].id = n + 1
      BY <2>4 DEF Born
    <3>2. i \in 1 .. Len(rlog) /\ rlog[i].table # "bundle"
      BY <1>3, <1>7, <3>1
    <3>3. rlog[i].id <= i
      BY <1>7, <3>2, NamesArePositions
    <3> QED
      BY <1>3, <1>7, <3>1, <3>2, <3>3
  <2>5. ASSUME NEW i \in 1 .. (n + 1) PROVE ~Meet(M[n + 2], M[i])
    <3>1. SUFFICES ASSUME M[i].table = "member", M[i].ref = n + 1 PROVE FALSE
      BY <2>1 DEF Meet
    <3>2. i \in 1 .. n
      BY <1>7, <2>1, <2>5, <3>1
    <3>3. M[i] = rlog[i] /\ i \in 1 .. Len(rlog) /\ i - 1 \in 0 .. n
      BY <1>3, <1>7, <3>2
    <3>4. ParentBorn(rlog, i - 1, rlog[i])
      BY <1>7, <3>3 DEF LogOK, EventOK
    <3>5. ParentTable(rlog[i]) = "org"
      BY <3>1, <3>3 DEF ParentTable
    <3>6. Born(rlog, i - 1, "org", n + 1)
      BY <3>1, <3>3, <3>4, <3>5 DEF ParentBorn
    <3> QED
      BY <2>4, <3>3, <3>6
  <2>6. Entered(M, n + 2, t, k)
    BY <2>2, <2>5 DEF Entered
  <2>7. ASSUME NEW d \in Handlers, Claims(Q[d], t, k) PROVE ~Meet(rreq[d].batch[1], M[n + 2])
    <3>1. SUFFICES ASSUME rreq[d].batch[1].table = "member", rreq[d].batch[1].ref = n + 1 PROVE FALSE
      BY <2>1 DEF Meet
    <3>2. Claims(rreq[d], t, k) /\ t = "member"
      BY <1>5, <2>7, <3>1 DEF Claims
    <3>3. Born(rlog, n, "org", n + 1)
      BY <1>3, <3>1, <3>2, ClaimFacts
    <3>4. n \in 0 .. n
      BY <1>7
    <3> QED
      BY <2>4, <3>3, <3>4
  <2> QED
    BY <1>10, <2>2, <2>3, <2>6, <2>7
<1>13. CASE AddsRestore(rlog, M)
  <2>1. \A m \in (n + 1) .. Len(M) : M[m].table # t
    BY <1>3, <1>13 DEF AddsRestore, Keyed
  <2> QED
    BY <1>8, <1>10, <2>1
<1>14. CASE AddsBundle(rreq[c], rlog, M)
  <2>1. PICK e, f : e = rreq[c].batch[1] /\ f = M[n + 1]
    OBVIOUS
  <2>2. /\ Len(M) = n + 2 /\ f.kind = e.kind /\ f.table = e.table /\ f.key = e.key
        /\ f.id = e.id /\ e.kind = "created" /\ e.table = "bundle"
        /\ M[n + 2].table = "bundle" /\ M[n + 2].kind = "updated"
    BY <1>3, <1>14, <2>1 DEF AddsBundle
  <2>3. n + 1 \in (n + 1) .. Len(M) /\ n + 2 \in (n + 1) .. Len(M)
        /\ \A m \in (n + 1) .. Len(M) : m = n + 1 \/ m = n + 2
    BY <1>7, <2>2
  <2>4. ~SetsKey(M[n + 2])
    BY <2>2 DEF SetsKey
  <2>5. Entered(M, n + 2, t, k)
    BY <1>8, <2>3, <2>4
  <2>6. /\ Entered(M, n + 1, t, k)
        /\ \A d \in Handlers : /\ SetsKey(M[n + 1]) /\ Claims(Q[d], t, k) /\ ~Keeps(rlog, rreq[d])
                               /\ Free(rlog, rreq[d].batch[1])
                               => ~Meet(rreq[d].batch[1], M[n + 1])
    <3>1. CASE SetsKey(f) /\ f.table = t /\ f.key = k
      BY <1>9, <2>1, <2>2, <3>1
    <3>2. CASE ~(SetsKey(f) /\ f.table = t /\ f.key = k)
      BY <1>8, <2>1, <2>3, <3>2
    <3> QED
      BY <3>1, <3>2
  <2> QED
    BY <1>10, <2>3, <2>4, <2>5, <2>6
<1> QED
  BY <1>4, <1>11, <1>12, <1>13, <1>14

----------------------------------------------------------------------------
(* Steps of a handler before its append.                                      *)

\* Handler c goes on with q; if q takes an owner away or sets a key, it has checked.
Moves(c, q) ==
    /\ rreq' = [rreq EXCEPT ![c] = q] /\ rraced \subseteq rraced' /\ UNCHANGED <<rlog, rdone, rrows>>
    /\ Leaving(q) =>
          \/ <<"owner", None>> \in rraced'
          \/ Harmless(rlog, q)
          \/ /\ HasOther(rlog, q.batch[1].ref, q.batch[1].id)
             /\ \A d \in Handlers \ {c} : ~Leaving(rreq[d])
    /\ \A t \in Keyed, k \in Keys \cup {None} : Claims(q, t, k) =>
          \/ <<t, k>> \in rraced'
          \/ Keeps(rlog, q)
          \/ Free(rlog, q.batch[1]) /\ \A d \in Handlers \ {c} : ~Claims(rreq[d], t, k)
          \/ /\ Claims(rreq[c], t, k) /\ rreq[c].batch[1].kind = "created"
             /\ Free(rlog, rreq[c].batch[1]) => Free(rlog, q.batch[1])

\* Such a move keeps the owners and the keys.
LEMMA MoveKeeps ==
    ASSUME ResourceInv, OwnersInv, KeysInv, NEW c \in Handlers, NEW q, Moves(c, q)
    PROVE  OwnersInv' /\ KeysInv'
<1>1. PICK Q : Q = rreq'
  OBVIOUS
<1>2. Q[c] = q /\ (\A d \in Handlers \ {c} : Q[d] = rreq[d]) /\ UNCHANGED <<rlog, rdone, rrows>>
  BY <1>1 DEF Moves, ResourceInv
<1>3. rraced \subseteq rraced'
  BY DEF Moves
<1>4. ASSUME <<"owner", None>> \notin rraced' PROVE OwnersKept(rlog, Q)
  <2>1. OwnersKept(rlog, rreq)
    BY <1>3, <1>4 DEF OwnersInv, OwnersRaced
  <2>2. Leaving(q) => \/ Harmless(rlog, q)
                      \/ /\ HasOther(rlog, q.batch[1].ref, q.batch[1].id)
                         /\ \A d \in Handlers \ {c} : ~Leaving(rreq[d])
    BY <1>4 DEF Moves
  <2>3. \A j \in 1 .. Len(rlog) : rlog[j].table = "org" /\ rlog[j].kind = "created" => HasOwner(rlog, rlog[j].id)
    BY <2>1 DEF OwnersKept
  <2>4. ASSUME NEW d \in Handlers, Leaving(Q[d])
        PROVE  Harmless(rlog, Q[d]) \/ HasOther(rlog, Q[d].batch[1].ref, Q[d].batch[1].id)
    <3>1. CASE d = c
      BY <1>2, <2>2, <2>4, <3>1
    <3>2. CASE d # c
      BY <1>2, <2>1, <2>4, <3>2 DEF OwnersKept
    <3> QED
      BY <3>1, <3>2
  <2>5. ASSUME NEW b \in Handlers, NEW d \in Handlers, b # d, Leaving(Q[b]), Leaving(Q[d])
        PROVE  Harmless(rlog, Q[b]) \/ Harmless(rlog, Q[d])
    <3>1. CASE b = c
      BY <1>2, <2>2, <2>5, <3>1
    <3>2. CASE d = c
      BY <1>2, <2>2, <2>5, <3>2
    <3>3. CASE b # c /\ d # c
      BY <1>2, <2>1, <2>5, <3>3 DEF OwnersKept
    <3> QED
      BY <3>1, <3>2, <3>3
  <2> QED
    BY <2>3, <2>4, <2>5 DEF OwnersKept
<1>5. ASSUME NEW t \in Keyed, NEW k \in Keys \cup {None}, <<t, k>> \notin rraced'
      PROVE  KeyOK(rlog, Q, t, k)
  <2>1. KeyOK(rlog, rreq, t, k)
    BY <1>3, <1>5 DEF KeysInv
  <2>2. Claims(q, t, k) =>
          \/ Keeps(rlog, q)
          \/ Free(rlog, q.batch[1]) /\ \A d \in Handlers \ {c} : ~Claims(rreq[d], t, k)
          \/ /\ Claims(rreq[c], t, k) /\ rreq[c].batch[1].kind = "created"
             /\ Free(rlog, rreq[c].batch[1]) => Free(rlog, q.batch[1])
    BY <1>5 DEF Moves
  <2>3. \A m \in 1 .. Len(rlog) : Entered(rlog, m, t, k)
    BY <2>1 DEF KeyOK
  <2>4. rreq[c].batch[1].kind = "created" => ~Keeps(rlog, rreq[c])
    BY DEF Keeps
  <2>5. /\ Claims(rreq[c], t, k) => Free(rlog, rreq[c].batch[1]) \/ Keeps(rlog, rreq[c])
        /\ \A d \in Handlers : d # c /\ Claims(rreq[c], t, k) /\ Claims(rreq[d], t, k) =>
              Keeps(rlog, rreq[c]) \/ Keeps(rlog, rreq[d])
    BY <2>1 DEF KeyOK
  <2>6. ASSUME NEW d \in Handlers, Claims(Q[d], t, k) PROVE Free(rlog, Q[d].batch[1]) \/ Keeps(rlog, Q[d])
    <3>1. CASE d = c
      BY <1>2, <2>2, <2>4, <2>5, <2>6, <3>1
    <3>2. CASE d # c
      BY <1>2, <2>1, <2>6, <3>2 DEF KeyOK
    <3> QED
      BY <3>1, <3>2
  <2>7. ASSUME NEW d \in Handlers, d # c, Claims(q, t, k), Claims(rreq[d], t, k)
        PROVE  Keeps(rlog, q) \/ Keeps(rlog, rreq[d])
    BY <2>2, <2>4, <2>5, <2>7
  <2>8. ASSUME NEW b \in Handlers, NEW d \in Handlers, b # d, Claims(Q[b], t, k), Claims(Q[d], t, k)
        PROVE  Keeps(rlog, Q[b]) \/ Keeps(rlog, Q[d])
    <3>1. CASE b = c
      BY <1>2, <2>7, <2>8, <3>1
    <3>2. CASE d = c
      BY <1>2, <2>7, <2>8, <3>2
    <3>3. CASE b # c /\ d # c
      BY <1>2, <2>1, <2>8, <3>3 DEF KeyOK
    <3> QED
      BY <3>1, <3>2, <3>3
  <2> QED
    BY <2>3, <2>6, <2>8 DEF KeyOK
<1>6. OwnersInv'
  BY <1>1, <1>2, <1>4 DEF OwnersInv, OwnersRaced
<1>7. KeysInv'
  BY <1>1, <1>2, <1>5 DEF KeysInv
<1> QED
  BY <1>6, <1>7

\* A handler that takes no owner away and sets no key.
LEMMA PlainMove ==
    ASSUME NEW c, NEW q, rreq' = [rreq EXCEPT ![c] = q], rraced \subseteq rraced',
           UNCHANGED <<rlog, rdone, rrows>>,
           \/ q.phase \notin {"numbered", "checked"}
           \/ /\ ~(q.batch[1].table = "member" /\ q.batch[1].kind # "created")
              /\ ~(q.batch[1].table \in Keyed /\ SetsKey(q.batch[1]))
    PROVE  Moves(c, q)
  BY DEF Moves, Leaving, Claims

\* What the view shows of the holder of a key.
LEMMA HolderHasRow ==
    ASSUME ResourceInv, RowKeysOK(rrows, rlog, rdone), NEW i \in 1 .. rdone, HoldsAt(rlog, rdone, i),
           rlog[i].table \in Keyed
    PROVE  \E r \in rrows : /\ r.live /\ r.table = rlog[i].table /\ r.id = rlog[i].id /\ r.key = rlog[i].key
                            /\ r.table = "member" => r.ref = rlog[i].ref
<1>1. PICK r \in rrows : /\ r.table = rlog[i].table /\ r.id = rlog[i].id /\ RowOK(r, rlog, rdone)
                         /\ r.live = ~Gone(rlog, rdone, rlog[i].table, rlog[i].id)
  BY EventHasRow
<1>2. r.live
  BY <1>1 DEF HoldsAt
<1>3. PICK j \in 1 .. rdone : /\ HoldsAt(rlog, rdone, j) /\ rlog[j].table = r.table
                              /\ rlog[j].id = r.id /\ rlog[j].key = r.key
  BY <1>1, <1>2 DEF RowKeysOK
<1>4. rdone \in Nat /\ rdone <= Len(rlog) /\ Len(rlog) \in Nat
  BY DEF ResourceInv, RowsOK, LogOK
<1>5. i <= j /\ j <= i
  BY <1>1, <1>3 DEF HoldsAt
<1>6. i = j
  BY <1>4, <1>5
<1>7. ASSUME r.table = "member" PROVE r.ref = rlog[i].ref
  <2>1. i \in 1 .. Len(rlog)
    BY <1>4
  <2>2. i \in Agg(rlog, Len(rlog), "member", r.id)
    BY <1>1, <1>7, <2>1 DEF Agg
  <2> QED
    BY <1>7, <2>2, RowFacts
<1> QED
  BY <1>1, <1>2, <1>3, <1>6, <1>7

\* Batches in hand are not empty.
LEMMA HoldsSome ==
    ASSUME ResourceInv, NEW d \in Handlers, rreq[d].phase \in {"numbered", "checked"}
    PROVE  1 \in 1 .. Len(rreq[d].batch)
<1>1. PICK q : q = rreq[d]
  OBVIOUS
<1>2. Pending(rlog, sversions, q)
  BY <1>1 DEF ResourceInv, RequestOK
<1>3. \A e : Len(<<e>>) = 1
  OBVIOUS
<1>4. \A k : Len(OrgWithOwner(k)) = 2
  BY DEF OrgWithOwner
<1>5. \A s : Len(RestoreBatch(s)) = 3
  BY DEF RestoreBatch
<1>6. \A e, n : Len(VersionSet(e, n)) = 2 \/ Len(VersionSet(e, n)) = 1
  BY DEF VersionSet
<1>7. Len(q.batch) \in {1, 2, 3}
  BY <1>2, <1>3, <1>4, <1>5, <1>6 DEF Pending
<1> QED
  BY <1>1, <1>7

\* No rival is out of sight, so none sets the key.
LEMMA NoRivals ==
    ASSUME ResourceInv, NEW c, NEW t, NEW k, Rivals(c, t, k) = {}, NEW d \in Handlers \ {c}
    PROVE  ~Claims(rreq[d], t, k)
<1>1. SUFFICES ASSUME Claims(rreq[d], t, k) PROVE FALSE
  OBVIOUS
<1>2. /\ rreq[d].phase \in {"numbered", "checked"}
      /\ rreq[d].batch[1].table = t /\ rreq[d].batch[1].key = k
  BY <1>1 DEF Claims
<1>3. 1 \in 1 .. Len(rreq[d].batch)
  BY <1>2, HoldsSome
<1>4. d \in Rivals(c, t, k)
  BY <1>2, <1>3 DEF Rivals
<1> QED
  BY <1>4

\* The check against the view, with nothing out of sight.
LEMMA CheckedFree ==
    ASSUME ResourceInv, KeysInv, NEW c, NEW e, NEW t \in Keyed, NEW k, e.table = t, e.key = k,
           CheckedInView(c, t, k),
           \A r \in LiveOf(t) : r.key = k /\ r.id # e.id => t = "member" /\ r.ref # e.ref
    PROVE  \/ <<t, k>> \in rraced'
           \/ Free(rlog, e) /\ \A d \in Handlers \ {c} : ~Claims(rreq[d], t, k)
<1>1. SUFFICES ASSUME <<t, k>> \notin rraced'
               PROVE  Free(rlog, e) /\ \A d \in Handlers \ {c} : ~Claims(rreq[d], t, k)
  OBVIOUS
<1>2. Rivals(c, t, k) = {} /\ \A i \in Unprojected : ~(rlog[i].table = t /\ rlog[i].key = k)
  BY <1>1 DEF CheckedInView
<1>3. rdone \in Nat /\ rdone <= Len(rlog) /\ Len(rlog) \in Nat
  BY DEF ResourceInv, RowsOK, LogOK
<1>4. ASSUME NEW i \in 1 .. Len(rlog), HoldsAt(rlog, Len(rlog), i), Meet(e, rlog[i]) PROVE FALSE
  <2>1. rlog[i].table = t /\ rlog[i].key = k /\ rlog[i].id # e.id /\ (t = "member" => rlog[i].ref = e.ref)
    BY <1>4 DEF Meet
  <2>2. i \in 1 .. rdone
    BY <1>2, <1>3, <1>4, <2>1 DEF Unprojected
  <2>3. HoldsAt(rlog, rdone, i)
    BY <1>3, <1>4, <2>2, HeldBefore
  <2>4. PICK r \in rrows : /\ r.live /\ r.table = t /\ r.id = rlog[i].id /\ r.key = k
                           /\ r.table = "member" => r.ref = rlog[i].ref
    BY <2>1, <2>2, <2>3, HolderHasRow DEF KeysInv
  <2>5. r \in LiveOf(t)
    BY <2>4 DEF LiveOf, RowsOf
  <2> QED
    BY <2>1, <2>4, <2>5
<1> QED
  BY <1>2, <1>4, NoRivals DEF Free

\* What a handler goes on with after Proceed.
LEMMA ProceedMoves ==
    ASSUME NEW c, NEW p, NEW e, NEW n, NEW b, b[1] = e, Proceed(c, p, b, n)
    PROVE  \E q : /\ rreq' = [rreq EXCEPT ![c] = q] /\ UNCHANGED <<rlog, rdone, rrows>>
                  /\ q.phase = p /\ q.batch = b /\ q.batch[1] = e /\ q.seq = n
<1>1. PICK q : q = [phase |-> p, batch |-> b, seq |-> n, upto |-> 0, shown |-> 0]
  OBVIOUS
<1>2. q.phase = p /\ q.batch = b /\ q.seq = n
  BY <1>1
<1>3. q.batch[1] = e
  BY <1>2
<1>4. rreq' = [rreq EXCEPT ![c] = q] /\ UNCHANGED <<rlog, rdone, rrows>>
  BY <1>1 DEF Proceed
<1> QED
  BY <1>2, <1>3, <1>4

\* A handler goes on with an event that touches neither an owner nor a key.
LEMMA PlainProceed ==
    ASSUME NEW c, NEW p, NEW e, NEW n, NEW b, b[1] = e, Proceed(c, p, b, n), UNCHANGED rraced,
           \/ p = "loaded"
           \/ /\ ~(e.table = "member" /\ e.kind # "created")
              /\ ~(e.table \in Keyed /\ SetsKey(e))
    PROVE  \E q : Moves(c, q)
<1>1. PICK q : /\ rreq' = [rreq EXCEPT ![c] = q] /\ UNCHANGED <<rlog, rdone, rrows>>
               /\ q.phase = p /\ q.batch = b /\ q.batch[1] = e /\ q.seq = n
  BY ProceedMoves
<1>2. rraced \subseteq rraced'
  OBVIOUS
<1>3. Moves(c, q)
  BY <1>1, <1>2, PlainMove
<1> QED
  BY <1>3

\* A key was checked against the view.
LEMMA CheckedMove ==
    ASSUME ResourceInv, KeysInv, NEW c \in Handlers, NEW q, NEW e, q.batch[1] = e, e.table \in Keyed,
           e.table = "member" => e.kind = "created",
           rreq' = [rreq EXCEPT ![c] = q], UNCHANGED <<rlog, rdone, rrows>>,
           CheckedInView(c, e.table, e.key),
           \A r \in LiveOf(e.table) : r.key = e.key /\ r.id # e.id => e.table = "member" /\ r.ref # e.ref
    PROVE  Moves(c, q)
<1>1. \/ <<e.table, e.key>> \in rraced'
      \/ Free(rlog, e) /\ \A d \in Handlers \ {c} : ~Claims(rreq[d], e.table, e.key)
  BY CheckedFree
<1>2. rraced \subseteq rraced'
  BY DEF CheckedInView
<1>3. ~Leaving(q)
  BY DEF Leaving
<1>4. ASSUME NEW t, NEW k, Claims(q, t, k) PROVE t = e.table /\ k = e.key
  BY <1>4 DEF Claims
<1> QED
  BY <1>1, <1>2, <1>3, <1>4 DEF Moves

\* A new aggregate whose key was checked against the view.
LEMMA CheckedProceed ==
    ASSUME ResourceInv, KeysInv, NEW c \in Handlers, NEW p, NEW e, NEW n, e.table \in Keyed, e.kind = "created",
           Proceed(c, p, <<e>>, n), CheckedInView(c, e.table, e.key),
           \A r \in LiveOf(e.table) : r.key = e.key => e.table = "member" /\ r.ref # e.ref
    PROVE  \E q : Moves(c, q)
<1>0. PICK b : b = <<e>>
  OBVIOUS
<1>1. b[1] = e /\ Proceed(c, p, b, n)
  BY <1>0
<1>2. PICK q : /\ rreq' = [rreq EXCEPT ![c] = q] /\ UNCHANGED <<rlog, rdone, rrows>>
               /\ q.phase = p /\ q.batch = b /\ q.batch[1] = e /\ q.seq = n
  BY <1>1, ProceedMoves
<1>3. Moves(c, q)
  BY <1>2, CheckedMove
<1> QED
  BY <1>3

\* The name an update repeats is the one of its row.
LEMMA RowKeeps ==
    ASSUME ResourceInv, RowKeysOK(rrows, rlog, rdone), NEW r \in rrows, r.live, r.table \in {"project", "app"},
           NEW q, NEW e, q.batch[1] = e, e.kind = "updated", e.table = r.table, e.id = r.id, e.key = r.key,
           q.seq = r.version + 1
    PROVE  Keeps(rlog, q)
<1>1. PICK t, a, k : t = r.table /\ a = r.id /\ k = r.key
  OBVIOUS
<1>2. /\ rdone \in Nat /\ rdone <= Len(rlog) /\ Len(rlog) \in Nat /\ r.version \in Nat
      /\ r.version = Cardinality(Agg(rlog, rdone, t, a))
  <2>1. r \in ResourceRow /\ RowOK(r, rlog, rdone)
    BY DEF ResourceInv, RowsOK
  <2>2. r.version \in Nat
    BY <2>1 DEF ResourceRow
  <2> QED
    BY <1>1, <2>1, <2>2 DEF ResourceInv, RowsOK, LogOK, RowOK
<1>3. SUFFICES ASSUME q.seq = Cardinality(Agg(rlog, Len(rlog), t, a)) + 1
               PROVE  \E i \in 1 .. Len(rlog) : HoldsAt(rlog, Len(rlog), i) /\ rlog[i].table = t
                                                  /\ rlog[i].id = a /\ rlog[i].key = k
  BY <1>1 DEF Keeps
<1>4. Cardinality(Agg(rlog, Len(rlog), t, a)) \in Nat
  BY <1>2, AggFinite
<1>5. Cardinality(Agg(rlog, rdone, t, a)) = Cardinality(Agg(rlog, Len(rlog), t, a))
  BY <1>2, <1>3, <1>4
<1>6. Agg(rlog, rdone, t, a) = Agg(rlog, Len(rlog), t, a)
  <2>1. PICK n \in Nat : n = Len(rlog)
    BY <1>2
  <2>0. rdone \in Nat /\ rdone <= n
    BY <1>2, <2>1
  <2>2. Cardinality(Agg(rlog, rdone, t, a)) = Cardinality(Agg(rlog, n, t, a)) =>
           Agg(rlog, rdone, t, a) = Agg(rlog, n, t, a)
    BY ONLY <2>0, n \in Nat, LongerPrefix
  <2> QED
    BY <1>5, <2>1, <2>2
<1>7. PICK i \in 1 .. rdone : HoldsAt(rlog, rdone, i) /\ rlog[i].table = t /\ rlog[i].id = a /\ rlog[i].key = k
  BY <1>1 DEF RowKeysOK, Keyed
<1>8. \A j \in 1 .. Len(rlog) : rlog[j].table = t /\ rlog[j].id = a => j \in 1 .. rdone
  BY <1>6 DEF Agg
<1>9. ~Gone(rlog, Len(rlog), t, a)
  BY <1>7, <1>8 DEF HoldsAt, Gone
<1>10. HoldsAt(rlog, Len(rlog), i)
  BY <1>7, <1>8, <1>9 DEF HoldsAt
<1>11. i \in 1 .. Len(rlog)
  BY <1>2
<1> QED
  BY <1>7, <1>10, <1>11

\* A handler goes on with the key its aggregate has.
LEMMA KeptProceed ==
    ASSUME ResourceInv, KeysInv, NEW c, NEW r \in rrows, r.live, r.table \in {"project", "app"}, NEW p, NEW e,
           e.kind = "updated", e.table = r.table, e.id = r.id, e.key = r.key,
           Proceed(c, p, <<e>>, r.version + 1), UNCHANGED rraced
    PROVE  \E q : Moves(c, q)
<1>0. PICK b : b = <<e>>
  OBVIOUS
<1>1. b[1] = e /\ Proceed(c, p, b, r.version + 1)
  BY <1>0
<1>2. PICK q : /\ rreq' = [rreq EXCEPT ![c] = q] /\ UNCHANGED <<rlog, rdone, rrows>>
               /\ q.phase = p /\ q.batch = b /\ q.batch[1] = e /\ q.seq = r.version + 1
  BY <1>1, ProceedMoves
<1>3. Keeps(rlog, q)
  BY <1>2, RowKeeps DEF KeysInv
<1>4. ~Leaving(q)
  BY <1>2 DEF Leaving
<1>5. Moves(c, q)
  BY <1>2, <1>3, <1>4 DEF Moves
<1> QED
  BY <1>5

----------------------------------------------------------------------------
(* Owners and the view.                                                       *)

\* A member whose row is no owner's is none, or its number is taken.
LEMMA LoadedHarmless ==
    ASSUME ResourceInv, OwnersInv, NEW m \in rrows, m.table = "member", m.live, m.attr # "owner", NEW q,
           q.batch[1].id = m.id, q.seq = m.version + 1
    PROVE  Harmless(rlog, q)
<1>1. PICK a : a = m.id
  OBVIOUS
<1>2. /\ rdone \in Nat /\ rdone <= Len(rlog) /\ Len(rlog) \in Nat /\ m.version \in Nat
      /\ m.version = Cardinality(Agg(rlog, rdone, "member", a))
  <2>1. m \in ResourceRow /\ RowOK(m, rlog, rdone)
    BY DEF ResourceInv, RowsOK
  <2>2. m.version \in Nat
    BY <2>1 DEF ResourceRow
  <2> QED
    BY <1>1, <2>1, <2>2 DEF ResourceInv, RowsOK, LogOK, RowOK
<1>3. SUFFICES ASSUME q.seq = Cardinality(Agg(rlog, Len(rlog), "member", a)) + 1,
                      NEW i \in 1 .. Len(rlog), OwnerAt(rlog, i), rlog[i].id = a
               PROVE  FALSE
  BY <1>1 DEF Harmless
<1>4. Cardinality(Agg(rlog, Len(rlog), "member", a)) \in Nat
  BY <1>2, AggFinite
<1>5. Cardinality(Agg(rlog, rdone, "member", a)) = Cardinality(Agg(rlog, Len(rlog), "member", a))
  BY <1>2, <1>3, <1>4
<1>6. Agg(rlog, rdone, "member", a) = Agg(rlog, Len(rlog), "member", a)
  <2>1. PICK n \in Nat : n = Len(rlog)
    BY <1>2
  <2>0. rdone \in Nat /\ rdone <= n
    BY <1>2, <2>1
  <2>2. Cardinality(Agg(rlog, rdone, "member", a)) = Cardinality(Agg(rlog, n, "member", a)) =>
           Agg(rlog, rdone, "member", a) = Agg(rlog, n, "member", a)
    BY ONLY <2>0, n \in Nat, LongerPrefix
  <2> QED
    BY <1>5, <2>1, <2>2
<1>7. PICK j \in Agg(rlog, rdone, "member", a) :
          rlog[j].attr = m.attr /\ \A x \in Agg(rlog, rdone, "member", a) : x <= j
  BY <1>1 DEF OwnersInv, RolesOK
<1>8. i \in Agg(rlog, rdone, "member", a)
  BY <1>3, <1>6 DEF Agg, OwnerAt
<1>9. j \in 1 .. Len(rlog) /\ rlog[j].table = "member" /\ rlog[j].id = a
  BY <1>6, <1>7 DEF Agg
<1>10. j <= i /\ i <= j
  BY <1>3, <1>7, <1>8, <1>9 DEF OwnerAt, LastAt
<1>11. i = j
  BY <1>3, <1>9, <1>10
<1> QED
  BY <1>3, <1>7, <1>11 DEF OwnerAt

\* Unless someone is leaving, the owners of the view are owners.
LEMMA ViewOwner ==
    ASSUME ResourceInv, OwnersInv, NEW m \in rrows, m.table = "member", m.live, m.attr = "owner",
           \A i \in Unprojected : ~(rlog[i].table = "member" /\ rlog[i].kind # "created")
    PROVE  \E i \in 1 .. Len(rlog) : OwnerAt(rlog, i) /\ rlog[i].ref = m.ref /\ rlog[i].id = m.id
<1>1. PICK a : a = m.id
  OBVIOUS
<1>2. /\ rdone \in Nat /\ rdone <= Len(rlog) /\ Len(rlog) \in Nat /\ LogOK(rlog, sversions)
      /\ rlog \in Seq(Logged)
  BY DEF ResourceInv, RowsOK, LogOK
<1>3. PICK i \in Agg(rlog, rdone, "member", a) :
          rlog[i].attr = "owner" /\ rlog[i].kind # "deleted" /\ \A j \in Agg(rlog, rdone, "member", a) : j <= i
  BY <1>1 DEF OwnersInv, RolesOK
<1>4. i \in 1 .. rdone /\ i \in 1 .. Len(rlog) /\ rlog[i].table = "member" /\ rlog[i].id = a
  BY <1>2 DEF Agg
<1>5. ASSUME NEW j \in 1 .. Len(rlog), rlog[j].table = "member", rlog[j].id = a PROVE j \in 1 .. rdone
  <2>1. SUFFICES ASSUME j \notin 1 .. rdone PROVE FALSE
    OBVIOUS
  <2>2. j \in Unprojected
    BY <1>2, <1>5, <2>1 DEF Unprojected
  <2>3. rlog[j].kind = "created"
    BY <1>5, <2>2
  <2>4. Agg(rlog, j - 1, "member", a) = {}
    BY <1>2, <1>5, <2>3 DEF LogOK, EventOK
  <2>5. i \in 1 .. (j - 1)
    BY <1>2, <1>4, <2>1
  <2> QED
    BY <1>4, <2>4, <2>5 DEF Agg
<1>6. \A j \in 1 .. Len(rlog) : rlog[j].table = "member" /\ rlog[j].id = a => j <= i
  BY <1>3, <1>5 DEF Agg
<1>7. OwnerAt(rlog, i)
  BY <1>3, <1>4, <1>6 DEF OwnerAt, LastAt
<1>8. i \in Agg(rlog, Len(rlog), "member", m.id)
  BY <1>1, <1>4 DEF Agg
<1>9. rlog[i].ref = m.ref
  BY <1>8, RowFacts
<1> QED
  BY <1>1, <1>4, <1>7, <1>9

\* Two owners in the view: one is another than the member in hand.
LEMMA OtherOwner ==
    ASSUME ResourceInv, NEW o, NEW a, Cardinality(OwnersIn(o)) > 1
    PROVE  \E m \in OwnersIn(o) : m.id # a
<1>1. SUFFICES ASSUME \A m \in OwnersIn(o) : m.id = a PROVE FALSE
  OBVIOUS
<1>2. \A m, r \in OwnersIn(o) : m = r
  BY <1>1 DEF OwnersIn, LiveOf, RowsOf, ResourceInv, RowsOK
<1>3. CASE OwnersIn(o) = {}
  <2>1. Cardinality(OwnersIn(o)) = 0
    BY <1>3, FS_EmptySet
  <2> QED
    BY <2>1
<1>4. CASE OwnersIn(o) # {}
  <2>1. PICK m : OwnersIn(o) = {m}
    BY <1>2, <1>4
  <2>2. Cardinality({m}) = 1
    BY FS_Singleton
  <2> QED
    BY <2>1, <2>2
<1> QED
  BY <1>3, <1>4

\* update_member and delete_member count the owners.
LEMMA CountMoves ==
    ASSUME ResourceInv, OwnersInv, NEW c \in Handlers, CountOwners(c)
    PROVE  \E q : Moves(c, q)
<1>1. PICK e \in ResourceEvent : /\ rreq[c].batch = <<e>> /\ rreq[c].batch[1] = e
                                 /\ Existing(rlog, sversions, e, rreq[c].seq, "loaded")
  BY LoadedFacts DEF CountOwners
<1>2. e.table = "member" /\ e.kind # "created" /\ Cardinality(OwnersIn(e.ref)) > 1
  BY <1>1 DEF CountOwners, Existing
<1>3. PICK q : q = [rreq[c] EXCEPT !.phase = "checked"]
  OBVIOUS
<1>4. q.phase = "checked" /\ q.batch = <<e>> /\ q.batch[1] = e
  <2>1. rreq[c] \in ResourceRequest
    BY DEF ResourceInv
  <2>2. q.phase = "checked" /\ q.batch = rreq[c].batch
    BY <1>3, <2>1 DEF ResourceRequest
  <2> QED
    BY <1>1, <2>2
<1>5. rreq' = [rreq EXCEPT ![c] = q] /\ UNCHANGED <<rlog, rdone, rrows>> /\ rraced \subseteq rraced'
  BY <1>3 DEF CountOwners
<1>6. ~SetsKey(e)
  BY <1>2 DEF SetsKey
<1>7. \A t, k : ~Claims(q, t, k)
  BY <1>4, <1>6 DEF Claims
<1>8. CASE OwnerLeaving(c)
  <2>1. <<"owner", None>> \in rraced'
    BY <1>8 DEF CountOwners
  <2>2. Moves(c, q)
    BY <1>5, <1>7, <2>1 DEF Moves
  <2> QED
    BY <2>2
<1>9. CASE ~OwnerLeaving(c)
  <2>1. /\ \A i \in Unprojected : ~(rlog[i].table = "member" /\ rlog[i].kind # "created")
        /\ \A d \in Handlers \ {c} : ~Leaving(rreq[d])
    BY <1>9 DEF OwnerLeaving, Leaving
  <2>2. PICK m \in OwnersIn(e.ref) : m.id # e.id
    BY <1>2, OtherOwner
  <2>3. m \in rrows /\ m.table = "member" /\ m.live /\ m.attr = "owner" /\ m.ref = e.ref
    BY <2>2 DEF OwnersIn, LiveOf, RowsOf
  <2>4. PICK i \in 1 .. Len(rlog) : OwnerAt(rlog, i) /\ rlog[i].ref = m.ref /\ rlog[i].id = m.id
    BY <2>1, <2>3, ViewOwner
  <2>5. HasOther(rlog, e.ref, e.id)
    BY <2>2, <2>3, <2>4 DEF HasOther
  <2>6. Moves(c, q)
    BY <1>4, <1>5, <1>7, <2>1, <2>5 DEF Moves
  <2> QED
    BY <2>6
<1> QED
  BY <1>8, <1>9

----------------------------------------------------------------------------
(* The handlers.                                                              *)

LEMMA PlainOne ==
    ASSUME NEW c, NEW p, NEW e, NEW n, Proceed(c, p, <<e>>, n), UNCHANGED rraced,
           \/ p = "loaded"
           \/ e.table # "member" /\ (e.table \notin Keyed \/ ~SetsKey(e))
    PROVE  \E q : Moves(c, q)
<1>1. PICK b : b = <<e>>
  OBVIOUS
<1>2. b[1] = e /\ Proceed(c, p, b, n)
  BY <1>1
<1> QED
  BY <1>2, PlainProceed

\* A member is loaded: an owner has still to be counted.
LEMMA MemberMoves ==
    ASSUME ResourceInv, OwnersInv, NEW c, NEW m \in LiveOf("member"), NEW e, e.table = "member",
           e.kind # "created", e.id = m.id,
           Proceed(c, IF m.attr = "owner" THEN "loaded" ELSE "checked", <<e>>, m.version + 1), UNCHANGED rraced
    PROVE  \E q : Moves(c, q)
<1>1. m \in rrows /\ m.table = "member" /\ m.live
  BY DEF LiveOf, RowsOf
<1>2. CASE m.attr = "owner"
  <2>1. Proceed(c, "loaded", <<e>>, m.version + 1)
    BY <1>2
  <2> QED
    BY <2>1, PlainOne
<1>3. CASE m.attr # "owner"
  <2>1. PICK b : b = <<e>>
    OBVIOUS
  <2>2. b[1] = e /\ Proceed(c, "checked", b, m.version + 1)
    BY <1>3, <2>1
  <2>3. PICK q : /\ rreq' = [rreq EXCEPT ![c] = q] /\ UNCHANGED <<rlog, rdone, rrows>>
                 /\ q.phase = "checked" /\ q.batch = b /\ q.batch[1] = e /\ q.seq = m.version + 1
    BY <2>2, ProceedMoves
  <2>4. q.batch[1].id = m.id /\ q.seq = m.version + 1
    BY <2>3
  <2>5. Harmless(rlog, q)
    BY <1>1, <1>3, <2>4, LoadedHarmless
  <2>6. ~SetsKey(e)
    BY DEF SetsKey
  <2>7. \A t, k : ~Claims(q, t, k)
    BY <2>3, <2>6 DEF Claims
  <2>8. rraced \subseteq rraced'
    OBVIOUS
  <2>9. Moves(c, q)
    BY <2>3, <2>5, <2>7, <2>8 DEF Moves
  <2> QED
    BY <2>9
<1> QED
  BY <1>2, <1>3

\* The handlers of organizations and members.
LEMMA TenancyMoves ==
    ASSUME ResourceInv, OwnersInv, KeysInv, NEW c \in Handlers, OrgNext(c)
    PROVE  \E q : Moves(c, q)
<1>1. ASSUME NEW k \in Keys, CreateOrg(c, k) PROVE \E q : Moves(c, q)
  <2>1. PICK b, e : b = OrgWithOwner(k) /\ e = OrgWithOwner(k)[1]
    OBVIOUS
  <2>2. b[1] = e /\ e.table = "org"
    BY <2>1, BatchHeads
  <2>3. Proceed(c, "checked", b, 1) /\ UNCHANGED rraced
    BY <1>1, <2>1 DEF CreateOrg
  <2>4. e.table # "member" /\ e.table \notin Keyed
    BY <2>2 DEF Keyed
  <2> QED
    BY <2>2, <2>3, <2>4, PlainProceed
<1>2. ASSUME NEW o \in RowsOf("org"), UpdateOrg(c, o) PROVE \E q : Moves(c, q)
  <2>1. PICK e : e = Ev("org", "updated", o.id, None, 0, None)
    OBVIOUS
  <2>2. e.table = "org"
    BY <2>1 DEF Ev
  <2>3. e.table # "member" /\ e.table \notin Keyed
    BY <2>2 DEF Keyed
  <2>4. Proceed(c, "checked", <<e>>, o.version + 1) /\ UNCHANGED rraced
    BY <1>2, <2>1 DEF UpdateOrg, OrgUpdated
  <2> QED
    BY <2>3, <2>4, PlainOne
<1>3. ASSUME NEW o \in RowsOf("org"), NEW k \in Keys, NEW role \in {"owner", "readonly"},
             CreateMember(c, o, k, role)
      PROVE  \E q : Moves(c, q)
  <2>1. PICK e : e = Ev("member", "created", -1, k, o.id, role)
    OBVIOUS
  <2>2. e.table = "member" /\ e.kind = "created" /\ e.key = k /\ e.ref = o.id
    BY <2>1 DEF Ev
  <2>3. Proceed(c, "checked", <<e>>, 1) /\ CheckedInView(c, e.table, e.key)
    BY <1>3, <2>1, <2>2 DEF CreateMember, MemberAdded
  <2>4. \A r \in LiveOf(e.table) : r.key = e.key => e.table = "member" /\ r.ref # e.ref
    BY <1>3, <2>2 DEF CreateMember
  <2>5. e.table \in Keyed
    BY <2>2 DEF Keyed
  <2> QED
    BY <2>2, <2>3, <2>4, <2>5, CheckedProceed
<1>4. ASSUME NEW m \in LiveOf("member"), NEW role \in {"owner", "admin"}, LoadMember(c, m, role)
      PROVE  \E q : Moves(c, q)
  <2>1. PICK e : e = Ev("member", "updated", m.id, m.key, m.ref, role)
    OBVIOUS
  <2>2. e.table = "member" /\ e.kind # "created" /\ e.id = m.id
    BY <2>1 DEF Ev
  <2>3. Proceed(c, IF m.attr = "owner" THEN "loaded" ELSE "checked", <<e>>, m.version + 1) /\ UNCHANGED rraced
    BY <1>4, <2>1 DEF LoadMember, RoleUpdated
  <2> QED
    BY <2>2, <2>3, MemberMoves
<1>5. ASSUME NEW m \in LiveOf("member"), LoadMemberToDelete(c, m) PROVE \E q : Moves(c, q)
  <2>1. PICK e : e = Ev("member", "deleted", m.id, m.key, m.ref, m.attr)
    OBVIOUS
  <2>2. e.table = "member" /\ e.kind # "created" /\ e.id = m.id
    BY <2>1 DEF Ev
  <2>3. Proceed(c, IF m.attr = "owner" THEN "loaded" ELSE "checked", <<e>>, m.version + 1) /\ UNCHANGED rraced
    BY <1>5, <2>1 DEF LoadMemberToDelete, MemberRemoved
  <2> QED
    BY <2>2, <2>3, MemberMoves
<1>6. ASSUME CountOwners(c) PROVE \E q : Moves(c, q)
  BY <1>6, CountMoves
<1> QED
  BY <1>1, <1>2, <1>3, <1>4, <1>5, <1>6 DEF OrgNext

\* A name was checked against the view for an update.
LEMMA NameMoves ==
    ASSUME ResourceInv, KeysInv, NEW c \in Handlers, NEW t \in {"project", "app"}, rreq[c].phase = "loaded",
           rreq[c].batch[1].table = t, rreq' = [rreq EXCEPT ![c].phase = "checked"],
           \A r \in LiveOf(t) : r.id # rreq[c].batch[1].id => r.key # rreq[c].batch[1].key,
           CheckedInView(c, t, rreq[c].batch[1].key), UNCHANGED <<rlog, rdone, rrows>>
    PROVE  \E q : Moves(c, q)
<1>1. PICK e : e = rreq[c].batch[1]
  OBVIOUS
<1>2. PICK q : q = [rreq[c] EXCEPT !.phase = "checked"]
  OBVIOUS
<1>3. rreq[c] \in ResourceRequest
  BY DEF ResourceInv
<1>4. q.batch = rreq[c].batch
  BY <1>2, <1>3 DEF ResourceRequest
<1>5. q.batch[1] = e /\ rreq' = [rreq EXCEPT ![c] = q]
  BY <1>1, <1>2, <1>4
<1>6. e.table = t /\ e.table \in Keyed /\ e.table # "member"
  BY <1>1 DEF Keyed
<1>7. CheckedInView(c, e.table, e.key)
  BY <1>1
<1>8. \A r \in LiveOf(e.table) : r.key = e.key /\ r.id # e.id => e.table = "member" /\ r.ref # e.ref
  BY <1>1
<1>9. Moves(c, q)
  BY <1>5, <1>6, <1>7, <1>8, CheckedMove
<1> QED
  BY <1>9

\* The handlers of projects.
LEMMA ProjectMoves ==
    ASSUME ResourceInv, KeysInv, NEW c \in Handlers, ProjectNext(c)
    PROVE  \E q : Moves(c, q)
<1>1. ASSUME NEW n \in Keys, CreateProject(c, n) PROVE \E q : Moves(c, q)
  <2>1. PICK e : e = Ev("project", "created", -1, n, 0, None)
    OBVIOUS
  <2>2. e.table = "project" /\ e.kind = "created" /\ e.key = n
    BY <2>1 DEF Ev
  <2>3. Proceed(c, "checked", <<e>>, 1) /\ CheckedInView(c, e.table, e.key)
    BY <1>1, <2>1, <2>2 DEF CreateProject, ProjectCreated
  <2>4. \A r \in LiveOf(e.table) : r.key = e.key => e.table = "member" /\ r.ref # e.ref
    BY <1>1, <2>2 DEF CreateProject
  <2>5. e.table \in Keyed
    BY <2>2 DEF Keyed
  <2> QED
    BY <2>2, <2>3, <2>4, <2>5, CheckedProceed
<1>2. ASSUME NEW r \in LiveOf("project"), NEW n \in Keys, LoadProject(c, r, n) PROVE \E q : Moves(c, q)
  <2>1. PICK e : e = Ev("project", "updated", r.id, n, 0, None)
    OBVIOUS
  <2>2. e.table = "project" /\ e.kind = "updated" /\ e.key = n /\ e.id = r.id
    BY <2>1 DEF Ev
  <2>3. r \in rrows /\ r.live /\ r.table = "project"
    BY DEF LiveOf, RowsOf
  <2>4. UNCHANGED rraced
    BY <1>2 DEF LoadProject
  <2>5. CASE n = r.key
    <3>1. Proceed(c, "checked", <<e>>, r.version + 1)
      BY <1>2, <2>1, <2>5 DEF LoadProject, ProjectUpdated
    <3> QED
      BY <2>2, <2>3, <2>4, <2>5, <3>1, KeptProceed
  <2>6. CASE n # r.key
    <3>1. Proceed(c, "loaded", <<e>>, r.version + 1)
      BY <1>2, <2>1, <2>6 DEF LoadProject, ProjectUpdated
    <3> QED
      BY <2>4, <3>1, PlainOne
  <2> QED
    BY <2>5, <2>6
<1>3. ASSUME CheckProjectName(c) PROVE \E q : Moves(c, q)
  <2>1. /\ rreq[c].phase = "loaded" /\ rreq[c].batch[1].table = "project"
        /\ rreq' = [rreq EXCEPT ![c].phase = "checked"]
        /\ \A r \in LiveOf("project") : r.id # rreq[c].batch[1].id => r.key # rreq[c].batch[1].key
        /\ CheckedInView(c, "project", rreq[c].batch[1].key) /\ UNCHANGED <<rlog, rdone, rrows>>
    BY <1>3 DEF CheckProjectName
  <2> QED
    BY <2>1, NameMoves
<1> QED
  BY <1>1, <1>2, <1>3 DEF ProjectNext

\* The handlers of applications and releases.
LEMMA AppMoves ==
    ASSUME ResourceInv, KeysInv, NEW c \in Handlers, AppNext(c)
    PROVE  \E q : Moves(c, q)
<1>1. ASSUME NEW n \in Keys, CreateApp(c, n) PROVE \E q : Moves(c, q)
  <2>1. PICK e : e = Ev("app", "created", -1, n, 0, None)
    OBVIOUS
  <2>2. e.table = "app" /\ e.kind = "created" /\ e.key = n
    BY <2>1 DEF Ev
  <2>3. Proceed(c, "checked", <<e>>, 1) /\ CheckedInView(c, e.table, e.key)
    BY <1>1, <2>1, <2>2 DEF CreateApp, AppCreated
  <2>4. \A r \in LiveOf(e.table) : r.key = e.key => e.table = "member" /\ r.ref # e.ref
    BY <1>1, <2>2 DEF CreateApp
  <2>5. e.table \in Keyed
    BY <2>2 DEF Keyed
  <2> QED
    BY <2>2, <2>3, <2>4, <2>5, CheckedProceed
<1>2. ASSUME NEW r \in LiveOf("app"), NEW n \in Keys \cup {None}, LoadApp(c, r, n) PROVE \E q : Moves(c, q)
  <2>1. PICK e : e = Ev("app", "updated", r.id, n, 0, None)
    OBVIOUS
  <2>2. e.table = "app" /\ e.kind = "updated" /\ e.key = n /\ e.id = r.id
    BY <2>1 DEF Ev
  <2>3. r \in rrows /\ r.live /\ r.table = "app"
    BY DEF LiveOf, RowsOf
  <2>4. UNCHANGED rraced
    BY <1>2 DEF LoadApp
  <2>5. CASE n = None
    <3>1. Proceed(c, "checked", <<e>>, r.version + 1)
      BY <1>2, <2>1, <2>5 DEF LoadApp, AppUpdated
    <3>2. ~SetsKey(e) /\ e.table # "member"
      BY <2>2, <2>5 DEF SetsKey
    <3> QED
      BY <2>4, <3>1, <3>2, PlainOne
  <2>6. CASE n = r.key
    <3>1. Proceed(c, "checked", <<e>>, r.version + 1)
      BY <1>2, <2>1, <2>6 DEF LoadApp, AppUpdated
    <3> QED
      BY <2>2, <2>3, <2>4, <2>6, <3>1, KeptProceed
  <2>7. CASE n \notin {None, r.key}
    <3>1. Proceed(c, "loaded", <<e>>, r.version + 1)
      BY <1>2, <2>1, <2>7 DEF LoadApp, AppUpdated
    <3> QED
      BY <2>4, <3>1, PlainOne
  <2> QED
    BY <2>5, <2>6, <2>7
<1>3. ASSUME CheckAppName(c) PROVE \E q : Moves(c, q)
  <2>1. /\ rreq[c].phase = "loaded" /\ rreq[c].batch[1].table = "app"
        /\ rreq' = [rreq EXCEPT ![c].phase = "checked"]
        /\ \A r \in LiveOf("app") : r.id # rreq[c].batch[1].id => r.key # rreq[c].batch[1].key
        /\ CheckedInView(c, "app", rreq[c].batch[1].key) /\ UNCHANGED <<rlog, rdone, rrows>>
    BY <1>3 DEF CheckAppName
  <2> QED
    BY <2>1, NameMoves
<1>4. ASSUME NEW r \in LiveOf("app"), DeleteApp(c, r) PROVE \E q : Moves(c, q)
  <2>1. PICK e : e = Ev("app", "deleted", r.id, r.key, 0, None)
    OBVIOUS
  <2>2. e.table = "app" /\ e.kind = "deleted"
    BY <2>1 DEF Ev
  <2>3. ~SetsKey(e) /\ e.table # "member"
    BY <2>2 DEF SetsKey
  <2>4. Proceed(c, "checked", <<e>>, r.version + 1) /\ UNCHANGED rraced
    BY <1>4, <2>1 DEF DeleteApp, AppDeleted
  <2> QED
    BY <2>3, <2>4, PlainOne
<1>5. ASSUME NEW a \in LiveOf("app"), CreateRelease(c, a) PROVE \E q : Moves(c, q)
  <2>1. PICK e : e = Ev("release", "created", -1, None, a.id, None)
    OBVIOUS
  <2>2. e.table = "release"
    BY <2>1 DEF Ev
  <2>3. e.table \notin Keyed /\ e.table # "member"
    BY <2>2 DEF Keyed
  <2>4. Proceed(c, "checked", <<e>>, 1) /\ UNCHANGED rraced
    BY <1>5, <2>1 DEF CreateRelease, ReleaseCreated
  <2> QED
    BY <2>3, <2>4, PlainOne
<1> QED
  BY <1>1, <1>2, <1>3, <1>4, <1>5 DEF AppNext

\* The handlers of routes, which find a hostname in the log itself.
LEMMA RouteMoves ==
    ASSUME ResourceInv, NEW c \in Handlers, RouteNext(c)
    PROVE  \E q : Moves(c, q)
<1>1. ASSUME NEW h \in Keys, CreateRoute(c, h) PROVE \E q : Moves(c, q)
  <2>1. PICK e, b : e = Ev("route", "created", -1, h, 0, None) /\ b = <<e>>
    OBVIOUS
  <2>2. e.table = "route" /\ e.kind = "created" /\ e.key = h /\ b[1] = e
    BY <2>1 DEF Ev
  <2>3. Proceed(c, "checked", b, 1) /\ CheckedInLog(c, "route", h) /\ ~HostnameExists(h)
    BY <1>1, <2>1 DEF CreateRoute, RouteCreated
  <2>4. PICK q : /\ rreq' = [rreq EXCEPT ![c] = q] /\ UNCHANGED <<rlog, rdone, rrows>>
                 /\ q.phase = "checked" /\ q.batch = b /\ q.batch[1] = e /\ q.seq = 1
    BY <2>2, <2>3, ProceedMoves
  <2>5. ASSUME NEW i \in 1 .. Len(rlog), HoldsAt(rlog, Len(rlog), i), Meet(e, rlog[i]) PROVE FALSE
    <3>1. rlog[i].table = "route" /\ rlog[i].key = h
      BY <2>2, <2>5 DEF Meet
    <3>2. rlog[i].kind = "created" /\ ~Gone(rlog, Len(rlog), "route", rlog[i].id)
      BY <2>5, <3>1 DEF HoldsAt, SetsKey
    <3> QED
      BY <2>3, <3>1, <3>2 DEF HostnameExists, Gone
  <2>6. Free(rlog, e)
    BY <2>5 DEF Free
  <2>7. \/ <<"route", h>> \in rraced'
        \/ \A d \in Handlers \ {c} : ~Claims(rreq[d], "route", h)
    BY <2>3, NoRivals DEF CheckedInLog
  <2>8. rraced \subseteq rraced'
    BY <2>3 DEF CheckedInLog
  <2>9. ~Leaving(q) /\ \A t, k : Claims(q, t, k) => t = "route" /\ k = h
    BY <2>2, <2>4 DEF Leaving, Claims
  <2>10. Moves(c, q)
    BY <2>4, <2>6, <2>7, <2>8, <2>9 DEF Moves
  <2> QED
    BY <2>10
<1>2. ASSUME NEW id, NEW x, NEW n, NEW kind \in {"updated", "deleted"},
             Proceed(c, "checked", <<Ev("route", kind, id, x, 0, None)>>, n), UNCHANGED rraced
      PROVE  \E q : Moves(c, q)
  <2>1. PICK e : e = Ev("route", kind, id, x, 0, None)
    OBVIOUS
  <2>2. e.table = "route" /\ e.kind = kind
    BY <2>1 DEF Ev
  <2>3. ~SetsKey(e) /\ e.table # "member"
    BY <2>2 DEF SetsKey
  <2>4. Proceed(c, "checked", <<e>>, n)
    BY <1>2, <2>1
  <2> QED
    BY <1>2, <2>3, <2>4, PlainOne
<1>3. ASSUME NEW id, UpdateRoute(c, id) PROVE \E q : Moves(c, q)
  <2>1. /\ Proceed(c, "checked", <<Ev("route", "updated", id, RouteState(id).key, 0, None)>>,
                   RouteState(id).version + 1)
        /\ UNCHANGED rraced
    BY <1>3 DEF UpdateRoute, RouteUpdated
  <2> QED
    BY <1>2, <2>1
<1>4. ASSUME NEW id, DeleteRoute(c, id) PROVE \E q : Moves(c, q)
  <2>1. /\ Proceed(c, "checked", <<Ev("route", "deleted", id, RouteState(id).key, 0, None)>>,
                   RouteState(id).version + 1)
        /\ UNCHANGED rraced
    BY <1>4 DEF DeleteRoute, RouteDeleted
  <2> QED
    BY <1>2, <2>1
<1> QED
  BY <1>1, <1>3, <1>4 DEF RouteNext

\* A loaded event gets its number.
LEMMA NumberMoves ==
    ASSUME ResourceInv, NEW c \in Handlers, rreq[c].phase = "loaded",
           rreq[c].batch[1].table \in {"bundle", "volume", "attachment"}, NEW p, NEW n,
           rreq' = [rreq EXCEPT ![c].phase = p, ![c].seq = n], UNCHANGED <<rlog, rdone, rrows, rraced>>
    PROVE  \E q : Moves(c, q)
<1>1. PICK e \in ResourceEvent : /\ rreq[c].batch = <<e>> /\ rreq[c].batch[1] = e
                                 /\ Existing(rlog, sversions, e, rreq[c].seq, "loaded")
  BY LoadedFacts
<1>2. PICK q : q = [rreq[c] EXCEPT !.phase = p, !.seq = n]
  OBVIOUS
<1>3. rreq[c] \in ResourceRequest /\ rreq \in [Handlers -> ResourceRequest]
  BY DEF ResourceInv
<1>4. q.batch = rreq[c].batch
  BY <1>2, <1>3 DEF ResourceRequest
<1>5. q.batch[1] = e
  BY <1>1, <1>4
<1>6. rreq' = [rreq EXCEPT ![c] = q]
  BY <1>2, <1>3
<1>7. e.kind # "created" /\ e.table \in {"bundle", "volume", "attachment"}
  BY <1>1 DEF Existing
<1>8. ~SetsKey(e) /\ e.table # "member"
  BY <1>7 DEF SetsKey
<1>9. rraced \subseteq rraced'
  OBVIOUS
<1>10. Moves(c, q)
  BY <1>5, <1>6, <1>8, <1>9, PlainMove
<1> QED
  BY <1>10

\* put_secrets stores the material.
LEMMA StoreMoves ==
    ASSUME ResourceInv, NEW c \in Handlers, StoreSecretMaterial(c)
    PROVE  \E q : Moves(c, q)
<1>0. PICK q : q = rreq[c]
  OBVIOUS
<1>1. /\ q.phase = "numbered" /\ q \in ResourceRequest /\ Pending(rlog, sversions, q)
      /\ rreq \in [Handlers -> ResourceRequest]
  BY <1>0 DEF StoreSecretMaterial, ResourceInv, RequestOK
<1>2. PICK e : e = q.batch[1]
  OBVIOUS
<1>3. \/ e \in ResourceEvent /\ Existing(rlog, sversions, e, q.seq, "numbered")
      \/ \E v \in Values : e = Ev("bundle", "created", 0, SecretEnv, 0, v)
  BY <1>1, <1>2 DEF Pending
<1>4. PICK n : n = Cardinality(sversions) + 1
  OBVIOUS
<1>5. PICK p : p = [q EXCEPT !.phase = "checked", !.batch = VersionSet(e, n)]
  OBVIOUS
<1>6. rreq' = [rreq EXCEPT ![c] = p] /\ UNCHANGED <<rlog, rdone, rrows, rraced>>
  <2>1. /\ rreq' = [rreq EXCEPT ![c].phase = "checked", ![c].batch = VersionSet(e, n)]
        /\ UNCHANGED <<rlog, rdone, rrows, rraced>>
    BY <1>0, <1>2, <1>4 DEF StoreSecretMaterial
  <2>2. [rreq EXCEPT ![c].phase = "checked", ![c].batch = VersionSet(e, n)] = [rreq EXCEPT ![c] = p]
    BY <1>0, <1>1, <1>5
  <2> QED
    BY <2>1, <2>2
<1>7. p.phase = "checked" /\ p.batch = VersionSet(e, n)
  BY <1>1, <1>5 DEF ResourceRequest
<1>8. rraced \subseteq rraced'
  BY <1>6
<1>9. CASE e \in ResourceEvent /\ Existing(rlog, sversions, e, q.seq, "numbered")
  <2>1. PICK f : f = [e EXCEPT !.ref = n]
    OBVIOUS
  <2>2. e.kind # "created" /\ e.table = "bundle"
    BY <1>9 DEF Existing
  <2>3. f.table = "bundle" /\ f.kind # "created"
    BY <1>9, <2>1, <2>2 DEF ResourceEvent
  <2>4. VersionSet(e, n)[1] = f
    BY <2>1, <2>2 DEF VersionSet
  <2>5. p.batch[1] = f
    BY <1>7, <2>4
  <2>6. f.table # "member" /\ ~SetsKey(f)
    BY <2>3 DEF SetsKey
  <2>7. Moves(c, p)
    BY <1>6, <1>8, <2>5, <2>6, PlainMove
  <2> QED
    BY <2>7
<1>10. CASE \E v \in Values : e = Ev("bundle", "created", 0, SecretEnv, 0, v)
  <2>1. e.table = "bundle" /\ e.kind = "created" /\ e.id = 0
    BY <1>10 DEF Ev
  <2>2. PICK f : f = Ev("bundle", "created", n, e.key, 0, None)
    OBVIOUS
  <2>3. f.table = "bundle" /\ f.kind = "created" /\ f.key = e.key
    BY <2>2 DEF Ev
  <2>4. VersionSet(e, n)[1] = f
    BY <2>1, <2>2 DEF VersionSet
  <2>5. p.batch[1] = f
    BY <1>7, <2>4
  <2>6. ~Leaving(p) /\ \A t, k : Claims(p, t, k) => t = "bundle" /\ k = e.key
    BY <2>3, <2>5 DEF Leaving, Claims
  <2>7. Claims(rreq[c], "bundle", e.key) /\ rreq[c].batch[1].kind = "created"
    BY <1>0, <1>1, <1>2, <2>1 DEF Claims, SetsKey
  <2>8. ASSUME Free(rlog, e) PROVE Free(rlog, f)
    <3>1. rlog \in Seq(Logged)
      BY DEF ResourceInv, LogOK
    <3>2. ASSUME NEW i \in 1 .. Len(rlog) PROVE rlog[i].id # 0
      <4>1. rlog[i] \in Logged
        BY <3>1
      <4>2. rlog[i].id >= 1 /\ rlog[i].id \in Int
        BY <4>1 DEF Logged, ResourceEvent
      <4> QED
        BY <4>2
    <3> QED
      BY <2>1, <2>3, <2>8, <3>2 DEF Free, Meet
  <2>9. Moves(c, p)
    BY <1>0, <1>2, <1>6, <1>8, <2>5, <2>6, <2>7, <2>8 DEF Moves
  <2> QED
    BY <2>9
<1> QED
  BY <1>3, <1>9, <1>10

\* A handler is done.
LEMMA EndMoves ==
    ASSUME NEW c, rreq' = [rreq EXCEPT ![c] = NoRequest], UNCHANGED <<rlog, rdone, rrows, rraced>>
    PROVE  \E q : Moves(c, q)
<1>1. NoRequest.phase \notin {"numbered", "checked"} /\ rraced \subseteq rraced'
  BY DEF NoRequest
<1>2. Moves(c, NoRequest)
  BY <1>1, PlainMove
<1> QED
  BY <1>2

\* The handlers of secrets.
LEMMA SecretMoves ==
    ASSUME ResourceInv, KeysInv, NEW c \in Handlers, SecretNext(c)
    PROVE  \E q : Moves(c, q)
<1>1. ASSUME NEW v \in Values, LoadBundle(c, v) PROVE \E q : Moves(c, q)
  <2>1. CASE RowsOf("bundle") # {}
    <3>1. PICK r \in RowsOf("bundle") :
            Proceed(c, "loaded", <<Ev("bundle", "updated", r.id, SecretEnv, 0, v)>>, 0) /\ UNCHANGED rraced
      BY <1>1, <2>1 DEF LoadBundle
    <3>2. PICK e : e = Ev("bundle", "updated", r.id, SecretEnv, 0, v)
      OBVIOUS
    <3>3. Proceed(c, "loaded", <<e>>, 0) /\ UNCHANGED rraced
      BY <3>1, <3>2
    <3> QED
      BY <3>3, PlainOne
  <2>2. CASE RowsOf("bundle") = {}
    <3>1. PICK e : e = Ev("bundle", "created", 0, SecretEnv, 0, v)
      OBVIOUS
    <3>2. e.table = "bundle" /\ e.kind = "created" /\ e.key = SecretEnv
      BY <3>1 DEF Ev
    <3>3. Proceed(c, "numbered", <<e>>, 1) /\ CheckedInView(c, e.table, e.key)
      BY <1>1, <2>2, <3>1, <3>2 DEF LoadBundle
    <3>4. \A r \in LiveOf(e.table) : r.key = e.key => e.table = "member" /\ r.ref # e.ref
      BY <2>2, <3>2 DEF LiveOf
    <3>5. e.table \in Keyed
      BY <3>2 DEF Keyed
    <3> QED
      BY <3>2, <3>3, <3>4, <3>5, CheckedProceed
  <2> QED
    BY <2>1, <2>2
<1>2. ASSUME NumberBundle(c) PROVE \E q : Moves(c, q)
  <2>1. PICK n : n = LogSeq(Len(rlog), "bundle", rreq[c].batch[1].id) + 1
    OBVIOUS
  <2>2. /\ rreq[c].phase = "loaded" /\ rreq[c].batch[1].table \in {"bundle", "volume", "attachment"}
        /\ rreq' = [rreq EXCEPT ![c].phase = "numbered", ![c].seq = n]
        /\ UNCHANGED <<rlog, rdone, rrows, rraced>>
    BY <1>2, <2>1 DEF NumberBundle
  <2> QED
    BY <2>2, NumberMoves
<1>3. ASSUME StoreSecretMaterial(c) PROVE \E q : Moves(c, q)
  BY <1>3, StoreMoves
<1>4. ASSUME MaterialRefused(c) PROVE \E q : Moves(c, q)
  BY <1>4, EndMoves DEF MaterialRefused
<1> QED
  BY <1>1, <1>2, <1>3, <1>4 DEF SecretNext

\* The handlers of volumes, snapshots, restores and attachments.
LEMMA VolumeMoves ==
    ASSUME ResourceInv, KeysInv, NEW c \in Handlers, VolumeNext(c)
    PROVE  \E q : Moves(c, q)
<1>1. ASSUME CreateVolume(c) PROVE \E q : Moves(c, q)
  <2>1. PICK e : e = Ev("volume", "created", -1, None, 0, None)
    OBVIOUS
  <2>2. e.table = "volume"
    BY <2>1 DEF Ev
  <2>3. e.table # "member" /\ e.table \notin Keyed
    BY <2>2 DEF Keyed
  <2>4. Proceed(c, "checked", <<e>>, 1) /\ UNCHANGED rraced
    BY <1>1, <2>1 DEF CreateVolume, VolumeCreated
  <2> QED
    BY <2>3, <2>4, PlainOne
<1>2. ASSUME NEW v, LoadVolumeToDelete(c, v) PROVE \E q : Moves(c, q)
  <2>1. PICK e : e = Ev("volume", "deleted", v.id, None, 0, None)
    OBVIOUS
  <2>2. Proceed(c, "loaded", <<e>>, 0) /\ UNCHANGED rraced
    BY <1>2, <2>1 DEF LoadVolumeToDelete, VolumeDeleted
  <2> QED
    BY <2>2, PlainOne
<1>3. ASSUME NEW v, CreateSnapshot(c, v) PROVE \E q : Moves(c, q)
  <2>1. PICK e : e = Ev("snapshot", "created", -1, None, v.id, "queued")
    OBVIOUS
  <2>2. e.table = "snapshot"
    BY <2>1 DEF Ev
  <2>3. e.table # "member" /\ e.table \notin Keyed
    BY <2>2 DEF Keyed
  <2>4. Proceed(c, "checked", <<e>>, 1) /\ UNCHANGED rraced
    BY <1>3, <2>1 DEF CreateSnapshot, SnapshotCreated
  <2> QED
    BY <2>3, <2>4, PlainOne
<1>4. ASSUME NEW v, NEW s, RestoreVolume(c, v, s) PROVE \E q : Moves(c, q)
  <2>1. PICK b, e : b = RestoreBatch(s) /\ e = RestoreBatch(s)[1]
    OBVIOUS
  <2>2. b[1] = e /\ e.table = "restore"
    BY <2>1, BatchHeads
  <2>3. Proceed(c, "checked", b, 1) /\ UNCHANGED rraced
    BY <1>4, <2>1 DEF RestoreVolume
  <2>4. e.table # "member" /\ e.table \notin Keyed
    BY <2>2 DEF Keyed
  <2> QED
    BY <2>2, <2>3, <2>4, PlainProceed
<1>5. ASSUME NEW v, CreateAttachment(c, v, FirstKey) PROVE \E q : Moves(c, q)
  <2>1. PICK e : e = Ev("attachment", "created", -1, FirstKey, v.id, None)
    OBVIOUS
  <2>2. e.table = "attachment" /\ e.kind = "created" /\ e.key = FirstKey
    BY <2>1 DEF Ev
  <2>3. Proceed(c, "checked", <<e>>, 1) /\ CheckedInView(c, e.table, e.key)
    BY <1>5, <2>1, <2>2 DEF CreateAttachment, AttachmentCreated
  <2>4. \A r \in LiveOf(e.table) : r.key = e.key => e.table = "member" /\ r.ref # e.ref
    BY <1>5, <2>2 DEF CreateAttachment
  <2>5. e.table \in Keyed
    BY <2>2 DEF Keyed
  <2> QED
    BY <2>2, <2>3, <2>4, <2>5, CheckedProceed
<1>6. ASSUME NEW a, LoadAttachmentToDelete(c, a) PROVE \E q : Moves(c, q)
  <2>1. PICK e : e = Ev("attachment", "deleted", a.id, a.key, a.ref, None)
    OBVIOUS
  <2>2. Proceed(c, "loaded", <<e>>, 0) /\ UNCHANGED rraced
    BY <1>6, <2>1 DEF LoadAttachmentToDelete, AttachmentDeleted
  <2> QED
    BY <2>2, PlainOne
<1>7. ASSUME NumberDelete(c) PROVE \E q : Moves(c, q)
  <2>1. PICK n : n = LogSeq(Len(rlog), rreq[c].batch[1].table, rreq[c].batch[1].id) + 1
    OBVIOUS
  <2>2. /\ rreq[c].phase = "loaded" /\ rreq[c].batch[1].table \in {"bundle", "volume", "attachment"}
        /\ rreq' = [rreq EXCEPT ![c].phase = "checked", ![c].seq = n]
        /\ UNCHANGED <<rlog, rdone, rrows, rraced>>
    BY <1>7, <2>1 DEF NumberDelete
  <2> QED
    BY <2>2, NumberMoves
<1> QED
  BY <1>1, <1>2, <1>3, <1>4, <1>5, <1>6, <1>7 DEF VolumeNext

\* A client starts to walk a list.
LEMMA WalkMoves ==
    ASSUME ResourceInv, NEW c \in Handlers, NEW t, StartWalk(c, t)
    PROVE  \E q : Moves(c, q)
<1>1. PICK q : q = [rreq[c] EXCEPT !.phase = "walking"]
  OBVIOUS
<1>2. rreq[c] \in ResourceRequest /\ rreq \in [Handlers -> ResourceRequest]
  BY DEF ResourceInv
<1>3. q.phase = "walking"
  BY <1>1, <1>2 DEF ResourceRequest
<1>4. rreq' = [rreq EXCEPT ![c] = q] /\ UNCHANGED <<rlog, rdone, rrows, rraced>>
  BY <1>1, <1>2 DEF StartWalk
<1>5. rraced \subseteq rraced' /\ q.phase \notin {"numbered", "checked"}
  BY <1>3, <1>4
<1>6. Moves(c, q)
  BY <1>4, <1>5, PlainMove
<1> QED
  BY <1>6

----------------------------------------------------------------------------
(* Every step keeps the owners and the keys.                                  *)

\* The first organization has its owner, and nothing else has a key.
LEMMA InitialKeys ==
    ASSUME NEW f, NEW L, L = InitialLog(f)
    PROVE  /\ \A i, j \in 1 .. Len(L) : L[i].table \in Keyed /\ L[j].table \in Keyed => i = j
           /\ \A j \in 1 .. Len(L) : L[j].table = "org" =>
                 \E i \in 1 .. Len(L) : L[i].table = "member" /\ L[i].attr = "owner" /\ L[i].ref = L[j].id
<1>1. CASE f = "org"
  <2>1. PICK a : a = Ev("org", "created", 1, None, 0, None)
    OBVIOUS
  <2>2. PICK b : b = Ev("member", "created", 2, FirstKey, 1, "owner")
    OBVIOUS
  <2>3. L = <<a, b>>
    BY <1>1, <2>1, <2>2 DEF InitialLog
  <2>4. a.table = "org" /\ a.id = 1 /\ b.table = "member" /\ b.ref = 1 /\ b.attr = "owner"
    BY <2>1, <2>2 DEF Ev
  <2>5. Len(L) = 2 /\ L[1] = a /\ L[2] = b
    BY <2>3
  <2>6. 1 .. Len(L) = {1, 2}
    BY <2>5
  <2> QED
    BY <2>4, <2>5, <2>6 DEF Keyed
<1>2. CASE f \in {"route", "secret"}
  <2>1. PICK a : a = Ev("env", "created", 1, None, 0, None)
    OBVIOUS
  <2>2. L = <<a>>
    BY <1>2, <2>1 DEF InitialLog
  <2>3. a.table = "env"
    BY <2>1 DEF Ev
  <2>4. Len(L) = 1 /\ L[1] = a
    BY <2>2
  <2> QED
    BY <2>3, <2>4
<1>3. CASE f = "volume"
  <2>1. PICK a : a = Ev("env", "created", 1, None, 0, None)
    OBVIOUS
  <2>2. PICK b : b = Ev("volume", "created", 2, None, 0, None)
    OBVIOUS
  <2>3. PICK d : d = Ev("snapshot", "created", 3, None, 2, "queued")
    OBVIOUS
  <2>4. L = <<a, b, d>>
    BY <1>3, <2>1, <2>2, <2>3 DEF InitialLog
  <2>5. a.table = "env" /\ b.table = "volume" /\ d.table = "snapshot"
    BY <2>1, <2>2, <2>3 DEF Ev
  <2>6. Len(L) = 3 /\ L[1] = a /\ L[2] = b /\ L[3] = d
    BY <2>4
  <2>7. \A i \in 1 .. Len(L) : L[i].table \notin Keyed /\ L[i].table # "org"
    BY <2>5, <2>6 DEF Keyed
  <2> QED
    BY <2>7
<1>4. CASE f \notin {"org", "route", "secret", "volume"}
  <2>1. L = <<>>
    BY <1>4 DEF InitialLog
  <2>2. 1 .. Len(L) = {}
    BY <2>1
  <2> QED
    BY <2>2
<1> QED
  BY <1>1, <1>2, <1>3, <1>4

\* The first state: no one has raced for anything.
LEMMA RaceInit == ResourceInit => OwnersInv /\ KeysInv
<1>1. SUFFICES ASSUME ResourceInit PROVE OwnersInv /\ KeysInv
  OBVIOUS
<1>2. PICK L : L = rlog
  OBVIOUS
<1>3. PICK n : n = Len(L)
  OBVIOUS
<1>4. PICK R : R = rrows
  OBVIOUS
<1>5. L = InitialLog(focus) /\ rdone = n /\ R = {Inserted(L[i]) : i \in 1 .. n}
  BY <1>1, <1>2, <1>3, <1>4 DEF ResourceInit
<1>6. \A c \in Handlers : rreq[c].phase = "idle"
  BY <1>1 DEF ResourceInit, NoRequest
<1>7. L \in Seq(Logged) /\ n \in Nat /\ \A i \in 1 .. n : L[i].kind = "created" /\ L[i].id = i
  BY <1>3, <1>5, InitialLogCreated DEF AllCreated
<1>8. /\ \A i, j \in 1 .. n : L[i].table \in Keyed /\ L[j].table \in Keyed => i = j
      /\ \A j \in 1 .. n : L[j].table = "org" =>
            \E i \in 1 .. n : L[i].table = "member" /\ L[i].attr = "owner" /\ L[i].ref = L[j].id
  BY <1>3, <1>5, InitialKeys
<1>9. ASSUME NEW r \in R
      PROVE  \E i \in 1 .. n : /\ r.table = L[i].table /\ r.id = i /\ r.key = L[i].key
                               /\ r.attr = L[i].attr
  <2>1. PICK i \in 1 .. n : r = Inserted(L[i])
    BY <1>5
  <2>2. r.table = L[i].table /\ r.id = L[i].id /\ r.key = L[i].key /\ r.attr = L[i].attr
    BY <2>1 DEF Inserted
  <2> QED
    BY <1>7, <2>2
<1>10. RolesOK(R, L, n)
  <2>1. ASSUME NEW r \in R, r.table = "member"
        PROVE  \E i \in Agg(L, n, "member", r.id) :
                 L[i].attr = r.attr /\ L[i].kind # "deleted" /\ \A j \in Agg(L, n, "member", r.id) : j <= i
    <3>1. PICK i \in 1 .. n : r.table = L[i].table /\ r.id = i /\ r.attr = L[i].attr
      BY <1>9
    <3>2. Agg(L, n, "member", r.id) = {i}
      BY <1>7, <2>1, <3>1 DEF Agg
    <3> QED
      BY <1>7, <3>1, <3>2
  <2> QED
    BY <2>1 DEF RolesOK
<1>11. OwnersKept(L, rreq)
  <2>1. ASSUME NEW j \in 1 .. Len(L), L[j].table = "org" PROVE HasOwner(L, L[j].id)
    <3>1. PICK i \in 1 .. n : L[i].table = "member" /\ L[i].attr = "owner" /\ L[i].ref = L[j].id
      BY <1>3, <1>8, <2>1
    <3>2. LastAt(L, i)
      BY <1>3, <1>7 DEF LastAt
    <3> QED
      BY <1>3, <1>7, <3>1, <3>2 DEF HasOwner, OwnerAt
  <2>2. \A c \in Handlers : ~Leaving(rreq[c])
    BY <1>6 DEF Leaving
  <2> QED
    BY <2>1, <2>2 DEF OwnersKept
<1>12. RowKeysOK(R, L, n)
  <2>1. ASSUME NEW r \in R
        PROVE  \E i \in 1 .. n : HoldsAt(L, n, i) /\ L[i].table = r.table /\ L[i].id = r.id /\ L[i].key = r.key
    <3>1. PICK i \in 1 .. n : r.table = L[i].table /\ r.id = i /\ r.key = L[i].key
      BY <1>9
    <3>2. HoldsAt(L, n, i)
      BY <1>7 DEF HoldsAt, SetsKey, Gone
    <3> QED
      BY <1>7, <3>1, <3>2
  <2> QED
    BY <2>1 DEF RowKeysOK
<1>13. \A r, s \in R : ~Clashes(r, s)
  <2>1. SUFFICES ASSUME NEW r \in R, NEW s \in R, r.table \in Keyed, s.table = r.table PROVE r.id = s.id
    BY DEF Clashes, Keyed
  <2> QED
    BY <1>8, <1>9, <2>1
<1>14. ASSUME NEW t \in Keyed, NEW k PROVE KeyOK(L, rreq, t, k)
  <2>1. ASSUME NEW m \in 1 .. Len(L) PROVE Entered(L, m, t, k)
    <3>1. \A i \in 1 .. (m - 1) : i \in 1 .. n /\ i # m
      BY <1>3, <1>7
    <3>2. m \in 1 .. n
      BY <1>3
    <3> QED
      BY <1>8, <3>1, <3>2 DEF Entered, Meet
  <2>2. \A c \in Handlers : ~Claims(rreq[c], t, k)
    BY <1>6 DEF Claims
  <2> QED
    BY <2>1, <2>2 DEF KeyOK
<1>15. OwnersInv
  BY <1>2, <1>4, <1>5, <1>10, <1>11 DEF OwnersInv
<1>16. KeysInv
  BY <1>2, <1>4, <1>5, <1>12, <1>13, <1>14 DEF KeysInv
<1> QED
  BY <1>15, <1>16

\* The rows follow a prefix of the log, which does not change when events are appended.
LEMMA AppendKeeps ==
    ASSUME ResourceInv, OwnersInv, KeysInv, NEW M, NEW Q, M = rlog', Q = rreq', Continues(rlog, M),
           UNCHANGED <<rdone, rrows, rraced>>,
           OwnersKept(rlog, rreq) => OwnersKept(M, Q),
           \A t \in Keyed, k \in Keys \cup {None} : KeyOK(rlog, rreq, t, k) => KeyOK(M, Q, t, k)
    PROVE  OwnersInv' /\ KeysInv'
<1>1. PICK n \in Nat : n = rdone /\ \A i \in 1 .. n : M[i] = rlog[i]
  BY DEF ResourceInv, RowsOK, Continues
<1>2. RolesOK(rrows, M, n)
  <2>1. \A a : Agg(M, n, "member", a) = Agg(rlog, n, "member", a)
    BY <1>1, SamePrefix
  <2>2. \A a : \A i \in Agg(M, n, "member", a) : M[i] = rlog[i]
    BY <1>1 DEF Agg
  <2>3. RolesOK(rrows, rlog, n)
    BY <1>1 DEF OwnersInv
  <2> QED
    BY <2>1, <2>2, <2>3 DEF RolesOK
<1>3. RowKeysOK(rrows, M, n)
  <2>1. \A i \in 1 .. n : HoldsAt(M, n, i) <=> HoldsAt(rlog, n, i)
    BY <1>1, HeldSame
  <2>2. RowKeysOK(rrows, rlog, n)
    BY <1>1 DEF KeysInv
  <2> QED
    BY <1>1, <2>1, <2>2 DEF RowKeysOK
<1>4. OwnersRaced \/ OwnersKept(M, Q)
  BY DEF OwnersInv
<1>5. \A t \in Keyed, k \in Keys \cup {None} : <<t, k>> \in rraced \/ KeyOK(M, Q, t, k)
  BY DEF KeysInv
<1>6. \A r, s \in rrows : ~Clashes(r, s)
  BY DEF KeysInv
<1>7. rlog' = M /\ rreq' = Q /\ rdone' = n /\ rrows' = rrows /\ rraced' = rraced
  BY <1>1
<1>8. OwnersInv'
  <2>1. RolesOK(rrows', rlog', rdone') /\ (OwnersRaced' \/ OwnersKept(rlog', rreq'))
    BY <1>2, <1>4, <1>7 DEF OwnersRaced
  <2> QED
    BY <2>1 DEF OwnersInv
<1>9. KeysInv'
  BY <1>3, <1>5, <1>6, <1>7 DEF KeysInv
<1> QED
  BY <1>8, <1>9

\* The event store appends a batch.
LEMMA AppendRaces ==
    ASSUME ResourceInv, OwnersInv, KeysInv, NEW c \in Handlers, NEW bound, AppendBatch(c, bound),
           UNCHANGED sversions
    PROVE  OwnersInv' /\ KeysInv'
<1>1. PICK M : M = rlog'
  OBVIOUS
<1>2. PICK Q : Q = rreq'
  OBVIOUS
<1>3. Continues(rlog, M)
  BY <1>1, AppendShapes
<1>4. UNCHANGED <<rdone, rrows, rraced>>
  BY AppenderWaits
<1>5. OwnersKept(rlog, rreq) => OwnersKept(M, Q)
  BY <1>1, <1>2, OwnersAppend
<1>6. ASSUME NEW t \in Keyed, NEW k \in Keys \cup {None}, KeyOK(rlog, rreq, t, k) PROVE KeyOK(M, Q, t, k)
  BY <1>1, <1>2, <1>6, KeysAppend
<1> QED
  BY <1>1, <1>2, <1>3, <1>4, <1>5, <1>6, AppendKeeps

\* The environment is deleted.
LEMMA DeleteEnvRaces ==
    ASSUME ResourceInv, OwnersInv, KeysInv, NEW bound, DeleteEnvOf(bound), UNCHANGED sversions
    PROVE  OwnersInv' /\ KeysInv'
<1>1. PICK M : M = rlog'
  OBVIOUS
<1>2. PICK e : e = Ev("env", "deleted", 1, None, 0, None)
  OBVIOUS
<1>3. e.table = "env" /\ e.kind = "deleted"
  BY <1>2 DEF Ev
<1>4. M = Append(rlog, e) /\ rreq = rreq' /\ UNCHANGED <<rdone, rrows, rraced>>
  BY <1>1, <1>2 DEF DeleteEnvOf
<1>5. ResourceInv'
  BY DeleteEnvPreserves
<1>6. rlog \in Seq(Logged) /\ M \in Seq(Logged)
  BY <1>1, <1>5 DEF ResourceInv, LogOK
<1>7. /\ Len(rlog) \in Nat /\ Len(M) = Len(rlog) + 1 /\ M[Len(rlog) + 1] = e
      /\ \A i \in 1 .. Len(rlog) : M[i] = rlog[i]
  BY <1>4, <1>6
<1>8. Continues(rlog, M)
  BY <1>6, <1>7 DEF Continues
<1>9. \A j \in (Len(rlog) + 1) .. Len(M) : M[j].table = "env" /\ ~SetsKey(M[j])
  BY <1>3, <1>7 DEF SetsKey
<1>10. OwnersKept(rlog, rreq) => OwnersKept(M, rreq)
  <2>1. /\ \A d \in Handlers : rreq[d] = rreq[d] \/ ~Leaving(rreq[d])
        /\ \A j \in (Len(rlog) + 1) .. Len(M) : M[j].table = "member" => M[j].id > Len(rlog)
        /\ \A j \in (Len(rlog) + 1) .. Len(M) :
              M[j].table = "org" /\ M[j].kind = "created" => HasOwner(M, M[j].id)
    BY <1>9
  <2> QED
    BY <1>8, <2>1, QuietAppend
<1>11. ASSUME NEW t \in Keyed, NEW k \in Keys \cup {None}, KeyOK(rlog, rreq, t, k) PROVE KeyOK(M, rreq, t, k)
  <2>1. \A m \in (Len(rlog) + 1) .. Len(M) : Entered(M, m, t, k)
    BY <1>9 DEF Entered
  <2>2. \A d \in Handlers : rreq[d] = rreq[d] \/ ~Claims(rreq[d], t, k)
    OBVIOUS
  <2>3. \A m \in (Len(rlog) + 1) .. Len(M), d \in Handlers :
              /\ SetsKey(M[m]) /\ Claims(rreq[d], t, k) /\ ~Keeps(rlog, rreq[d])
              /\ Free(rlog, rreq[d].batch[1])
              => ~Meet(rreq[d].batch[1], M[m])
    BY <1>9
  <2> QED
    BY <1>8, <1>11, <2>1, <2>2, <2>3, KeyAppend
<1> QED
  BY <1>1, <1>4, <1>8, <1>10, <1>11, AppendKeeps

\* The views are projected only where no index is violated.
LEMMA ProjectRaces ==
    ASSUME ResourceInv, OwnersInv, KeysInv, ProjectResource
    PROVE  OwnersInv' /\ KeysInv'
<1>1. PICK R : R = ViewsAfter(rlog[rdone + 1])
  OBVIOUS
<1>2. /\ rdone < Len(rlog) /\ ~IndexViolated(rlog[rdone + 1]) /\ rrows' = R /\ rdone' = rdone + 1
      /\ UNCHANGED <<rlog, rreq, rraced>>
  BY <1>1 DEF ProjectResource
<1>3. LogOK(rlog, sversions) /\ RowsOK(rrows, rlog, rdone)
  BY DEF ResourceInv
<1>4. RolesOK(R, rlog, rdone + 1)
  BY <1>1, <1>2, <1>3, RolesFollow DEF OwnersInv
<1>5. RowKeysOK(R, rlog, rdone + 1)
  BY <1>1, <1>2, <1>3, RowKeysFollow DEF KeysInv
<1>6. \A r, s \in R : ~Clashes(r, s)
  BY <1>1, <1>2 DEF IndexViolated
<1>7. OwnersInv'
  <2>1. OwnersRaced \/ OwnersKept(rlog, rreq)
    BY DEF OwnersInv
  <2>2. RolesOK(rrows', rlog', rdone') /\ (OwnersRaced' \/ OwnersKept(rlog', rreq'))
    BY <1>2, <1>4, <2>1 DEF OwnersRaced
  <2> QED
    BY <2>2 DEF OwnersInv
<1>8. KeysInv'
  <2>1. \A t \in Keyed, k \in Keys \cup {None} : <<t, k>> \in rraced \/ KeyOK(rlog, rreq, t, k)
    BY DEF KeysInv
  <2> QED
    BY <1>2, <1>5, <1>6, <2>1 DEF KeysInv
<1> QED
  BY <1>7, <1>8

\* What the owners and the keys do not see.
LEMMA SameRaces ==
    ASSUME OwnersInv, KeysInv, UNCHANGED <<rlog, rdone, rrows, rreq, rraced>>
    PROVE  OwnersInv' /\ KeysInv'
<1>1. OwnersInv'
  <2>1. RolesOK(rrows', rlog', rdone') /\ (OwnersRaced' \/ OwnersKept(rlog', rreq'))
    BY DEF OwnersInv, OwnersRaced
  <2> QED
    BY <2>1 DEF OwnersInv
<1>2. KeysInv'
  BY DEF KeysInv
<1> QED
  BY <1>1, <1>2

\* Every step keeps the owners and the keys.
LEMMA RacesPreserved ==
    ASSUME ResourceInv, OwnersInv, KeysInv, [ResourceNext]_rvars
    PROVE  OwnersInv' /\ KeysInv'
<1>1. ASSUME NEW c \in Handlers,
             \/ OrgNext(c) \/ ProjectNext(c) \/ AppNext(c) \/ RouteNext(c) \/ VolumeNext(c)
             \/ SecretNext(c)
      PROVE  OwnersInv' /\ KeysInv'
  <2>1. \E q : Moves(c, q)
    BY <1>1, TenancyMoves, ProjectMoves, AppMoves, RouteMoves, VolumeMoves, SecretMoves
  <2> QED
    BY <2>1, MoveKeeps
<1>2. ASSUME NEW c \in Handlers, Abandon(c) \/ RefuseNumber(c) \/ AnswerRequest(c) \/ EndWalk(c)
      PROVE  OwnersInv' /\ KeysInv'
  <2>1. rreq' = [rreq EXCEPT ![c] = NoRequest] /\ UNCHANGED <<rlog, rdone, rrows, rraced>>
    BY <1>2 DEF Abandon, RefuseNumber, AnswerRequest, EndWalk
  <2>2. \E q : Moves(c, q)
    BY <2>1, EndMoves
  <2> QED
    BY <2>2, MoveKeeps
<1>3. ASSUME NEW c \in Handlers, UNCHANGED sversions, AppendBatch(c, LogBound)
      PROVE  OwnersInv' /\ KeysInv'
  BY <1>3, AppendRaces
<1>4. ASSUME DeleteEnvOf(LogBound), UNCHANGED sversions PROVE OwnersInv' /\ KeysInv'
  BY <1>4, DeleteEnvRaces
<1>5. ASSUME ProjectResource PROVE OwnersInv' /\ KeysInv'
  BY <1>5, ProjectRaces
<1>6. ASSUME ProjectRefused \/ RestartWorker \/ NextPage \/ UNCHANGED rvars PROVE OwnersInv' /\ KeysInv'
  <2>1. UNCHANGED <<rlog, rdone, rrows, rreq, rraced>>
    BY <1>6 DEF ProjectRefused, RestartWorker, NextPage, resourceVars, rvars
  <2> QED
    BY <2>1, SameRaces
<1>7. ASSUME NEW c \in Handlers, NEW t \in Listed, StartWalk(c, t) PROVE OwnersInv' /\ KeysInv'
  BY <1>7, WalkMoves, MoveKeeps
<1> QED
  BY <1>1, <1>2, <1>3, <1>4, <1>5, <1>6, <1>7 DEF ResourceNext

\* What the invariant says of the owners.
LEMMA OwnersFollow == ResourceInv /\ OwnersInv => OwnerLeftUnlessRaced
<1>1. SUFFICES ASSUME ResourceInv, OwnersInv, ~OwnersRaced, NEW o \in RowsOf("org")
               PROVE  \E i \in MembersInLog(o.id) : rlog[i].attr = "owner"
  BY DEF OwnerLeftUnlessRaced, OwnersRaced
<1>2. o \in rrows /\ o.table = "org"
  BY DEF RowsOf
<1>3. Born(rlog, Len(rlog), "org", o.id)
  BY <1>1, <1>2, RowFacts
<1>4. PICK j \in 1 .. Len(rlog) : rlog[j].table = "org" /\ rlog[j].id = o.id /\ rlog[j].kind = "created"
  BY <1>3 DEF Born
<1>5. HasOwner(rlog, o.id)
  BY <1>1, <1>4 DEF OwnersInv, OwnersKept
<1>6. PICK i \in 1 .. Len(rlog) : OwnerAt(rlog, i) /\ rlog[i].ref = o.id
  BY <1>5 DEF HasOwner
<1>7. Len(rlog) \in Nat
  BY <1>1 DEF ResourceInv, LogOK
<1>8. ASSUME NEW k \in (i + 1) .. Len(rlog), rlog[k].table = "member", rlog[k].id = rlog[i].id PROVE FALSE
  <2>1. k \in 1 .. Len(rlog) /\ ~(k <= i)
    BY <1>7
  <2> QED
    BY <1>6, <1>8, <2>1 DEF OwnerAt, LastAt
<1>9. i \in MembersInLog(o.id)
  BY <1>6, <1>8 DEF MembersInLog, OwnerAt
<1> QED
  BY <1>6, <1>9 DEF OwnerAt

\* Rows that would clash after the next event have met in it, and its key was raced for.
LEMMA KeysFollow == ResourceInv /\ KeysInv => IndexesHoldUnlessRaced
<1>1. SUFFICES ASSUME ResourceInv, KeysInv, rdone < Len(rlog), IndexViolated(rlog[rdone + 1])
               PROVE  <<rlog[rdone + 1].table, rlog[rdone + 1].key>> \in rraced
  BY DEF IndexesHoldUnlessRaced
<1>2. PICK e : e = rlog[rdone + 1]
  OBVIOUS
<1>3. PICK n : n = rdone
  OBVIOUS
<1>4. LogOK(rlog, sversions) /\ RowsOK(rrows, rlog, rdone) /\ RowKeysOK(rrows, rlog, rdone)
  BY <1>1 DEF ResourceInv, KeysInv
<1>5. n \in Nat /\ Len(rlog) \in Nat /\ n < Len(rlog) /\ n + 1 \in 1 .. Len(rlog) /\ rlog[n + 1] = e
  BY <1>1, <1>2, <1>3, <1>4 DEF RowsOK, LogOK
<1>6. e \in ResourceEvent /\ e.key \in Keys \cup {None}
  BY <1>4, <1>5 DEF LogOK, Logged, ResourceEvent
<1>7. RowKeysOK(ViewsAfter(e), rlog, n + 1) /\ RowsOK(ViewsAfter(e), rlog, n + 1)
  BY <1>1, <1>2, <1>3, <1>4, RowKeysFollow, RowsFollow
<1>8. PICK r \in ViewsAfter(e), s \in ViewsAfter(e) : Clashes(r, s)
  BY <1>1, <1>2 DEF IndexViolated
<1>9. /\ r.table \in Keyed /\ s.table = r.table /\ r.live /\ s.live /\ r.id # s.id /\ r.key = s.key
      /\ r.table = "member" => r.ref = s.ref
  BY <1>8 DEF Clashes, Keyed
<1>10. PICK i \in 1 .. (n + 1) : /\ HoldsAt(rlog, n + 1, i) /\ rlog[i].table = r.table
                                 /\ rlog[i].id = r.id /\ rlog[i].key = r.key
  BY <1>7, <1>8, <1>9 DEF RowKeysOK
<1>11. PICK j \in 1 .. (n + 1) : /\ HoldsAt(rlog, n + 1, j) /\ rlog[j].table = s.table
                                 /\ rlog[j].id = s.id /\ rlog[j].key = s.key
  BY <1>7, <1>8, <1>9 DEF RowKeysOK
<1>12. ASSUME NEW x \in ViewsAfter(e), x.table = "member", NEW m \in 1 .. (n + 1), rlog[m].table = "member",
              rlog[m].id = x.id
       PROVE  rlog[m].ref = x.ref
  <2>1. PICK l \in Agg(rlog, n + 1, "member", x.id) : x.ref = rlog[l].ref
    BY <1>7, <1>12 DEF RowsOK, RowOK
  <2>2. l \in 1 .. Len(rlog) /\ m \in 1 .. Len(rlog) /\ rlog[l].table = "member" /\ rlog[l].id = x.id
    BY <1>5, <2>1 DEF Agg
  <2> QED
    BY <1>4, <1>12, <2>1, <2>2, MembersKeep
<1>13. Meet(rlog[i], rlog[j]) /\ Meet(rlog[j], rlog[i])
  <2>1. r.table = "member" => rlog[i].ref = r.ref /\ rlog[j].ref = s.ref
    BY <1>8, <1>9, <1>10, <1>11, <1>12
  <2> QED
    BY <1>9, <1>10, <1>11, <2>1 DEF Meet
<1>14. i # j
  BY <1>9, <1>10, <1>11
<1>15. ASSUME NEW a \in 1 .. n, HoldsAt(rlog, n + 1, a), HoldsAt(rlog, n + 1, n + 1), Meet(e, rlog[a]),
              e.table \in Keyed
       PROVE  <<e.table, e.key>> \in rraced
  <2>1. HoldsAt(rlog, n, a) /\ SetsKey(e)
    <3>1. n + 1 \in Nat /\ n <= n + 1
      BY <1>5
    <3>2. HoldsAt(rlog, n, a)
      BY <1>5, <1>15, <3>1, HeldBefore
    <3> QED
      BY <1>5, <1>15, <3>2 DEF HoldsAt
  <2>2. (n + 1) - 1 = n
    BY <1>5
  <2>3. ~Entered(rlog, n + 1, e.table, e.key)
    BY <1>5, <1>15, <2>1, <2>2 DEF Entered
  <2>4. ~KeyOK(rlog, rreq, e.table, e.key)
    BY <1>5, <2>3 DEF KeyOK
  <2> QED
    BY <1>1, <1>6, <1>15, <2>4 DEF KeysInv
<1>16. CASE i = n + 1
  <2>1. j \in 1 .. n
    BY <1>5, <1>14, <1>16
  <2> QED
    BY <1>2, <1>3, <1>5, <1>9, <1>10, <1>11, <1>13, <1>15, <1>16, <2>1
<1>17. CASE j = n + 1
  <2>1. i \in 1 .. n
    BY <1>5, <1>14, <1>17
  <2> QED
    BY <1>2, <1>3, <1>5, <1>9, <1>10, <1>11, <1>13, <1>15, <1>17, <2>1
<1>18. CASE i # n + 1 /\ j # n + 1
  <2>1. i \in 1 .. n /\ j \in 1 .. n
    BY <1>5, <1>18
  <2>2. n + 1 \in Nat /\ n <= n + 1
    BY <1>5
  <2>3. HoldsAt(rlog, n, i) /\ HoldsAt(rlog, n, j)
    BY <1>5, <1>10, <1>11, <2>1, <2>2, HeldBefore
  <2>4. PICK x \in rrows : /\ x.live /\ x.table = rlog[i].table /\ x.id = rlog[i].id /\ x.key = rlog[i].key
                           /\ x.table = "member" => x.ref = rlog[i].ref
    BY <1>1, <1>3, <1>4, <1>9, <1>10, <2>1, <2>3, HolderHasRow
  <2>5. PICK y \in rrows : /\ y.live /\ y.table = rlog[j].table /\ y.id = rlog[j].id /\ y.key = rlog[j].key
                           /\ y.table = "member" => y.ref = rlog[j].ref
    BY <1>1, <1>3, <1>4, <1>9, <1>11, <2>1, <2>3, HolderHasRow
  <2>6. x.table \in Keyed
    BY <1>9, <1>10, <2>4
  <2>7. Clashes(x, y)
    BY <1>13, <2>4, <2>5, <2>6 DEF Clashes, Meet, Keyed
  <2> QED
    BY <1>1, <2>4, <2>5, <2>7 DEF KeysInv
<1> QED
  BY <1>16, <1>17, <1>18

\* What the handlers may rely on as long as nothing was raced for: every organization has an owner
\* that no handler is about to take away, and every key was free when it was set.
THEOREM RacesInvariant == ResourceSpec => [](ResourceInv /\ OwnersInv /\ KeysInv)
<1>1. ResourceInit => ResourceInv /\ OwnersInv /\ KeysInv
  BY ResourceInitOK, RaceInit
<1>2. ResourceInv /\ OwnersInv /\ KeysInv /\ [ResourceNext]_rvars => (ResourceInv /\ OwnersInv /\ KeysInv)'
  BY ResourceNextPreserves, RacesPreserved
<1> QED
  BY <1>1, <1>2, PTL DEF ResourceSpec

\* An organization loses its last owner only if owners were counted while another of them was on
\* the way out: the last_owner checks of members.rs, for any number of handlers and any log.
THEOREM OwnersStay == ResourceSpec => []OwnerLeftUnlessRaced
<1>1. ResourceInv /\ OwnersInv /\ KeysInv => OwnerLeftUnlessRaced
  BY OwnersFollow
<1> QED
  BY RacesInvariant, <1>1, PTL

\* The projection worker fails on a unique index only over a key that was checked while a rival
\* claim was out of sight.
THEOREM IndexesHold == ResourceSpec => []IndexesHoldUnlessRaced
<1>1. ResourceInv /\ OwnersInv /\ KeysInv => IndexesHoldUnlessRaced
  BY KeysFollow
<1> QED
  BY RacesInvariant, <1>1, PTL

=============================================================================
