------------------------ MODULE DeployCommands_proofs ------------------------
(***************************************************************************)
(* Proofs about DeployCommands, for any number of clients, keys, request   *)
(* bodies and deploys.                                                     *)
(*                                                                         *)
(* The argument for one deploy per key: while a key is neither exposed nor *)
(* expired, at most one request runs under it, and the key's deploy is     *)
(* always accounted for, by the record or by the request that will store   *)
(* the record.  So a request that finds no record, and no request beside   *)
(* it, finds no deploy either.                                             *)
(***************************************************************************)
EXTENDS DeployCommands, FiniteSetTheorems, TLAPS

\* A request between its append and its answer names its own event, and one that stores
\* its record has seen that event projected.
RequestOK(c) ==
    /\ Running(c) => req[c].answer = "none"
    /\ req[c].phase \in {"waiting", "storing"} =>
         /\ req[c].deploy \in 1 .. Len(log)
         /\ log[req[c].deploy] = [slot |-> req[c].slot, release |-> req[c].release]
    /\ req[c].phase = "storing" => req[c].deploy <= applied

\* Client c has a request under way under key s.
RunsUnder(c, s) == Running(c) /\ req[c].slot = s

\* What holds of a key that is neither exposed nor expired.
KeyOK(s) ==
    /\ \A c, d \in Clients : RunsUnder(c, s) /\ RunsUnder(d, s) => c = d
    /\ \A c \in Clients : RunsUnder(c, s) =>
         /\ records[s] = {}
         /\ req[c].phase = "checked" => DeploysOf(s) = {}
         /\ req[c].phase # "checked" => DeploysOf(s) = {req[c].deploy}
    /\ \A i, j \in DeploysOf(s) : i = j
    /\ DeploysOf(s) # {} => records[s] # {} \/ \E c \in Clients : RunsUnder(c, s)

DeployInv ==
    /\ TypeOK
    /\ Truthful
    /\ \A c \in Clients : RequestOK(c)
    /\ \A s \in Slots \ (exposed \cup expired) : KeyOK(s)

----------------------------------------------------------------------------
(* The log and the deploys of a key.                                         *)

\* What appending a deploy.created event does to the log.
LEMMA AppendFacts ==
    ASSUME NEW s \in Seq(Deploy), NEW e \in Deploy
    PROVE  /\ Append(s, e) \in Seq(Deploy)
           /\ Len(Append(s, e)) = Len(s) + 1
           /\ \A i \in 1 .. Len(s) : Append(s, e)[i] = s[i]
           /\ Append(s, e)[Len(s) + 1] = e
    OBVIOUS

\* AppendDeploy adds one deploy, to its own key.
LEMMA DeploysAfterAppend ==
    ASSUME TypeOK, NEW e \in Deploy, log' = Append(log, e), NEW s \in Slots
    PROVE  /\ s = e.slot => DeploysOf(s)' = DeploysOf(s) \cup {Len(log) + 1}
           /\ s # e.slot => DeploysOf(s)' = DeploysOf(s)
<1>1. /\ Len(log') = Len(log) + 1
      /\ \A i \in 1 .. Len(log) : log'[i] = log[i]
      /\ log'[Len(log) + 1] = e
      /\ Len(log) \in Nat
  BY AppendFacts DEF TypeOK
<1>2. \A i \in 1 .. Len(log') : i \in 1 .. Len(log) \/ i = Len(log) + 1
  BY <1>1
<1>3. 1 .. Len(log) \subseteq 1 .. Len(log') /\ Len(log) + 1 \in 1 .. Len(log')
  BY <1>1
<1>4. QED
  BY <1>1, <1>2, <1>3 DEF DeploysOf

\* A set whose elements are all equal has at most one.
LEMMA AtMostOne ==
    ASSUME NEW S, \A x, y \in S : x = y
    PROVE  Cardinality(S) <= 1
<1>1. CASE S = {}
  BY <1>1, FS_EmptySet
<1>2. CASE S # {}
  <2>1. PICK x \in S : TRUE
    BY <1>2
  <2>2. S = {x}
    BY <2>1
  <2>3. QED
    BY <2>2, FS_Singleton
<1>3. QED
  BY <1>1, <1>2

----------------------------------------------------------------------------
(* Init and the steps.                                                       *)

LEMMA InitEstablishes == Init => DeployInv
<1> SUFFICES ASSUME Init PROVE DeployInv
  OBVIOUS
<1>1. TypeOK
  BY DEF Init, TypeOK, Deploy, Record, Request, Answers
<1>2. Truthful
  BY DEF Init, Truthful, AnswersTruthful, RecordTruthful
<1>3. \A c \in Clients : RequestOK(c) /\ ~Running(c)
  BY DEF Init, RequestOK, Running
<1>4. \A s \in Slots : DeploysOf(s) = {}
  BY DEF Init, DeploysOf
<1>5. \A s \in Slots : KeyOK(s)
  BY <1>3, <1>4 DEF KeyOK, RunsUnder
<1>6. QED
  BY <1>1, <1>2, <1>3, <1>5 DEF DeployInv

\* CheckKey, the way it ends: the key is looked up in a record, or it has none.
LEMMA CheckKeyCases ==
    ASSUME TypeOK, NEW c \in Clients, NEW s \in Slots, NEW r \in Releases, CheckKey(c, s, r)
    PROVE  /\ ~Running(c)
           /\ UNCHANGED <<log, applied, records, expired>>
           /\ \A d \in Clients : d # c => req'[d] = req[d]
           /\ req'[c].slot = s /\ req'[c].release = r
           /\ \/ /\ records[s] = {}
                 /\ req'[c].phase = "checked" /\ req'[c].answer = "none"
                 /\ req'[c].deploy = 0
                 /\ exposed' = IF Overlapping(s) THEN exposed \cup {s} ELSE exposed
              \/ /\ req'[c].phase = "answered" /\ req'[c].answer = "ok"
                 /\ \E rec \in records[s] : rec.release = r /\ rec.deploy = req'[c].deploy
                 /\ exposed' = exposed
              \/ /\ req'[c].phase = "answered" /\ req'[c].answer = "key_conflict"
                 /\ req'[c].deploy = 0
                 /\ exposed' = exposed
<1>1. ~Running(c) /\ UNCHANGED <<log, applied, records, expired>>
  BY DEF CheckKey, CanReceive, Running
<1>2. CASE NotFound(c, s, r)
  BY <1>1, <1>2 DEF NotFound, TypeOK
<1>3. CASE Found(c, s, r)
  BY <1>1, <1>3 DEF Found, TypeOK
<1>4. CASE Conflict(c, s, r)
  BY <1>1, <1>4 DEF Conflict, TypeOK
<1>5. QED
  BY <1>2, <1>3, <1>4 DEF CheckKey

LEMMA TypeStep == TypeOK /\ [Next]_vars => TypeOK'
<1> SUFFICES ASSUME TypeOK, [Next]_vars PROVE TypeOK'
  OBVIOUS
<1> USE DEF Respond, Request, Answers
<1>1. CASE Project
  BY <1>1 DEF TypeOK, Project
<1>2. ASSUME NEW s \in Slots, CleanupRecord(s) PROVE TypeOK'
  BY <1>2 DEF TypeOK, CleanupRecord
<1>3. ASSUME NEW c \in Clients, NEW s \in Slots, NEW r \in Releases, CheckKey(c, s, r)
      PROVE  TypeOK'
  <2>1. CASE NotFound(c, s, r)
    BY <1>3, <2>1 DEF TypeOK, CheckKey, NotFound
  <2>2. CASE Found(c, s, r)
    <3>1. PICK rec \in records[s] :
            req' = [req EXCEPT ![c] = [phase |-> "answered", slot |-> s, release |-> r,
                                       deploy |-> rec.deploy, answer |-> "ok"]]
      BY <2>2 DEF Found
    <3>2. rec.deploy \in Nat
      BY DEF TypeOK, Record
    <3>3. QED
      BY <1>3, <2>2, <3>1, <3>2 DEF TypeOK, CheckKey, Found
  <2>3. CASE Conflict(c, s, r)
    BY <1>3, <2>3 DEF TypeOK, CheckKey, Conflict
  <2>4. QED
    BY <1>3, <2>1, <2>2, <2>3 DEF CheckKey
<1>4. ASSUME NEW c \in Clients, Refuse(c) PROVE TypeOK'
  BY <1>4, ZenonT(60) DEF TypeOK, Refuse
<1>5. ASSUME NEW c \in Clients, AppendDeploy(c) PROVE TypeOK'
  <2>1. [slot |-> req[c].slot, release |-> req[c].release] \in Deploy
    BY DEF TypeOK, Deploy
  <2>2. log' \in Seq(Deploy) /\ Len(log') = Len(log) + 1 /\ Len(log) \in Nat
    BY <1>5, <2>1, AppendFacts DEF AppendDeploy, TypeOK
  <2>3. PICK n \in Nat : n = Len(log) + 1
    BY <2>2
  <2>4. req' = [req EXCEPT ![c].phase = "waiting", ![c].deploy = n]
    BY <1>5, <2>3 DEF AppendDeploy
  <2>5. req' \in [Clients -> Request]
    BY <2>4, ZenonT(60) DEF TypeOK
  <2>6. QED
    BY <1>5, <2>2, <2>5 DEF AppendDeploy, TypeOK
<1>6. ASSUME NEW c \in Clients, ReadBack(c) PROVE TypeOK'
  BY <1>6 DEF TypeOK, ReadBack
<1>7. ASSUME NEW c \in Clients, StoreRecord(c) PROVE TypeOK'
  <2>1. [release |-> req[c].release, deploy |-> req[c].deploy] \in Record
    BY DEF TypeOK, Record
  <2>2. records' \in [Slots -> SUBSET Record]
    BY <1>7, <2>1 DEF TypeOK, StoreRecord
  <2>3. req' \in [Clients -> Request]
    BY <1>7, ZenonT(60) DEF StoreRecord, TypeOK
  <2>4. QED
    BY <1>7, <2>2, <2>3 DEF TypeOK, StoreRecord
<1>8. ASSUME NEW c \in Clients, StoreFails(c) PROVE TypeOK'
  BY <1>8, ZenonT(60) DEF TypeOK, StoreFails
<1>9. ASSUME NEW c \in Clients, ProjectionTimeout(c) PROVE TypeOK'
  BY <1>9, ZenonT(60) DEF TypeOK, ProjectionTimeout
<1>10. ASSUME NEW c \in Clients, Abort(c) PROVE TypeOK'
  BY <1>10, ZenonT(60) DEF TypeOK, Abort
<1>11. CASE UNCHANGED vars
  BY <1>11 DEF TypeOK, vars
<1>12. QED
  BY <1>1, <1>2, <1>3, <1>4, <1>5, <1>6, <1>7, <1>8, <1>9, <1>10, <1>11 DEF Next

\* Respond changes the phase and the answer of one request.
LEMMA RespondFacts ==
    ASSUME TypeOK, NEW c \in Clients, NEW a, Respond(c, a)
    PROVE  /\ \A d \in Clients : d # c => req'[d] = req[d]
           /\ req'[c].phase = "answered" /\ req'[c].answer = a
           /\ req'[c].slot = req[c].slot /\ req'[c].release = req[c].release
           /\ req'[c].deploy = req[c].deploy
    BY DEF TypeOK, Respond, Request

\* A request that ends without a deploy to name leaves what was answered and stored true.
LEMMA RefusalFacts ==
    ASSUME TypeOK, Truthful, \A d \in Clients : RequestOK(d),
           NEW c \in Clients, NEW a, Respond(c, a), a # "ok",
           UNCHANGED <<log, applied, records>>
    PROVE  Truthful' /\ \A d \in Clients : RequestOK(d)'
<1> USE RespondFacts
<1>1. AnswersTruthful'
  BY DEF Truthful, AnswersTruthful
<1>2. RecordTruthful'
  BY DEF Truthful, RecordTruthful
<1>3. ASSUME NEW d \in Clients PROVE RequestOK(d)'
  BY DEF RequestOK, Running
<1>4. QED
  BY <1>1, <1>2, <1>3 DEF Truthful

\* What is told and stored stays true.
LEMMA TruthStep ==
    ASSUME TypeOK, Truthful, \A c \in Clients : RequestOK(c), [Next]_vars
    PROVE  Truthful' /\ \A c \in Clients : RequestOK(c)'
<1>1. CASE Project
  <2>1. applied' = applied + 1 /\ UNCHANGED <<log, records, req>> /\ applied \in Nat
        /\ Len(log) \in Nat
    BY <1>1 DEF Project, TypeOK
  <2>2. Truthful'
    BY <2>1 DEF Truthful, AnswersTruthful, RecordTruthful, TypeOK, Record, Request
  <2>3. ASSUME NEW c \in Clients PROVE RequestOK(c)'
    BY <2>1 DEF RequestOK, Running, TypeOK, Request
  <2>4. QED
    BY <2>2, <2>3
<1>2. ASSUME NEW s \in Slots, CleanupRecord(s)
      PROVE  Truthful' /\ \A c \in Clients : RequestOK(c)'
  <2>1. \A t \in Slots : records'[t] \subseteq records[t]
    BY <1>2 DEF CleanupRecord, TypeOK
  <2>2. QED
    BY <1>2, <2>1 DEF CleanupRecord, Truthful, AnswersTruthful, RecordTruthful, RequestOK, Running
<1>3. ASSUME NEW c \in Clients, NEW s \in Slots, NEW r \in Releases, CheckKey(c, s, r)
      PROVE  Truthful' /\ \A d \in Clients : RequestOK(d)'
  <2>1. RecordTruthful'
    BY <1>3 DEF CheckKey, Truthful, RecordTruthful
  <2>2. AnswersTruthful'
    BY <1>3, CheckKeyCases DEF Truthful, RecordTruthful, AnswersTruthful
  <2>3. ASSUME NEW d \in Clients PROVE RequestOK(d)'
    BY <1>3, CheckKeyCases DEF RequestOK, Running
  <2>4. QED
    BY <2>1, <2>2, <2>3 DEF Truthful
<1>4. ASSUME NEW c \in Clients, Refuse(c)
      PROVE  Truthful' /\ \A d \in Clients : RequestOK(d)'
  BY <1>4, RefusalFacts DEF Refuse
<1>5. ASSUME NEW c \in Clients, AppendDeploy(c)
      PROVE  Truthful' /\ \A d \in Clients : RequestOK(d)'
  <2>1. [slot |-> req[c].slot, release |-> req[c].release] \in Deploy
    BY DEF TypeOK, Request, Deploy
  <2>2. /\ Len(log') = Len(log) + 1 /\ Len(log) \in Nat
        /\ \A i \in 1 .. Len(log) : log'[i] = log[i]
        /\ log'[Len(log) + 1] = [slot |-> req[c].slot, release |-> req[c].release]
    BY <1>5, <2>1, AppendFacts DEF AppendDeploy, TypeOK
  <2>3. /\ \A d \in Clients : d # c => req'[d] = req[d]
        /\ req'[c].slot = req[c].slot /\ req'[c].release = req[c].release
        /\ req'[c].deploy = Len(log) + 1 /\ req'[c].phase = "waiting"
        /\ req'[c].answer = req[c].answer
        /\ UNCHANGED <<applied, records>>
    BY <1>5 DEF AppendDeploy, TypeOK, Request
  <2>4. req[c].answer = "none"
    BY <1>5 DEF RequestOK, Running, AppendDeploy
  <2>5. applied \in Nat /\ applied <= Len(log)
    BY DEF TypeOK
  <2>6. AnswersTruthful'
    BY <2>2, <2>3, <2>4, <2>5 DEF Truthful, AnswersTruthful
  <2>7. RecordTruthful'
    <3>1. ASSUME NEW s \in Slots, NEW rec \in records[s]
          PROVE  rec.deploy \in 1 .. applied
                 /\ log'[rec.deploy] = [slot |-> s, release |-> rec.release]
      BY <2>2, <2>5 DEF Truthful, RecordTruthful
    <3>2. QED
      BY <2>3, <3>1 DEF RecordTruthful
  <2>8. ASSUME NEW d \in Clients PROVE RequestOK(d)'
    BY <2>2, <2>3, <2>4 DEF RequestOK, Running
  <2>9. QED
    BY <2>6, <2>7, <2>8 DEF Truthful
<1>6. ASSUME NEW c \in Clients, ReadBack(c)
      PROVE  Truthful' /\ \A d \in Clients : RequestOK(d)'
  <2>1. /\ \A d \in Clients : d # c => req'[d] = req[d]
        /\ req'[c].slot = req[c].slot /\ req'[c].release = req[c].release
        /\ req'[c].deploy = req[c].deploy /\ req'[c].phase = "storing"
        /\ req'[c].answer = req[c].answer
        /\ UNCHANGED <<applied, records, log>>
    BY <1>6 DEF ReadBack, TypeOK, Request
  <2>2. Truthful'
    BY <2>1 DEF Truthful, AnswersTruthful, RecordTruthful
  <2>3. ASSUME NEW d \in Clients PROVE RequestOK(d)'
    BY <1>6, <2>1 DEF RequestOK, Running, ReadBack
  <2>4. QED
    BY <2>2, <2>3
<1>7. ASSUME NEW c \in Clients, StoreRecord(c) \/ StoreFails(c)
      PROVE  Truthful' /\ \A d \in Clients : RequestOK(d)'
  <2>1. Respond(c, "ok") /\ UNCHANGED <<log, applied>> /\ req[c].phase = "storing"
    BY <1>7 DEF StoreRecord, StoreFails
  <2>2. /\ req[c].deploy \in 1 .. applied
        /\ log[req[c].deploy] = [slot |-> req[c].slot, release |-> req[c].release]
    BY <2>1 DEF RequestOK, TypeOK
  <2>3. AnswersTruthful'
    BY <2>1, <2>2, RespondFacts DEF Truthful, AnswersTruthful
  <2>4. RecordTruthful'
    <3>1. CASE StoreFails(c)
      BY <2>1, <3>1 DEF StoreFails, Truthful, RecordTruthful
    <3>2. CASE StoreRecord(c)
      <4>1. ASSUME NEW s \in Slots, NEW rec \in records'[s]
            PROVE  /\ rec.deploy \in 1 .. applied
                   /\ log[rec.deploy] = [slot |-> s, release |-> rec.release]
        <5>1. CASE rec \in records[s]
          BY <5>1 DEF Truthful, RecordTruthful
        <5>2. CASE rec \notin records[s]
          <6>1. s = req[c].slot
                /\ rec = [release |-> req[c].release, deploy |-> req[c].deploy]
            BY <3>2, <5>2 DEF StoreRecord, TypeOK
          <6>2. QED
            BY <6>1, <2>2
        <5>3. QED
          BY <5>1, <5>2
      <4>2. QED
        BY <2>1, <4>1 DEF RecordTruthful
    <3>3. QED
      BY <1>7, <3>1, <3>2
  <2>5. ASSUME NEW d \in Clients PROVE RequestOK(d)'
    BY <2>1, RespondFacts DEF RequestOK, Running
  <2>6. QED
    BY <2>3, <2>4, <2>5 DEF Truthful
<1>8. ASSUME NEW c \in Clients, ProjectionTimeout(c)
      PROVE  Truthful' /\ \A d \in Clients : RequestOK(d)'
  BY <1>8, RefusalFacts DEF ProjectionTimeout
<1>9. ASSUME NEW c \in Clients, Abort(c)
      PROVE  Truthful' /\ \A d \in Clients : RequestOK(d)'
  BY <1>9, RefusalFacts DEF Abort
<1>10. CASE UNCHANGED vars
  BY <1>10 DEF vars, Truthful, AnswersTruthful, RecordTruthful, RequestOK, Running
<1>11. QED
  BY <1>1, <1>2, <1>3, <1>4, <1>5, <1>6, <1>7, <1>8, <1>9, <1>10 DEF Next

----------------------------------------------------------------------------
(* One deploy per key.                                                       *)

\* A key keeps KeyOK when its record and its deploys stay and no request of it does
\* anything but end before its append.
LEMMA KeyUntouched ==
    ASSUME NEW s \in Slots, KeyOK(s),
           records'[s] = records[s], DeploysOf(s)' = DeploysOf(s),
           \A c \in Clients : RunsUnder(c, s)' =>
                RunsUnder(c, s) /\ req'[c].deploy = req[c].deploy
                /\ (req'[c].phase = "checked" <=> req[c].phase = "checked"),
           \A c \in Clients : RunsUnder(c, s) /\ ~RunsUnder(c, s)' =>
                req[c].phase = "checked"
    PROVE  KeyOK(s)'
<1>1. \A c, d \in Clients : RunsUnder(c, s)' /\ RunsUnder(d, s)' => c = d
  BY DEF KeyOK
<1>2. \A c \in Clients : RunsUnder(c, s)' =>
         /\ records'[s] = {}
         /\ req'[c].phase = "checked" => DeploysOf(s)' = {}
         /\ req'[c].phase # "checked" => DeploysOf(s)' = {req'[c].deploy}
  BY DEF KeyOK
<1>3. \A i, j \in DeploysOf(s)' : i = j
  BY DEF KeyOK
<1>4. DeploysOf(s)' # {} => records'[s] # {} \/ \E c \in Clients : RunsUnder(c, s)'
  BY DEF KeyOK
<1>5. QED
  BY <1>1, <1>2, <1>3, <1>4 DEF KeyOK

\* Every step keeps KeyOK of the keys it does not expose or expire.
LEMMA KeysStep ==
    ASSUME DeployInv, [Next]_vars, NEW s \in Slots \ (exposed' \cup expired')
    PROVE  KeyOK(s)'
<1> USE DEF RunsUnder, Running
<1>0. TypeOK /\ \A k \in Slots \ (exposed \cup expired) : KeyOK(k)
  BY DEF DeployInv
<1>1. CASE Project \/ UNCHANGED vars
  <2>1. KeyOK(s) /\ UNCHANGED <<log, records, req>>
    BY <1>0, <1>1 DEF Project, vars
  <2>2. DeploysOf(s)' = DeploysOf(s)
    BY <2>1 DEF DeploysOf
  <2>3. QED
    BY <2>1, <2>2, KeyUntouched
<1>2. ASSUME NEW k \in Slots, CleanupRecord(k) PROVE KeyOK(s)'
  <2>1. KeyOK(s) /\ s # k /\ UNCHANGED <<log, req>> /\ records'[s] = records[s]
    BY <1>0, <1>2 DEF CleanupRecord, TypeOK
  <2>2. DeploysOf(s)' = DeploysOf(s)
    BY <2>1 DEF DeploysOf
  <2>3. QED
    BY <2>1, <2>2, KeyUntouched
<1>3. ASSUME NEW c \in Clients, NEW k \in Slots, NEW r \in Releases, CheckKey(c, k, r)
      PROVE  KeyOK(s)'
  <2>1. KeyOK(s) /\ UNCHANGED <<log, records>>
    BY <1>0, <1>3, CheckKeyCases
  <2>2. DeploysOf(s)' = DeploysOf(s)
    BY <2>1 DEF DeploysOf
  <2>3. CASE s # k \/ req'[c].phase = "answered"
    <3>1. ~RunsUnder(c, s)' /\ ~Running(c) /\ \A d \in Clients : d # c => req'[d] = req[d]
      BY <1>0, <1>3, <2>3, CheckKeyCases
    <3>2. QED
      BY <2>1, <2>2, <3>1, KeyUntouched
  <2>4. CASE s = k /\ req'[c].phase # "answered"
    <3>1. /\ records[s] = {} /\ req'[c].phase = "checked" /\ req'[c].slot = s
          /\ \A d \in Clients : d # c => req'[d] = req[d]
          /\ \A d \in Clients : ~RunsUnder(d, s)
      BY <1>0, <1>3, <2>4, CheckKeyCases DEF Overlapping
    <3>2. DeploysOf(s) = {}
      BY <2>1, <3>1 DEF KeyOK
    <3>3. \A d \in Clients : RunsUnder(d, s)' <=> d = c
      BY <3>1
    <3>4. QED
      BY <2>1, <2>2, <3>1, <3>2, <3>3 DEF KeyOK
  <2>5. QED
    BY <2>3, <2>4
<1>4. ASSUME NEW c \in Clients, Refuse(c) PROVE KeyOK(s)'
  <2>1. KeyOK(s) /\ UNCHANGED <<log, records>> /\ Respond(c, "not_found")
        /\ req[c].phase = "checked"
    BY <1>0, <1>4 DEF Refuse
  <2>2. DeploysOf(s)' = DeploysOf(s)
    BY <2>1 DEF DeploysOf
  <2>3. QED
    BY <1>0, <2>1, <2>2, RespondFacts, KeyUntouched
<1>5. ASSUME NEW c \in Clients, AppendDeploy(c) PROVE KeyOK(s)'
  <2>1. /\ KeyOK(s) /\ UNCHANGED records /\ req[c].phase = "checked"
        /\ \A d \in Clients : d # c => req'[d] = req[d]
        /\ req'[c].slot = req[c].slot /\ req'[c].deploy = Len(log) + 1
        /\ req'[c].phase = "waiting"
    BY <1>0, <1>5 DEF AppendDeploy, TypeOK, Request
  <2>2. [slot |-> req[c].slot, release |-> req[c].release] \in Deploy
    BY <1>0 DEF TypeOK, Request, Deploy
  <2>3. CASE s # req[c].slot
    <3>1. DeploysOf(s)' = DeploysOf(s)
      BY <1>0, <1>5, <2>2, <2>3, DeploysAfterAppend DEF AppendDeploy
    <3>2. QED
      BY <2>1, <2>3, <3>1, KeyUntouched
  <2>4. CASE s = req[c].slot
    <3>1. DeploysOf(s)' = DeploysOf(s) \cup {Len(log) + 1}
      BY <1>0, <1>5, <2>2, <2>4, DeploysAfterAppend DEF AppendDeploy
    <3>2. DeploysOf(s) = {} /\ records[s] = {}
      BY <2>1, <2>4 DEF KeyOK
    <3>3. \A d \in Clients : RunsUnder(d, s)' <=> d = c
      BY <2>1, <2>4 DEF KeyOK
    <3>4. QED
      BY <2>1, <3>1, <3>2, <3>3 DEF KeyOK
  <2>5. QED
    BY <2>3, <2>4
<1>6. ASSUME NEW c \in Clients, ReadBack(c) PROVE KeyOK(s)'
  <2>1. /\ KeyOK(s) /\ UNCHANGED <<log, records>> /\ req[c].phase = "waiting"
        /\ \A d \in Clients : d # c => req'[d] = req[d]
        /\ req'[c].slot = req[c].slot /\ req'[c].deploy = req[c].deploy
        /\ req'[c].phase = "storing"
    BY <1>0, <1>6 DEF ReadBack, TypeOK, Request
  <2>2. DeploysOf(s)' = DeploysOf(s)
    BY <2>1 DEF DeploysOf
  <2>3. QED
    BY <2>1, <2>2, KeyUntouched
<1>7. ASSUME NEW c \in Clients, StoreRecord(c) PROVE KeyOK(s)'
  <2>1. KeyOK(s) /\ UNCHANGED log /\ Respond(c, "ok") /\ req[c].phase = "storing"
    BY <1>0, <1>7 DEF StoreRecord
  <2>2. DeploysOf(s)' = DeploysOf(s)
    BY <2>1 DEF DeploysOf
  <2>3. CASE s # req[c].slot
    <3>1. records'[s] = records[s]
      BY <1>0, <1>7, <2>3 DEF StoreRecord, TypeOK
    <3>2. QED
      BY <1>0, <2>1, <2>2, <2>3, <3>1, RespondFacts, KeyUntouched
  <2>4. CASE s = req[c].slot
    <3>1. records'[s] # {}
      BY <1>0, <1>7, <2>4 DEF StoreRecord, TypeOK
    <3>2. \A d \in Clients : ~RunsUnder(d, s)'
      <4>1. \A d \in Clients : RunsUnder(d, s) => d = c
        BY <2>1, <2>4 DEF KeyOK
      <4>2. QED
        BY <1>0, <2>1, <4>1, RespondFacts
    <3>3. QED
      BY <2>1, <2>2, <3>1, <3>2 DEF KeyOK
  <2>5. QED
    BY <2>3, <2>4
<1>8. ASSUME NEW c \in Clients, StoreFails(c) \/ ProjectionTimeout(c) \/ Abort(c)
      PROVE  KeyOK(s)'
  <2>1. /\ KeyOK(s) /\ UNCHANGED <<log, records>> /\ \E a \in Answers : Respond(c, a)
        /\ req[c].slot = s => req[c].phase = "checked"
    BY <1>0, <1>8 DEF StoreFails, ProjectionTimeout, Abort, Answers
  <2>2. DeploysOf(s)' = DeploysOf(s)
    BY <2>1 DEF DeploysOf
  <2>3. QED
    BY <1>0, <2>1, <2>2, RespondFacts, KeyUntouched
<1>9. QED
  BY <1>1, <1>2, <1>3, <1>4, <1>5, <1>6, <1>7, <1>8 DEF Next

----------------------------------------------------------------------------

LEMMA InvStep == DeployInv /\ [Next]_vars => DeployInv'
  BY TypeStep, TruthStep, KeysStep DEF DeployInv

LEMMA DeployInvariant == Spec => []DeployInv
  BY InitEstablishes, InvStep, PTL DEF Spec

\* Every reachable state of the deploy commands is of its type.
THEOREM DeployTypeCorrect == Spec => []TypeOK
<1>1. DeployInv => TypeOK
  BY DEF DeployInv
<1>2. QED
  BY <1>1, DeployInvariant, PTL

\* However requests, retries, projection and cleanup interleave, a client is told only of
\* deploys made under its key with its body, and can read them (create_deploy).
THEOREM AnswersAreTruthful == Spec => []Truthful
<1>1. DeployInv => Truthful
  BY DEF DeployInv
<1>2. QED
  BY <1>1, DeployInvariant, PTL

\* A key creates at most one deploy unless its requests overlap, one ends between append
\* and store, or its record expires (idempotency::check, idempotency::store).
THEOREM OneDeployPerKey == Spec => []OneDeployUnlessExposed
<1>1. ASSUME DeployInv PROVE OneDeployUnlessExposed
  <2>1. ASSUME NEW s \in Slots \ (exposed \cup expired)
        PROVE  Cardinality(DeploysOf(s)) <= 1
    BY <1>1, AtMostOne DEF DeployInv, KeyOK
  <2>2. QED
    BY <2>1 DEF OneDeployUnlessExposed
<1>2. QED
  BY <1>1, DeployInvariant, PTL

============================================================================
