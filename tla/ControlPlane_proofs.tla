-------------------------- MODULE ControlPlane_proofs --------------------------
(***************************************************************************)
(* Proofs about NodePlane, for any number of nodes, instances, enrolling   *)
(* clients, keys, events and timeouts; and about Ipv4Addon, for any number *)
(* of environments, addresses and handlers.                                *)
(*                                                                         *)
(* NodePlane.  The log is the centre of the argument.  It grows in two     *)
(* ways: by the first event of an aggregate, whose id was drawn from an    *)
(* address sequence and is new, or by a batch that was numbered earlier    *)
(* and is pending: in a request, with the scheduler, or on its way to the  *)
(* database without a client.  The events of an aggregate are numbered     *)
(* without gaps, so a pending batch is either next or its number is taken. *)
(*                                                                         *)
(* Ipv4Addon.  RowsMatchLog relates the rows to the log outside of a       *)
(* request, so its proof needs to know what a request has done between its *)
(* two transactions: EnableInv and DisableInv.  These in turn rest on      *)
(* RefInv: whatever the view, the events still to be projected and the     *)
(* requests name as an environment's allocation is that environment's row, *)
(* and this row is still there unless a request of the environment was cut *)
(* short.  A cooldown may end only because by then the view and the log    *)
(* agree.                                                                  *)
(***************************************************************************)
EXTENDS NodePlane, Ipv4Addon, FiniteSetTheorems, WellFoundedInduction, TLAPS

----------------------------------------------------------------------------
(* Types.                                                                    *)

Loops == {"beat", "sync"}
Creations == {"enrolled", "allocated"}

Ev == [agg : {"node", "instance"}, id : Nat, seq : Nat, node : Nat, addr : Nat,
       kind : {"enrolled", "capacity", "state", "allocated", "draining", "status"},
       name : Keys \cup NodeStates \cup {None}, val : Nat]

\* What an event of each kind carries.
EventOK(e) ==
    /\ e.agg = "node" <=> e.kind \in {"enrolled", "capacity", "state"}
    /\ e.agg = "node" => e.id \in NodeIds
    /\ e.agg = "instance" => e.id \in InstanceIds
    /\ e.kind \in Creations => e.seq = 1 /\ e.addr = e.id
    /\ e.kind = "enrolled" => e.name \in Keys
    /\ e.kind = "allocated" => e.node \in NodeIds
    /\ e.kind = "capacity" => e.val \in 0 .. Capacity
    /\ e.kind = "state" => e.name \in NodeStates
    /\ e.kind = "status" => e.val \in 1 .. 3 /\ e.node \in NodeIds

Call == [phase : {"idle", "loaded", "numbered"}, kind : {"", "heartbeat", "status", "plan"},
         inst : Nat, name : NodeStates \cup {None}, val : Nat, changed : BOOLEAN,
         batch : Seq(Ev), rows : SUBSET (InstanceIds \X {"running", "draining"}),
         cursor : Nat]

Placing == [phase : {"idle", "placed", "addressed", "draining"}, inst : Nat, node : Nat,
            addr : Nat, batch : Seq(Ev)]

Enroll == [phase : {"idle", "checked", "addressed"}, key : Keys \cup {None}, node : Nat,
           addr : Nat]

NodeRow == [id : NodeIds, state : NodeStates, key : Keys, addr : Nat,
            available : 0 .. Capacity]

InstanceRow == [id : InstanceIds, node : NodeIds, addr : Nat,
                desired : {"running", "draining"}, status : 0 .. 3]

Agent == [cursor : Nat, held : SUBSET InstanceIds, stat : [InstanceIds -> 0 .. 3],
          told : [InstanceIds -> 0 .. 3]]

TypeInv ==
    /\ nlog \in Seq(Ev)
    /\ ndone \in 0 .. Len(nlog)
    /\ nodes \subseteq NodeRow
    /\ instances \subseteq InstanceRow
    /\ ipam \subseteq [pool : {"node", "instance"}, owner : Nat, suffix : Nat]
    /\ enrolls \in [Enrollers -> Enroll]
    /\ placing \in Placing
    /\ calls \in [NodeIds -> [Loops -> Call]]
    /\ orphans \subseteq Seq(Ev)
    /\ agents \in [NodeIds -> Agent]
    /\ timeouts \in Nat
    /\ keyraced \subseteq Keys

----------------------------------------------------------------------------
(* The log.                                                                  *)

\* The events of an aggregate.
Of(agg, id) == {i \in 1 .. Len(nlog) : nlog[i].agg = agg /\ nlog[i].id = id}

Created(agg, id) == \E i \in Of(agg, id) : nlog[i].kind \in Creations

AllocatedOn(x, n) ==
    \E i \in 1 .. Len(nlog) : nlog[i].kind = "allocated" /\ nlog[i].id = x /\ nlog[i].node = n

\* An aggregate begins with its creation, and its events are numbered without gaps.
LogInv ==
    /\ \A i \in 1 .. Len(nlog) :
         /\ EventOK(nlog[i])
         /\ Created(nlog[i].agg, nlog[i].id)
         /\ nlog[i].seq \in 1 .. LatestNodeSeq(nlog[i].agg, nlog[i].id)
         /\ nlog[i].kind = "status" => AllocatedOn(nlog[i].id, nlog[i].node)
    /\ \A a \in {"node", "instance"}, x \in Nat : \A m \in 1 .. LatestNodeSeq(a, x) :
         \E i \in Of(a, x) : nlog[i].seq = m
    /\ ReportsInOrder

\* A batch in a request, with the scheduler, or left behind by a client.
Pending(b) ==
    \/ b \in orphans
    \/ b # <<>> /\ \E n \in NodeIds, t \in Loops : b = calls[n][t].batch
    \/ placing.phase = "draining" /\ b = placing.batch

\* A pending batch belongs to one aggregate that exists, its numbers follow each other, and
\* begin no later than the next number that is free.
BatchOK(b) ==
    /\ b \in Seq(Ev)
    /\ Len(b) \in 1 .. 2
    /\ \A k \in 1 .. Len(b) :
         /\ EventOK(b[k])
         /\ b[k].kind \notin Creations
         /\ b[k].agg = b[1].agg /\ b[k].id = b[1].id
         /\ b[k].seq = b[1].seq + (k - 1)
    /\ Created(b[1].agg, b[1].id)
    /\ b[1].seq \in 2 .. LatestNodeSeq(b[1].agg, b[1].id) + 1

\* A pending report is no older than the reports numbered before it, and no newer than what
\* its node knows.
ReportOK(b) ==
    \A k \in 1 .. Len(b) : b[k].kind = "status" =>
        /\ Len(b) = 1
        /\ AllocatedOn(b[k].id, b[k].node)
        /\ b[k].val <= agents[b[k].node].stat[b[k].id]
        /\ \A i \in Of("instance", b[k].id) :
             nlog[i].kind = "status" /\ nlog[i].seq < b[k].seq => nlog[i].val <= b[k].val

PendInv == \A b : Pending(b) => BatchOK(b) /\ ReportOK(b)

----------------------------------------------------------------------------
(* Requests and agents.                                                      *)

\* What a request of a node's loops holds.
CallOK(n, t) ==
    LET c == calls[n][t]
    IN  /\ t = "beat" => c.kind \in {"", "heartbeat"}
        /\ t = "sync" => c.kind \in {"", "status", "plan"}
        /\ c.phase = "idle" <=> c.kind = ""
        /\ c.kind = "heartbeat" =>
             c.val \in 0 .. Capacity /\ c.name \in NodeStates /\ Created("node", n)
        /\ c.kind = "status" =>
             /\ c.inst \in InstanceIds
             /\ c.val = agents[n].stat[c.inst] /\ c.val \in 1 .. 3
             /\ AllocatedOn(c.inst, n)
        /\ \A p \in c.rows : AllocatedOn(p[1], n)

\* An agent knows of the instances allocated on its node only, and of every status in the
\* log it knows the instance to be at least that far.
AgentInv ==
    /\ \A n \in NodeIds, t \in Loops : CallOK(n, t)
    /\ \A n \in NodeIds, x \in InstanceIds :
         agents[n].stat[x] # 0 \/ x \in agents[n].held => AllocatedOn(x, n)
    /\ \A i \in 1 .. Len(nlog) :
         nlog[i].kind = "status" => nlog[i].val <= agents[nlog[i].node].stat[nlog[i].id]

----------------------------------------------------------------------------
(* Identities.                                                               *)

HeldFor(pool, x) == [pool |-> pool, owner |-> x, suffix |-> x] \in ipam

\* Addresses are drawn in order, and what is being created has one that no event names yet.
IdInv ==
    /\ IsFiniteSet(ipam)
    /\ \A a \in ipam : a.owner = a.suffix /\ a.suffix \in 1 .. Cardinality(Drawn(a.pool))
    /\ \A i \in 1 .. Len(nlog) : nlog[i].kind \in Creations => HeldFor(nlog[i].agg, nlog[i].id)
    /\ \A e \in Enrollers : enrolls[e].phase = "addressed" =>
         /\ HeldFor("node", enrolls[e].node) /\ ~Created("node", enrolls[e].node)
         /\ enrolls[e].addr = enrolls[e].node /\ enrolls[e].node \in NodeIds
         /\ \A f \in Enrollers \ {e} :
              enrolls[f].phase = "addressed" => enrolls[f].node # enrolls[e].node
    /\ placing.phase = "placed" =>
         Cardinality(Drawn("instance")) < InstanceBound /\ placing.node \in NodeIds
    /\ placing.phase = "addressed" =>
         /\ HeldFor("instance", placing.inst) /\ ~Created("instance", placing.inst)
         /\ placing.addr = placing.inst /\ placing.inst \in InstanceIds
         /\ placing.node \in NodeIds

Enrolled(i, k) == nlog[i].kind = "enrolled" /\ nlog[i].name = k

\* A key that no check has met while it was being enrolled is with one enrollment, or with
\* one node, at a time.
KeyInv ==
    /\ \A e \in Enrollers : enrolls[e].phase # "idle" =>
         /\ enrolls[e].key \in Keys
         /\ enrolls[e].key \notin keyraced =>
              /\ \A f \in Enrollers \ {e} : enrolls[f].key # enrolls[e].key
              /\ \A i \in 1 .. Len(nlog) : ~Enrolled(i, enrolls[e].key)
    /\ \A i, j \in 1 .. Len(nlog) : \A k \in Keys \ keyraced :
         Enrolled(i, k) /\ Enrolled(j, k) => i = j

----------------------------------------------------------------------------
(* The views.                                                                *)

\* Each row is of one creation that was projected.
ViewInv ==
    /\ \A r \in nodes : \E i \in 1 .. ndone : nlog[i].kind = "enrolled" /\ nlog[i].id = r.id
    /\ \A i \in 1 .. ndone : nlog[i].kind = "enrolled" =>
         \E r \in nodes : r.id = nlog[i].id /\ r.key = nlog[i].name
    /\ \A r, s \in nodes : r.id = s.id => r = s
    /\ \A r \in instances : \E i \in 1 .. ndone :
         nlog[i].kind = "allocated" /\ nlog[i].id = r.id /\ nlog[i].node = r.node
    /\ \A r, s \in instances : r.id = s.id => r = s

NodeInv ==
    TypeInv /\ LogInv /\ PendInv /\ AgentInv /\ IdInv /\ KeyInv /\ ViewInv

----------------------------------------------------------------------------
(* Facts about numbers, sequences and the log.                               *)

\* The least-number principle.
LEMMA LeastNatural ==
    ASSUME NEW S \in SUBSET Nat, S # {}
    PROVE  \E m \in S : \A k \in S : m <= k
<1>1. PICK m \in S : \A k \in S : ~(<<k, m>> \in OpToRel(<, Nat))
  BY NatLessThanWellFounded, WFMin
<1>2. \A k \in S : ~(k < m)
  BY <1>1 DEF OpToRel
<1>3. QED
  BY <1>2

\* What concatenating a batch to the log gives.
LEMMA ConcatFacts ==
    ASSUME NEW s \in Seq(Ev), NEW u \in Seq(Ev)
    PROVE  /\ s \o u \in Seq(Ev)
           /\ Len(s \o u) = Len(s) + Len(u)
           /\ \A i \in 1 .. Len(s) : (s \o u)[i] = s[i]
           /\ \A k \in 1 .. Len(u) : (s \o u)[Len(s) + k] = u[k]
           /\ \A j \in 1 .. Len(s) + Len(u) :
                j \in 1 .. Len(s) \/ \E k \in 1 .. Len(u) : j = Len(s) + k
<1>1. /\ s \o u \in Seq(Ev)
      /\ Len(s \o u) = Len(s) + Len(u)
      /\ \A i \in 1 .. Len(s) : (s \o u)[i] = s[i]
      /\ \A k \in 1 .. Len(u) : (s \o u)[Len(s) + k] = u[k]
  OBVIOUS
<1>2. Len(s) \in Nat /\ Len(u) \in Nat
  OBVIOUS
<1>3. ASSUME NEW j \in 1 .. Len(s) + Len(u), j \notin 1 .. Len(s)
      PROVE  j - Len(s) \in 1 .. Len(u) /\ j = Len(s) + (j - Len(s))
  BY <1>2, <1>3
<1>4. QED
  BY <1>1, <1>3

\* Append adds a batch of one.
LEMMA AppendIsConcat ==
    ASSUME NEW s \in Seq(Ev), NEW e \in Ev
    PROVE  /\ Append(s, e) = s \o <<e>>
           /\ <<e>> \in Seq(Ev) /\ Len(<<e>>) = 1 /\ <<e>>[1] = e
    OBVIOUS

\* The log and the number of an aggregate's events.
LEMMA LogBasics ==
    ASSUME TypeInv
    PROVE  /\ Len(nlog) \in Nat
           /\ \A i \in 1 .. Len(nlog) : nlog[i] \in Ev
           /\ \A a, x : IsFiniteSet(Of(a, x)) /\ LatestNodeSeq(a, x) = Cardinality(Of(a, x))
                        /\ LatestNodeSeq(a, x) \in Nat
<1>1. Len(nlog) \in Nat /\ \A i \in 1 .. Len(nlog) : nlog[i] \in Ev
  BY DEF TypeInv
<1>2. IsFiniteSet(1 .. Len(nlog))
  BY <1>1, FS_Interval
<1>3. ASSUME NEW a, NEW x
      PROVE  IsFiniteSet(Of(a, x)) /\ LatestNodeSeq(a, x) = Cardinality(Of(a, x))
             /\ LatestNodeSeq(a, x) \in Nat
  <2>1. Of(a, x) \in SUBSET (1 .. Len(nlog))
    BY DEF Of
  <2>2. IsFiniteSet(Of(a, x))
    BY <1>2, <2>1, FS_Subset
  <2>3. LatestNodeSeq(a, x) = Cardinality(Of(a, x))
    BY DEF LatestNodeSeq, Of
  <2>4. QED
    BY <2>2, <2>3, FS_CardinalityType
<1>4. QED
  BY <1>1, <1>3

\* The node that is best is one of the eligible ones (find_best_node).
LEMMA BestNodeFacts ==
    ASSUME TypeInv, ViewInv, Eligible # {}
    PROVE  BestNode \in Eligible
<1> DEFINE room == {Capacity - r.available : r \in Eligible}
<1>1. \A r \in Eligible : r.available \in 0 .. Capacity /\ r.id \in Nat /\ r \in nodes
  BY DEF Eligible, TypeInv, NodeRow, NodeIds
<1>2. room \in SUBSET Nat /\ room # {}
  BY <1>1, NodeControlAssumption
<1>3. PICK m \in room : \A k \in room : m <= k
  BY <1>2, LeastNatural
<1>4. PICK r0 \in Eligible : m = Capacity - r0.available
  BY <1>3
<1>5. ASSUME NEW s \in Eligible PROVE s.available <= r0.available
  <2>1. Capacity - r0.available <= Capacity - s.available
    BY <1>3, <1>4
  <2>2. QED
    BY <1>1, <2>1, NodeControlAssumption
<1> DEFINE ids == {r.id : r \in {q \in Eligible : q.available = r0.available}}
<1>6. ids \in SUBSET Nat /\ ids # {}
  BY <1>1
<1>7. PICK x \in ids : \A k \in ids : x <= k
  BY <1>6, LeastNatural
<1>8. PICK r1 \in Eligible : r1.available = r0.available /\ x = r1.id
  BY <1>7
<1>9. ASSUME NEW s \in Eligible \ {r1} PROVE Better(r1, s)
  <2>1. s.id # r1.id
    BY <1>1, <1>9 DEF ViewInv
  <2>2. s.available = r0.available => x <= s.id
    BY <1>7
  <2>3. QED
    BY <1>1, <1>5, <1>8, <2>1, <2>2 DEF Better
<1>10. QED
  BY <1>9 DEF BestNode

----------------------------------------------------------------------------
(* How the log grows.                                                        *)

\* A batch that may follow the log: the next numbers of one aggregate, which exists or is
\* created by it.
Extension(u) ==
    /\ u \in Seq(Ev)
    /\ Len(u) \in 1 .. 2
    /\ \A k \in 1 .. Len(u) :
         /\ EventOK(u[k])
         /\ u[k].agg = u[1].agg /\ u[k].id = u[1].id
         /\ u[k].seq = LatestNodeSeq(u[1].agg, u[1].id) + k
         /\ u[k].kind \in Creations => k = 1 /\ Len(u) = 1 /\ ~Created(u[k].agg, u[k].id)
    /\ Created(u[1].agg, u[1].id) \/ u[1].kind \in Creations
    /\ ReportOK(u)

Grows(u) == Extension(u) /\ nlog' = nlog \o u

\* The longer log has the old events where they were, and the new ones after them.
LEMMA Growth ==
    ASSUME TypeInv, NEW u, Grows(u)
    PROVE  /\ nlog' \in Seq(Ev)
           /\ Len(nlog') = Len(nlog) + Len(u)
           /\ \A i \in 1 .. Len(nlog) : i \in 1 .. Len(nlog') /\ nlog'[i] = nlog[i]
           /\ \A k \in 1 .. Len(u) :
                Len(nlog) + k \in 1 .. Len(nlog') /\ nlog'[Len(nlog) + k] = u[k]
           /\ \A j \in 1 .. Len(nlog') :
                j \in 1 .. Len(nlog) \/ \E k \in 1 .. Len(u) : j = Len(nlog) + k
<1>1. nlog \in Seq(Ev) /\ u \in Seq(Ev) /\ nlog' = nlog \o u
  BY DEF TypeInv, Grows, Extension
<1>2. Len(nlog) \in Nat /\ Len(u) \in Nat
  BY <1>1
<1>3. QED
  BY <1>1, <1>2, ConcatFacts, SMTT(30)

\* What was created or allocated stays so.
LEMMA GrowthKeeps ==
    ASSUME TypeInv, NEW u, Grows(u)
    PROVE  /\ \A a, x : Created(a, x) => Created(a, x)'
           /\ \A x, n : AllocatedOn(x, n) => AllocatedOn(x, n)'
           /\ \A a, x : Created(a, x)' =>
                Created(a, x) \/ (u[1].agg = a /\ u[1].id = x /\ u[1].kind \in Creations)
<1> USE Growth
<1>1. ASSUME NEW a, NEW x, Created(a, x) PROVE Created(a, x)'
  BY <1>1 DEF Created, Of
<1>2. ASSUME NEW x, NEW n, AllocatedOn(x, n) PROVE AllocatedOn(x, n)'
  BY <1>2 DEF AllocatedOn
<1>3. ASSUME NEW a, NEW x, Created(a, x)', ~Created(a, x)
      PROVE  u[1].agg = a /\ u[1].id = x /\ u[1].kind \in Creations
  <2>1. PICK j \in 1 .. Len(nlog') :
          nlog'[j].agg = a /\ nlog'[j].id = x /\ nlog'[j].kind \in Creations
    BY <1>3 DEF Created, Of
  <2>2. j \notin 1 .. Len(nlog)
    BY <1>3, <2>1 DEF Created, Of
  <2>3. PICK k \in 1 .. Len(u) : j = Len(nlog) + k
    BY <2>2
  <2>4. u[k].kind \in Creations /\ u[k].agg = a /\ u[k].id = x
    BY <2>1, <2>3
  <2>5. k = 1
    BY <2>4 DEF Grows, Extension
  <2>6. QED
    BY <2>4, <2>5
<1>4. QED
  BY <1>1, <1>2, <1>3

\* The aggregate of the batch gains its events, the others gain none.
LEMMA GrowthCounts ==
    ASSUME TypeInv, NEW u, Grows(u), NEW a, NEW x
    PROVE  /\ a = u[1].agg /\ x = u[1].id =>
                LatestNodeSeq(a, x)' = LatestNodeSeq(a, x) + Len(u)
           /\ ~(a = u[1].agg /\ x = u[1].id) =>
                Of(a, x)' = Of(a, x) /\ LatestNodeSeq(a, x)' = LatestNodeSeq(a, x)
           /\ LatestNodeSeq(a, x) <= LatestNodeSeq(a, x)'
<1>1. Len(nlog) \in Nat /\ Len(u) \in 1 .. 2
  BY DEF TypeInv, Grows, Extension
<1>2. \A k \in 1 .. Len(u) : u[k].agg = u[1].agg /\ u[k].id = u[1].id
  BY DEF Grows, Extension
<1>3. LatestNodeSeq(a, x) = Cardinality(Of(a, x)) /\ IsFiniteSet(Of(a, x))
      /\ LatestNodeSeq(a, x) \in Nat
  BY LogBasics
<1>4. LatestNodeSeq(a, x)' = Cardinality(Of(a, x)')
  BY DEF LatestNodeSeq, Of
<1>5. CASE a = u[1].agg /\ x = u[1].id
  <2> DEFINE new == (Len(nlog) + 1) .. (Len(nlog) + Len(u))
  <2>1. Of(a, x)' = Of(a, x) \cup new
    <3>1. ASSUME NEW j \in Of(a, x)' PROVE j \in Of(a, x) \cup new
      BY <1>1, Growth DEF Of
    <3>2. ASSUME NEW j \in Of(a, x) PROVE j \in Of(a, x)'
      BY Growth DEF Of
    <3>3. ASSUME NEW j \in new PROVE j \in Of(a, x)'
      <4>1. j - Len(nlog) \in 1 .. Len(u) /\ j = Len(nlog) + (j - Len(nlog))
        BY <1>1
      <4>2. j \in 1 .. Len(nlog') /\ nlog'[j] = u[j - Len(nlog)]
        BY <4>1, Growth
      <4>3. QED
        BY <1>2, <1>5, <4>1, <4>2 DEF Of
    <3>4. QED
      BY <3>1, <3>2, <3>3
  <2>2. IsFiniteSet(new) /\ Cardinality(new) = Len(u)
    <3>1. Len(nlog) + 1 \in Int /\ Len(nlog) + Len(u) \in Int
          /\ ~(Len(nlog) + 1 > Len(nlog) + Len(u))
          /\ (Len(nlog) + Len(u)) - (Len(nlog) + 1) + 1 = Len(u)
      BY <1>1, SMTT(30)
    <3>2. QED
      BY <3>1, FS_Interval, Zenon
  <2>3. Of(a, x) \cap new = {}
    BY <1>1 DEF Of
  <2> HIDE DEF new
  <2>4. Cardinality(Of(a, x) \cup new) = Cardinality(Of(a, x)) + Len(u)
    <3>1. Cardinality(Of(a, x) \cup new) = Cardinality(Of(a, x)) + Len(u) - Cardinality({})
      BY <1>3, <2>2, <2>3, FS_Union
    <3>2. QED
      BY <1>1, <1>3, <3>1, FS_EmptySet
  <2>5. QED
    BY <1>1, <1>3, <1>4, <1>5, <2>1, <2>4
<1>6. CASE ~(a = u[1].agg /\ x = u[1].id)
  <2>1. Of(a, x)' = Of(a, x)
    <3>1. ASSUME NEW j \in Of(a, x)' PROVE j \in Of(a, x)
      <4>1. j \in 1 .. Len(nlog') /\ nlog'[j].agg = a /\ nlog'[j].id = x
        BY DEF Of
      <4>2. ASSUME NEW k \in 1 .. Len(u), j = Len(nlog) + k PROVE FALSE
        <5>1. nlog'[j] = u[k]
          BY <4>2, Growth
        <5>2. QED
          BY <1>2, <1>6, <4>1, <5>1
      <4>3. j \in 1 .. Len(nlog)
        BY <4>1, <4>2, Growth
      <4>4. QED
        BY <4>1, <4>3, Growth DEF Of
    <3>2. ASSUME NEW j \in Of(a, x) PROVE j \in Of(a, x)'
      BY Growth DEF Of
    <3>3. QED
      BY <3>1, <3>2
  <2>2. QED
    BY <1>3, <1>4, <1>6, <2>1
<1>7. QED
  BY <1>5, <1>6

\* A pending batch whose number is free is the next one of its aggregate.
LEMMA FreeIsNext ==
    ASSUME TypeInv, LogInv, NEW b, BatchOK(b), ReportOK(b), ~NumberTaken(b)
    PROVE  Extension(b)
<1> DEFINE m == LatestNodeSeq(b[1].agg, b[1].id)
<1>1. m \in Nat
  BY LogBasics
<1>2. b[1].agg \in {"node", "instance"} /\ b[1].id \in Nat /\ b[1].seq \in 2 .. m + 1
      /\ Len(b) \in 1 .. 2 /\ b \in Seq(Ev)
  <2>1. b \in Seq(Ev) /\ Len(b) \in 1 .. 2 /\ b[1].seq \in 2 .. m + 1
    BY DEF BatchOK
  <2>2. b[1] \in Ev
    BY <2>1
  <2>3. QED
    BY <2>1, <2>2 DEF Ev
<1>3. b[1].seq \notin 1 .. m
  <2>1. SUFFICES ASSUME b[1].seq \in 1 .. m PROVE FALSE
    OBVIOUS
  <2>2. PICK i \in Of(b[1].agg, b[1].id) : nlog[i].seq = b[1].seq
    BY <1>2, <2>1 DEF LogInv
  <2>3. QED
    BY <2>2 DEF NumberTaken, Of
<1>4. b[1].seq = m + 1
  BY <1>1, <1>2, <1>3
<1>5. \A k \in 1 .. Len(b) : b[k].seq = m + k
  <2>1. \A k \in 1 .. Len(b) : b[k].seq = b[1].seq + (k - 1)
    BY DEF BatchOK
  <2>2. QED
    BY <1>1, <1>2, <1>4, <2>1
<1>6. QED
  BY <1>2, <1>5 DEF BatchOK, Extension

\* The first event of an aggregate that was not created is number one.
LEMMA CreationIsNext ==
    ASSUME TypeInv, LogInv, NEW e \in Ev, EventOK(e), e.kind \in Creations,
           ~Created(e.agg, e.id)
    PROVE  Extension(<<e>>)
<1>1. Of(e.agg, e.id) = {}
  <2>1. SUFFICES ASSUME NEW i \in Of(e.agg, e.id) PROVE FALSE
    OBVIOUS
  <2>2. i \in 1 .. Len(nlog) /\ nlog[i].agg = e.agg /\ nlog[i].id = e.id
    BY DEF Of
  <2>3. QED
    BY <2>2 DEF LogInv
<1>2. LatestNodeSeq(e.agg, e.id) = 0
  BY <1>1, LogBasics, FS_EmptySet
<1>3. <<e>> \in Seq(Ev) /\ Len(<<e>>) = 1 /\ <<e>>[1] = e /\ e.seq = 1
  BY DEF EventOK
<1>4. ReportOK(<<e>>)
  BY <1>3 DEF ReportOK, Creations
<1>5. QED
  BY <1>2, <1>3, <1>4 DEF Extension

\* Events of the log come in the order of their numbers, also after it has grown.
LEMMA OrderGrows ==
    ASSUME TypeInv, LogInv, NEW u, Grows(u)
    PROVE  ReportsInOrder'
<1>1. SUFFICES ASSUME NEW i \in 1 .. Len(nlog'), NEW j \in 1 .. Len(nlog'), i < j,
                      nlog'[i].agg = nlog'[j].agg, nlog'[i].id = nlog'[j].id
               PROVE  /\ nlog'[i].seq < nlog'[j].seq
                      /\ nlog'[i].kind = "status" /\ nlog'[j].kind = "status" =>
                            nlog'[i].val <= nlog'[j].val
  BY DEF ReportsInOrder
<1>2. Len(nlog) \in Nat /\ Len(u) \in 1 .. 2
  BY DEF TypeInv, Grows, Extension
<1>3. CASE j \in 1 .. Len(nlog)
  <2>1. i \in 1 .. Len(nlog) /\ nlog'[i] = nlog[i] /\ nlog'[j] = nlog[j]
    BY <1>1, <1>2, <1>3, Growth
  <2>2. QED
    BY <1>1, <1>3, <2>1 DEF LogInv, ReportsInOrder
<1>4. ASSUME NEW k \in 1 .. Len(u), j = Len(nlog) + k
      PROVE  /\ nlog'[i].seq < nlog'[j].seq
             /\ nlog'[i].kind = "status" /\ nlog'[j].kind = "status" =>
                   nlog'[i].val <= nlog'[j].val
  <2> DEFINE m == LatestNodeSeq(u[1].agg, u[1].id)
  <2>1. /\ nlog'[j] = u[k] /\ m \in Nat
        /\ u[k].agg = u[1].agg /\ u[k].id = u[1].id /\ u[k].seq = m + k
    BY <1>4, Growth, LogBasics DEF Grows, Extension
  <2>2. CASE i \in 1 .. Len(nlog)
    <3>1. nlog'[i] = nlog[i] /\ nlog[i].agg = u[1].agg /\ nlog[i].id = u[1].id
      BY <1>1, <2>1, <2>2, Growth
    <3>2. nlog[i].seq \in 1 .. m
      BY <2>2, <3>1 DEF LogInv
    <3>3. nlog[i].seq < u[k].seq
      BY <2>1, <3>2
    <3>4. ASSUME nlog[i].kind = "status", u[k].kind = "status"
          PROVE  nlog[i].val <= u[k].val
      <4>1. nlog[i].agg = "instance"
        <5>1. nlog[i] \in Ev /\ EventOK(nlog[i])
          BY <2>2, LogBasics DEF LogInv
        <5>2. QED
          BY <3>4, <5>1 DEF EventOK, Ev
      <4>2. i \in Of("instance", u[k].id)
        BY <2>1, <2>2, <3>1, <4>1 DEF Of
      <4>3. QED
        BY <3>3, <3>4, <4>2 DEF Grows, Extension, ReportOK
    <3>5. QED
      BY <2>1, <3>1, <3>3, <3>4
  <2>3. ASSUME NEW h \in 1 .. Len(u), i = Len(nlog) + h
        PROVE  /\ nlog'[i].seq < nlog'[j].seq
               /\ nlog'[i].kind = "status" /\ nlog'[j].kind = "status" =>
                   nlog'[i].val <= nlog'[j].val
    <3>1. nlog'[i] = u[h] /\ h < k /\ u[h].seq = m + h
      BY <1>1, <1>2, <1>4, <2>3, Growth DEF Grows, Extension
    <3>2. u[k].kind # "status"
      <4>1. Len(u) # 1
        <5>1. PICK z \in 1 .. 2 : z = Len(u)
          BY <1>2
        <5>2. h \in 1 .. z /\ k \in 1 .. z /\ h < k
          BY <3>1, <5>1
        <5>3. z # 1
          BY <5>2
        <5>4. QED
          BY <5>1, <5>3
      <4>2. QED
        BY <4>1 DEF Grows, Extension, ReportOK
    <3>3. QED
      BY <1>2, <2>1, <3>1, <3>2, SMTT(30)
  <2>4. QED
    BY <2>2, <2>3, Growth
<1>5. QED
  BY <1>3, <1>4, Growth

\* The events after the log has grown.
LEMMA EventsGrow ==
    ASSUME TypeInv, LogInv, NEW u, Grows(u), NEW i \in 1 .. Len(nlog')
    PROVE  /\ EventOK(nlog'[i])
           /\ Created(nlog[i].agg, nlog[i].id)'
           /\ nlog'[i].seq \in 1 .. LatestNodeSeq(nlog[i].agg, nlog[i].id)'
           /\ nlog'[i].kind = "status" => AllocatedOn(nlog[i].id, nlog[i].node)'
<1>1. CASE i \in 1 .. Len(nlog)
  <2>1. nlog'[i] = nlog[i]
    BY <1>1, Growth
  <2>2. /\ EventOK(nlog[i])
        /\ Created(nlog[i].agg, nlog[i].id)
        /\ nlog[i].seq \in 1 .. LatestNodeSeq(nlog[i].agg, nlog[i].id)
        /\ nlog[i].kind = "status" => AllocatedOn(nlog[i].id, nlog[i].node)
    BY <1>1 DEF LogInv
  <2>3. PICK a, x, n : a = nlog[i].agg /\ x = nlog[i].id /\ n = nlog[i].node
    OBVIOUS
  <2>4. Created(a, x)' /\ (nlog[i].kind = "status" => AllocatedOn(x, n)')
    BY <2>2, <2>3, GrowthKeeps
  <2>5. nlog[i].seq \in 1 .. LatestNodeSeq(a, x)'
    <3>1. LatestNodeSeq(a, x) <= LatestNodeSeq(a, x)' /\ LatestNodeSeq(a, x) \in Nat
      BY GrowthCounts, LogBasics
    <3>2. LatestNodeSeq(a, x)' \in Nat
      <4>1. Len(u) \in Nat
        BY DEF Grows, Extension
      <4>2. QED
        BY <3>1, <4>1, GrowthCounts
    <3>3. QED
      BY <2>2, <2>3, <3>1, <3>2
  <2>6. a = nlog'[i].agg /\ x = nlog'[i].id /\ n = nlog'[i].node
    BY <2>1, <2>3
  <2>7. QED
    BY <2>1, <2>2, <2>4, <2>5, <2>6 DEF Created, AllocatedOn, Of, LatestNodeSeq
<1>2. ASSUME NEW k \in 1 .. Len(u), i = Len(nlog) + k
      PROVE  /\ EventOK(nlog'[i])
             /\ Created(nlog[i].agg, nlog[i].id)'
             /\ nlog'[i].seq \in 1 .. LatestNodeSeq(nlog[i].agg, nlog[i].id)'
             /\ nlog'[i].kind = "status" => AllocatedOn(nlog[i].id, nlog[i].node)'
  <2>1. nlog'[i] = u[k] /\ EventOK(u[k])
    BY <1>2, Growth DEF Grows, Extension
  <2>2. PICK a, x, n : a = u[k].agg /\ x = u[k].id /\ n = u[k].node
    OBVIOUS
  <2>3. a = u[1].agg /\ x = u[1].id /\ u[k].seq = LatestNodeSeq(a, x) + k
        /\ Len(u) \in 1 .. 2
    BY <2>2 DEF Grows, Extension
  <2>4. u[k].seq \in 1 .. LatestNodeSeq(a, x)'
    BY <2>3, GrowthCounts, LogBasics
  <2>5. Created(a, x)'
    <3>1. CASE Created(a, x)
      BY <3>1, GrowthKeeps
    <3>2. CASE u[1].kind \in Creations
      <4>1. Len(nlog) + 1 \in 1 .. Len(nlog') /\ nlog'[Len(nlog) + 1] = u[1]
        BY <2>3, Growth
      <4>2. QED
        BY <2>3, <3>2, <4>1 DEF Created, Of
    <3>3. QED
      BY <2>3, <3>1, <3>2 DEF Grows, Extension
  <2>6. u[k].kind = "status" => AllocatedOn(x, n)'
    BY <2>2, GrowthKeeps DEF Grows, Extension, ReportOK
  <2>7. QED
    BY <2>1, <2>2, <2>4, <2>5, <2>6 DEF Created, AllocatedOn, Of, LatestNodeSeq
<1>3. QED
  BY <1>1, <1>2, Growth

\* No number is left out.
LEMMA NumbersGrow ==
    ASSUME TypeInv, LogInv, NEW u, Grows(u), NEW a \in {"node", "instance"}, NEW x \in Nat,
           NEW m \in 1 .. LatestNodeSeq(a, x)'
    PROVE  \E i \in Of(a, x)' : nlog'[i].seq = m
<1>1. LatestNodeSeq(a, x) \in Nat /\ Len(u) \in 1 .. 2
  BY LogBasics DEF Grows, Extension
<1>2. CASE m \in 1 .. LatestNodeSeq(a, x)
  <2>1. PICK i \in Of(a, x) : nlog[i].seq = m
    BY <1>2 DEF LogInv
  <2>2. i \in Of(a, x)' /\ nlog'[i] = nlog[i]
    BY Growth DEF Of
  <2>3. QED
    BY <2>1, <2>2
<1>3. CASE m \notin 1 .. LatestNodeSeq(a, x)
  <2>1. a = u[1].agg /\ x = u[1].id /\ LatestNodeSeq(a, x)' = LatestNodeSeq(a, x) + Len(u)
    BY <1>3, GrowthCounts
  <2>2. PICK k \in 1 .. Len(u) : m = LatestNodeSeq(a, x) + k
    <3>1. m - LatestNodeSeq(a, x) \in 1 .. Len(u)
          /\ m = LatestNodeSeq(a, x) + (m - LatestNodeSeq(a, x))
      BY <1>1, <1>3, <2>1
    <3>2. QED
      BY <3>1
  <2>3. u[k].agg = a /\ u[k].id = x /\ u[k].seq = m
    BY <2>1, <2>2 DEF Grows, Extension
  <2>4. Len(nlog) + k \in 1 .. Len(nlog') /\ nlog'[Len(nlog) + k] = u[k]
    BY Growth
  <2>5. QED
    BY <2>3, <2>4 DEF Of
<1>4. QED
  BY <1>2, <1>3

LEMMA LogGrows ==
    ASSUME TypeInv, LogInv, NEW u, Grows(u)
    PROVE  LogInv'
  BY OrderGrows, EventsGrow, NumbersGrow DEF LogInv

\* Without a new event nothing that is read from the log changes.
LEMMA SameLog ==
    ASSUME nlog' = nlog
    PROVE  /\ \A a, x : Of(a, x)' = Of(a, x) /\ LatestNodeSeq(a, x)' = LatestNodeSeq(a, x)
                        /\ (Created(a, x)' <=> Created(a, x))
           /\ \A x, n : AllocatedOn(x, n)' <=> AllocatedOn(x, n)
           /\ ReportsInOrder' <=> ReportsInOrder
<1>1. ASSUME NEW a, NEW x PROVE Of(a, x)' = Of(a, x)
  BY DEF Of
<1>2. ASSUME NEW a, NEW x PROVE LatestNodeSeq(a, x)' = LatestNodeSeq(a, x)
  BY DEF LatestNodeSeq
<1>3. ASSUME NEW a, NEW x PROVE Created(a, x)' <=> Created(a, x)
  BY <1>1 DEF Created
<1>4. ASSUME NEW x, NEW n PROVE AllocatedOn(x, n)' <=> AllocatedOn(x, n)
  BY DEF AllocatedOn
<1>5. ReportsInOrder' <=> ReportsInOrder
  BY DEF ReportsInOrder
<1>6. QED
  BY <1>1, <1>2, <1>3, <1>4, <1>5

LEMMA LogStays ==
    ASSUME LogInv, nlog' = nlog
    PROVE  LogInv'
<1>1. ASSUME NEW i \in 1 .. Len(nlog)
      PROVE  /\ EventOK(nlog'[i])
             /\ Created(nlog[i].agg, nlog[i].id)'
             /\ nlog'[i].seq \in 1 .. LatestNodeSeq(nlog[i].agg, nlog[i].id)'
             /\ nlog'[i].kind = "status" => AllocatedOn(nlog[i].id, nlog[i].node)'
  <2>1. nlog'[i] = nlog[i] /\ EventOK(nlog[i])
    BY DEF LogInv
  <2>2. Created(nlog[i].agg, nlog[i].id)'
    BY DEF LogInv, Created, Of
  <2>3. nlog'[i].seq \in 1 .. LatestNodeSeq(nlog[i].agg, nlog[i].id)'
    BY DEF LogInv, LatestNodeSeq
  <2>4. nlog'[i].kind = "status" => AllocatedOn(nlog[i].id, nlog[i].node)'
    BY DEF LogInv, AllocatedOn
  <2>5. QED
    BY <2>1, <2>2, <2>3, <2>4
<1>2. QED
  BY <1>1, SameLog DEF LogInv

----------------------------------------------------------------------------
(* The steps.                                                                *)

\* A step of a request that changes nothing but the request.
CallsOnly(n) ==
    \/ \E s \in NodeStates, a \in 0 .. Capacity : Heartbeat(n, s, a)
    \/ NumberHeartbeat(n)
    \/ \E t \in Loops : CallConflicts(n, t)
    \/ \E i \in InstanceIds : ReportInstanceStatus(n, i) \/ ReportStatus(n, i)
    \/ NumberStatus(n)
    \/ GetPlan(n)
    \/ ReadPlanCursor(n)

EnrollStep ==
    \E e \in Enrollers :
        \/ \E k \in Keys : CheckEnrollment(e, k)
        \/ AllocateNodeIpv6(e) \/ AppendEnrolled(e) \/ EnrollFails(e)

CallStep ==
    \E n \in NodeIds :
        \/ CallsOnly(n)
        \/ \E t \in Loops : AppendCall(n, t) \/ CallTimesOut(n, t)
        \/ \E i \in InstanceIds : GuestReady(n, i)
        \/ ApplyPlan(n)

PlaceStep ==
    \/ FindBestNode \/ AllocateInstanceIpv6 \/ AppendAllocated \/ AllocateFails \/ AppendDrain
    \/ \E i \in InstanceIds : NumberDrain(i)

OrphanStep == \E b \in orphans : OrphanLands(b) \/ OrphanVanishes(b)

\* What a loop reports is a figure up to the node's capacity.
LEMMA ReportedRange ==
    ASSUME TypeInv, NEW n \in NodeIds
    PROVE  ReportedMemory(n) \subseteq 0 .. Capacity
<1>1. agents[n].held \in SUBSET (1 .. InstanceBound)
  BY DEF TypeInv, Agent, InstanceIds
<1>2. IsFiniteSet(1 .. InstanceBound)
  BY NodeControlAssumption, FS_Interval
<1>3. Cardinality(agents[n].held) \in Nat
  BY <1>1, <1>2, FS_Subset, FS_CardinalityType
<1>4. QED
  BY <1>3, NodeControlAssumption DEF ReportedMemory

\* Every step is one of these.
LEMMA StepCases ==
    ASSUME TypeInv, [NodeNext]_nvars
    PROVE  EnrollStep \/ CallStep \/ PlaceStep \/ OrphanStep \/ ProjectNode \/ UNCHANGED nvars
<1>1. ASSUME NEW n \in NodeIds, BeatNext(n) PROVE CallStep
  <2>1. ASSUME NEW s \in {"active", "draining"}, NEW a \in ReportedMemory(n), Heartbeat(n, s, a)
        PROVE  CallStep
    <3>1. s \in NodeStates /\ a \in 0 .. Capacity
      BY ReportedRange DEF NodeStates
    <3>2. QED
      BY <2>1, <3>1 DEF CallStep, CallsOnly
  <2>2. ASSUME NEW a \in ReportedMemory(n), GrpcHeartbeat(n, "unspecified", a) PROVE CallStep
    <3>1. Heartbeat(n, "active", a)
      BY <2>2 DEF GrpcHeartbeat, NodeStateFromProto, NodeStates
    <3>2. QED
      BY <2>1, <3>1
  <2>3. CASE NumberHeartbeat(n)
    BY <2>3 DEF CallStep, CallsOnly
  <2>4. CASE AppendCall(n, "beat") \/ CallConflicts(n, "beat")
    BY <2>4 DEF CallStep, CallsOnly, Loops
  <2>5. QED
    BY <1>1, <2>1, <2>2, <2>3, <2>4 DEF BeatNext
<1>2. ASSUME NEW n \in NodeIds, CallTimesOut(n, "beat") PROVE CallStep
  BY <1>2 DEF CallStep, Loops
<1>3. ASSUME NEW n \in NodeIds, StatusNext(n) PROVE CallStep
  BY <1>3 DEF StatusNext, StatusStep, GrpcReportInstanceStatus, CallStep, CallsOnly, Loops
<1>4. ASSUME NEW n \in NodeIds, PollNext(n) PROVE CallStep
  BY <1>4 DEF PollNext, GrpcGetPlan, CallStep, CallsOnly
<1>5. CASE SchedulerNext
  BY <1>5 DEF SchedulerNext, PlaceStep
<1>6. ASSUME NEW e \in Enrollers, NEW k \in Keys, GrpcEnroll(e, k) PROVE EnrollStep
  BY <1>6 DEF GrpcEnroll, EnrollStep
<1>7. QED
  BY <1>1, <1>2, <1>3, <1>4, <1>5, <1>6 DEF NodeNext, EnrollStep, OrphanStep

----------------------------------------------------------------------------
(* Types are kept.                                                           *)

LEMMA DrawnFacts ==
    ASSUME IdInv, NEW pool
    PROVE  IsFiniteSet(Drawn(pool)) /\ Cardinality(Drawn(pool)) \in Nat
<1>1. Drawn(pool) \in SUBSET ipam
  BY DEF Drawn
<1>2. QED
  BY <1>1, FS_Subset, FS_CardinalityType DEF IdInv

LEMMA TypeEnroll ==
    ASSUME NodeInv, EnrollStep
    PROVE  TypeInv'
<1> USE DEF NodeInv
<1>1. ASSUME NEW e \in Enrollers, NEW k \in Keys, CheckEnrollment(e, k) PROVE TypeInv'
  BY <1>1 DEF TypeInv, CheckEnrollment, Enroll
<1>2. ASSUME NEW e \in Enrollers, AllocateNodeIpv6(e) PROVE TypeInv'
  <2>1. PICK n \in Nat : n = Cardinality(Drawn("node")) + 1
    BY DrawnFacts
  <2>2. ipam' = ipam \cup {[pool |-> "node", owner |-> n, suffix |-> n]}
        /\ enrolls' = [enrolls EXCEPT ![e] = [@ EXCEPT !.phase = "addressed", !.node = n,
                                                       !.addr = n]]
    BY <1>2, <2>1 DEF AllocateNodeIpv6, IpamRow, NextSuffix
  <2>3. ipam' \subseteq [pool : {"node", "instance"}, owner : Nat, suffix : Nat]
    BY <2>2 DEF TypeInv
  <2>4. enrolls' \in [Enrollers -> Enroll]
    BY <2>2 DEF TypeInv, Enroll
  <2>5. QED
    BY <1>2, <2>3, <2>4 DEF TypeInv, AllocateNodeIpv6
<1>3. ASSUME NEW e \in Enrollers, AppendEnrolled(e) PROVE TypeInv'
  <2>1. PICK v \in Ev : nlog' = Append(nlog, v)
    BY <1>3 DEF AppendEnrolled, NodeEvent, TypeInv, Enroll, Ev
  <2>2. nlog' \in Seq(Ev) /\ Len(nlog') = Len(nlog) + 1
    BY <2>1 DEF TypeInv
  <2>3. enrolls' \in [Enrollers -> Enroll]
    BY <1>3 DEF AppendEnrolled, TypeInv, Enroll, NoEnroll
  <2>4. QED
    BY <1>3, <2>2, <2>3 DEF AppendEnrolled, TypeInv
<1>4. ASSUME NEW e \in Enrollers, EnrollFails(e) PROVE TypeInv'
  BY <1>4 DEF EnrollFails, TypeInv, Enroll, NoEnroll
<1>5. QED
  BY <1>1, <1>2, <1>3, <1>4 DEF EnrollStep

\* A request that is replaced by one of its type.
LEMMA TypeOfCalls ==
    ASSUME TypeInv, NEW n \in NodeIds, NEW t \in Loops, NEW c \in Call, SetCall(n, t, c)
    PROVE  calls' \in [NodeIds -> [Loops -> Call]]
  BY DEF TypeInv, SetCall

LEMMA NoCallType == NoCall \in Call
<1>1. <<>> \in Seq(Ev)
  OBVIOUS
<1>2. QED
  BY <1>1 DEF NoCall, Call

LEMMA TypeCallsOnly ==
    ASSUME NodeInv, NEW n \in NodeIds, CallsOnly(n)
    PROVE  TypeInv'
<1> USE DEF NodeInv
<1>1. SUFFICES calls' \in [NodeIds -> [Loops -> Call]]
               /\ UNCHANGED <<scene, nlog, ndone, nodes, instances, ipam, enrolls, placing,
                              orphans, agents, timeouts, keyraced>>
  BY DEF TypeInv
<1>2. ASSUME NEW s \in NodeStates, NEW a \in 0 .. Capacity, Heartbeat(n, s, a)
      PROVE  calls' \in [NodeIds -> [Loops -> Call]]
  <2>1. PICK r \in RowOfNode(n) :
          SetCall(n, "beat", [NoCall EXCEPT !.phase = "loaded", !.kind = "heartbeat",
                                            !.name = s, !.val = a, !.changed = r.state # s])
    BY <1>2 DEF Heartbeat
  <2>2. [NoCall EXCEPT !.phase = "loaded", !.kind = "heartbeat",
                       !.name = s, !.val = a, !.changed = r.state # s] \in Call
    <3>1. PICK z \in BOOLEAN : z = (r.state # s)
      OBVIOUS
    <3>2. a \in Nat
      BY NodeControlAssumption
    <3>3. [NoCall EXCEPT !.phase = "loaded", !.kind = "heartbeat", !.name = s, !.val = a,
                         !.changed = z] \in Call
      BY <3>2, NoCallType DEF Call
    <3>4. QED
      BY <3>1, <3>3
  <2>3. QED
    BY <2>1, <2>2, TypeOfCalls DEF Loops
<1>3. ASSUME NumberHeartbeat(n) PROVE calls' \in [NodeIds -> [Loops -> Call]]
  <2> DEFINE c == calls[n]["beat"]
             seq == LatestNodeSeq("node", n) + 1
             capacity == NodeEvent("node", n, seq, "capacity", n, 0, None, c.val)
             state == NodeEvent("node", n, seq + 1, "state", n, 0, c.name, 0)
             b == IF c.changed THEN <<capacity, state>> ELSE <<capacity>>
  <2>1. c \in Call /\ seq \in Nat /\ n \in Nat
    BY LogBasics DEF TypeInv, Loops, NodeIds
  <2>a. c.val \in Nat /\ c.name \in Keys \cup NodeStates \cup {None}
    BY <2>1 DEF Call
  <2> HIDE DEF c, seq
  <2>2. capacity \in Ev /\ state \in Ev
    BY <2>1, <2>a DEF NodeEvent, Ev
  <2> HIDE DEF capacity, state
  <2>3. b \in Seq(Ev)
    BY <2>2
  <2>4. SetCall(n, "beat", [c EXCEPT !.phase = "numbered", !.batch = b])
    BY <1>3 DEF NumberHeartbeat, capacity, state, c, seq
  <2> HIDE DEF b
  <2>5. [c EXCEPT !.phase = "numbered", !.batch = b] \in Call
    BY <2>1, <2>3 DEF Call
  <2>6. "beat" \in Loops
    BY DEF Loops
  <2>7. PICK d \in Call : SetCall(n, "beat", d)
    BY <2>4, <2>5
  <2>8. QED
    BY <2>6, <2>7, TypeOfCalls
<1>4. ASSUME NEW t \in Loops, CallConflicts(n, t)
      PROVE  calls' \in [NodeIds -> [Loops -> Call]]
  BY <1>4, NoCallType, TypeOfCalls DEF CallConflicts
<1>5. ASSUME NEW i \in InstanceIds, ReportInstanceStatus(n, i) \/ ReportStatus(n, i)
      PROVE  calls' \in [NodeIds -> [Loops -> Call]]
  <2>1. agents[n].stat[i] \in Nat /\ i \in Nat
    <3>1. agents[n].stat[i] \in 0 .. 3
      BY DEF TypeInv, Agent
    <3>2. QED
      BY <3>1 DEF InstanceIds
  <2>2. [NoCall EXCEPT !.phase = "loaded", !.kind = "status", !.inst = i,
                       !.val = agents[n].stat[i]] \in Call
    BY <2>1, NoCallType DEF Call
  <2>3. QED
    BY <1>5, <2>2, TypeOfCalls DEF ReportInstanceStatus, ReportStatus, Loops
<1>6. ASSUME NumberStatus(n) PROVE calls' \in [NodeIds -> [Loops -> Call]]
  <2> DEFINE c == calls[n]["sync"]
             v == NodeEvent("instance", c.inst, LatestNodeSeq("instance", c.inst) + 1, "status",
                            n, 0, None, c.val)
  <2>1. c \in Call /\ n \in Nat /\ LatestNodeSeq("instance", c.inst) \in Nat
    BY LogBasics DEF TypeInv, Loops, NodeIds
  <2>a. c.val \in Nat /\ c.inst \in Nat
    BY <2>1 DEF Call
  <2>b. LatestNodeSeq("instance", c.inst) + 1 \in Nat
    BY <2>1
  <2>2. v \in Ev
    BY <2>1, <2>a, <2>b DEF NodeEvent, Ev
  <2>3. SetCall(n, "sync", [c EXCEPT !.phase = "numbered", !.batch = <<v>>])
    BY <1>6 DEF NumberStatus
  <2> HIDE DEF c, v
  <2>4. <<v>> \in Seq(Ev)
    BY <2>2
  <2>5. [c EXCEPT !.phase = "numbered", !.batch = <<v>>] \in Call
    BY <2>1, <2>4 DEF Call
  <2>6. "sync" \in Loops
    BY DEF Loops
  <2>7. PICK d \in Call : SetCall(n, "sync", d)
    BY <2>3, <2>5
  <2>8. QED
    BY <2>6, <2>7, TypeOfCalls
<1>7. ASSUME GetPlan(n) PROVE calls' \in [NodeIds -> [Loops -> Call]]
  <2>1. PlanRows(n) \in SUBSET (InstanceIds \X {"running", "draining"})
    BY DEF PlanRows, TypeInv, InstanceRow
  <2>2. [NoCall EXCEPT !.phase = "loaded", !.kind = "plan", !.rows = PlanRows(n)] \in Call
    BY <2>1, NoCallType DEF Call
  <2>3. QED
    BY <1>7, <2>2, TypeOfCalls DEF GetPlan, Loops
<1>8. ASSUME ReadPlanCursor(n) PROVE calls' \in [NodeIds -> [Loops -> Call]]
  <2>1. PICK z \in Nat : z = Len(nlog)
    BY DEF TypeInv
  <2> DEFINE c == [calls[n]["sync"] EXCEPT !.phase = "numbered", !.cursor = z]
  <2>2. "sync" \in Loops
    BY DEF Loops
  <2>3. calls' = [calls EXCEPT ![n]["sync"] = c]
    BY <1>8, <2>1, <2>2 DEF ReadPlanCursor, TypeInv
  <2>4. calls[n]["sync"] \in Call
    BY <2>2 DEF TypeInv
  <2>5. c \in Call
    BY <2>4 DEF Call
  <2> HIDE DEF c
  <2>6. SetCall(n, "sync", c)
    BY <2>3 DEF SetCall
  <2>7. QED
    BY <2>2, <2>5, <2>6, TypeOfCalls
<1>9. QED
  BY <1>2, <1>3, <1>4, <1>5, <1>6, <1>7, <1>8 DEF CallsOnly, Heartbeat, NumberHeartbeat,
     CallConflicts, ReportInstanceStatus, ReportStatus, NumberStatus, GetPlan, ReadPlanCursor

\* An agent that is replaced by one of its type.
LEMMA TypeOfAgents ==
    ASSUME TypeInv, NEW n \in NodeIds, NEW g \in Agent, agents' = [agents EXCEPT ![n] = g]
    PROVE  agents' \in [NodeIds -> Agent]
  BY DEF TypeInv

LEMMA TypeCall ==
    ASSUME NodeInv, CallStep
    PROVE  TypeInv'
<1> USE DEF NodeInv
<1>1. ASSUME NEW n \in NodeIds, NEW t \in Loops, AppendCall(n, t) PROVE TypeInv'
  <2> DEFINE c == calls[n][t]
  <2>1. c \in Call /\ nlog' = nlog \o c.batch /\ nlog \in Seq(Ev)
    BY <1>1 DEF TypeInv, AppendCall
  <2>2. c.batch \in Seq(Ev)
    BY <2>1 DEF Call
  <2>3. nlog' \in Seq(Ev) /\ Len(nlog') = Len(nlog) + Len(c.batch) /\ Len(c.batch) \in Nat
        /\ Len(nlog) \in Nat
    BY <2>1, <2>2, ConcatFacts
  <2>4. ndone \in 0 .. Len(nlog')
    BY <2>3 DEF TypeInv
  <2>5. agents' \in [NodeIds -> Agent]
    <3>1. CASE c.kind # "status"
      BY <1>1, <3>1 DEF AppendCall, Told, TypeInv
    <3>2. CASE c.kind = "status"
      <4>1. c.inst \in InstanceIds
        BY <3>2 DEF AgentInv, CallOK
      <4>2. agents[n] \in Agent
        BY DEF TypeInv
      <4>3. agents[n].stat[c.inst] \in 0 .. 3
        BY <4>1, <4>2 DEF Agent
      <4> DEFINE g == [agents[n] EXCEPT !.told = [agents[n].told EXCEPT
                                                    ![c.inst] = agents[n].stat[c.inst]]]
      <4>4. agents' = [agents EXCEPT ![n] = g]
        BY <1>1, <3>2 DEF AppendCall, Told, TypeInv
      <4>5. [agents[n].told EXCEPT ![c.inst] = agents[n].stat[c.inst]] \in [InstanceIds -> 0 .. 3]
        BY <4>2, <4>3 DEF Agent
      <4>6. g \in Agent
        BY <4>2, <4>5 DEF Agent
      <4> HIDE DEF g
      <4>7. QED
        BY <4>4, <4>6, TypeOfAgents
    <3>3. QED
      BY <3>1, <3>2
  <2>6. calls' \in [NodeIds -> [Loops -> Call]]
    BY <1>1, NoCallType, TypeOfCalls DEF AppendCall
  <2>7. QED
    BY <1>1, <2>3, <2>4, <2>5, <2>6 DEF TypeInv, AppendCall
<1>2. ASSUME NEW n \in NodeIds, NEW t \in Loops, CallTimesOut(n, t) PROVE TypeInv'
  <2>1. calls[n][t].batch \in Seq(Ev)
    BY ZenonT(60) DEF TypeInv, Call
  <2>2. calls' \in [NodeIds -> [Loops -> Call]]
    BY <1>2, NoCallType, TypeOfCalls DEF CallTimesOut
  <2>3. orphans' \subseteq Seq(Ev)
    BY <1>2, <2>1 DEF TypeInv, CallTimesOut
  <2>4. QED
    BY <1>2, <2>2, <2>3 DEF TypeInv, CallTimesOut
<1>3. ASSUME NEW n \in NodeIds, NEW i \in InstanceIds, GuestReady(n, i) PROVE TypeInv'
  <2> DEFINE stat == [agents[n].stat EXCEPT ![i] = 2]
             g == [agents[n] EXCEPT !.stat = stat]
  <2>a. agents[n] \in Agent
    BY DEF TypeInv
  <2>b. stat \in [InstanceIds -> 0 .. 3]
    BY <2>a DEF Agent
  <2>c. agents' = [agents EXCEPT ![n] = g]
    BY <1>3 DEF GuestReady, TypeInv
  <2> HIDE DEF stat
  <2>d. g \in Agent
    BY <2>a, <2>b DEF Agent
  <2> HIDE DEF g
  <2>1. agents' \in [NodeIds -> Agent]
    BY <2>c, <2>d, TypeOfAgents
  <2>2. QED
    BY <1>3, <2>1 DEF TypeInv, GuestReady
<1>4. ASSUME NEW n \in NodeIds, ApplyPlan(n) PROVE TypeInv'
  <2> DEFINE c == calls[n]["sync"]
             running == {i \in InstanceIds : <<i, "running">> \in c.rows}
             stat == [i \in InstanceIds |->
                        IF i \in running /\ agents[n].stat[i] = 0 THEN 1
                        ELSE IF i \in agents[n].held \ running THEN 3 ELSE agents[n].stat[i]]
  <2>1. "sync" \in Loops
    BY DEF Loops
  <2>2. c.cursor \in Nat
    BY <2>1 DEF TypeInv, Call
  <2>3. agents[n].stat \in [InstanceIds -> 0 .. 3]
    BY DEF TypeInv, Agent
  <2>4. stat \in [InstanceIds -> 0 .. 3]
    BY <2>3
  <2>5. running \in SUBSET InstanceIds
    OBVIOUS
  <2>6. agents' = agents
        \/ agents' = [agents EXCEPT ![n].cursor = c.cursor, ![n].held = running, ![n].stat = stat]
    BY <1>4 DEF ApplyPlan, TypeInv, Agent
  <2> HIDE DEF stat, running, c
  <2> DEFINE g == [agents[n] EXCEPT !.cursor = c.cursor, !.held = running, !.stat = stat]
  <2>a. agents' = agents \/ agents' = [agents EXCEPT ![n] = g]
    BY <2>6 DEF TypeInv
  <2>b. agents[n] \in Agent
    BY DEF TypeInv
  <2>c. g \in Agent
    BY <2>2, <2>4, <2>5, <2>b DEF Agent
  <2> HIDE DEF g
  <2>7. agents' \in [NodeIds -> Agent]
    BY <2>a, <2>c, TypeOfAgents DEF TypeInv
  <2>8. calls' \in [NodeIds -> [Loops -> Call]]
    BY <1>4, <2>1, NoCallType, TypeOfCalls DEF ApplyPlan
  <2>9. QED
    BY <1>4, <2>7, <2>8 DEF TypeInv, ApplyPlan
<1>5. QED
  BY <1>1, <1>2, <1>3, <1>4, TypeCallsOnly DEF CallStep

LEMMA NoPlacingType == NoPlacing \in Placing
<1>1. <<>> \in Seq(Ev)
  OBVIOUS
<1>2. QED
  BY <1>1 DEF NoPlacing, Placing

LEMMA TypePlace ==
    ASSUME NodeInv, PlaceStep
    PROVE  TypeInv'
<1> USE DEF NodeInv
<1>1. CASE FindBestNode
  <2>1. BestNode \in nodes /\ BestNode \in NodeRow
    BY <1>1, BestNodeFacts DEF FindBestNode, Eligible, TypeInv
  <2>2. BestNode.id \in NodeIds /\ BestNode.id \in Nat
    BY <2>1 DEF NodeRow, NodeIds
  <2>3. placing' \in Placing
    BY <1>1, <2>2, NoPlacingType DEF FindBestNode, Placing
  <2>4. QED
    BY <1>1, <2>3 DEF FindBestNode, TypeInv
<1>2. CASE AllocateInstanceIpv6
  <2>1. PICK i \in Nat : i = Cardinality(Drawn("instance")) + 1
    BY DrawnFacts
  <2>2. ipam' = ipam \cup {[pool |-> "instance", owner |-> i, suffix |-> i]}
        /\ placing' = [placing EXCEPT !.phase = "addressed", !.inst = i, !.addr = i]
    BY <1>2, <2>1 DEF AllocateInstanceIpv6, IpamRow, NextSuffix
  <2>3. ipam' \subseteq [pool : {"node", "instance"}, owner : Nat, suffix : Nat]
    BY <2>2 DEF TypeInv
  <2>4. placing' \in Placing
    BY <2>2 DEF TypeInv, Placing
  <2>5. QED
    BY <1>2, <2>3, <2>4 DEF TypeInv, AllocateInstanceIpv6
<1>3. CASE AppendAllocated
  <2>1. PICK v \in Ev : nlog' = Append(nlog, v)
    BY <1>3 DEF AppendAllocated, NodeEvent, TypeInv, Placing, Ev
  <2>2. nlog' \in Seq(Ev) /\ Len(nlog') = Len(nlog) + 1
    BY <2>1 DEF TypeInv
  <2>3. QED
    BY <1>3, <2>2, NoPlacingType DEF AppendAllocated, TypeInv
<1>4. CASE AllocateFails
  BY <1>4, NoPlacingType DEF AllocateFails, TypeInv
<1>5. CASE AppendDrain
  <2>1. placing.batch \in Seq(Ev) /\ nlog \in Seq(Ev)
    BY DEF TypeInv, Placing
  <2>2. nlog' = nlog \/ nlog' = nlog \o placing.batch
    BY <1>5 DEF AppendDrain
  <2>a. Len(nlog) \in Nat /\ Len(placing.batch) \in Nat
    BY <2>1
  <2>3. nlog' \in Seq(Ev) /\ Len(nlog) <= Len(nlog') /\ Len(nlog) \in Nat
        /\ Len(nlog') \in Nat
    <3>1. CASE nlog' = nlog
      BY <2>1, <2>a, <3>1
    <3>2. CASE nlog' = nlog \o placing.batch
      <4>1. nlog' \in Seq(Ev) /\ Len(nlog') = Len(nlog) + Len(placing.batch)
        BY <2>1, <3>2, ConcatFacts
      <4>2. QED
        BY <2>a, <4>1
    <3>3. QED
      BY <2>2, <3>1, <3>2
  <2>4. ndone \in 0 .. Len(nlog')
    BY <2>3 DEF TypeInv
  <2>5. QED
    BY <1>5, <2>3, <2>4, NoPlacingType DEF AppendDrain, TypeInv
<1>6. ASSUME NEW i \in InstanceIds, NumberDrain(i) PROVE TypeInv'
  <2> DEFINE v == NodeEvent("instance", i, LatestNodeSeq("instance", i) + 1, "draining",
                            0, 0, None, 0)
  <2>1. i \in Nat /\ LatestNodeSeq("instance", i) + 1 \in Nat
    BY LogBasics DEF InstanceIds
  <2>2. v \in Ev
    BY <2>1 DEF NodeEvent, Ev
  <2>3. placing' = [NoPlacing EXCEPT !.phase = "draining", !.inst = i, !.batch = <<v>>]
    BY <1>6 DEF NumberDrain
  <2> HIDE DEF v
  <2>4. <<v>> \in Seq(Ev)
    BY <2>2
  <2>5. placing' \in Placing
    BY <2>1, <2>3, <2>4, NoPlacingType DEF Placing
  <2>6. QED
    BY <1>6, <2>5 DEF NumberDrain, TypeInv
<1>7. QED
  BY <1>1, <1>2, <1>3, <1>4, <1>5, <1>6 DEF PlaceStep

LEMMA TypeRest ==
    ASSUME NodeInv, OrphanStep \/ ProjectNode \/ UNCHANGED nvars
    PROVE  TypeInv'
<1> USE DEF NodeInv
<1>1. ASSUME NEW b \in orphans, OrphanLands(b) PROVE TypeInv'
  <2>1. b \in Seq(Ev) /\ nlog \in Seq(Ev)
    BY DEF TypeInv
  <2>2. nlog' = nlog \/ nlog' = nlog \o b
    BY <1>1 DEF OrphanLands
  <2>a. Len(nlog) \in Nat /\ Len(b) \in Nat
    BY <2>1
  <2>3. nlog' \in Seq(Ev) /\ Len(nlog) <= Len(nlog') /\ Len(nlog) \in Nat
        /\ Len(nlog') \in Nat
    <3>1. CASE nlog' = nlog
      BY <2>1, <2>a, <3>1
    <3>2. CASE nlog' = nlog \o b
      <4>1. nlog' \in Seq(Ev) /\ Len(nlog') = Len(nlog) + Len(b)
        BY <2>1, <3>2, ConcatFacts
      <4>2. QED
        BY <2>a, <4>1
    <3>3. QED
      BY <2>2, <3>1, <3>2
  <2>4. ndone \in 0 .. Len(nlog')
    BY <2>3 DEF TypeInv
  <2>5. QED
    BY <1>1, <2>3, <2>4 DEF OrphanLands, TypeInv
<1>2. ASSUME NEW b \in orphans, OrphanVanishes(b) PROVE TypeInv'
  BY <1>2 DEF OrphanVanishes, TypeInv
<1>3. CASE ProjectNode
  <2>1. ndone + 1 \in 1 .. Len(nlog)
    BY <1>3 DEF ProjectNode, TypeInv
  <2>2. PICK e \in Ev : e = nlog[ndone + 1] /\ EventOK(e)
    BY <2>1, LogBasics DEF LogInv
  <2>3. nodes' \subseteq NodeRow
    <3>1. nodes' = IF e.agg = "node" THEN NodesAfter(e) ELSE nodes
      BY <1>3, <2>2 DEF ProjectNode
    <3>2. CASE e.kind = "enrolled"
      <4>1. EnrolledRow(e.id, e.name, e.addr) \in NodeRow
        BY <2>2, <3>2, NodeControlAssumption DEF EnrolledRow, NodeRow, NodeStates, EventOK, Ev
      <4>2. QED
        BY <3>1, <3>2, <4>1 DEF NodesAfter, TypeInv
    <3>3. CASE e.agg = "node" /\ e.kind = "capacity"
      <4>1. e.val \in 0 .. Capacity
        BY <2>2, <3>3 DEF EventOK
      <4>2. QED
        BY <3>1, <3>3, <4>1, ZenonT(60) DEF NodesAfter, TypeInv, NodeRow
    <3>4. CASE e.agg = "node" /\ e.kind = "state"
      <4>1. e.name \in NodeStates
        BY <2>2, <3>4 DEF EventOK
      <4>2. nodes' = {IF r.id # e.id THEN r ELSE [r EXCEPT !.state = e.name] : r \in nodes}
        BY <3>1, <3>4 DEF NodesAfter
      <4>3. QED
        BY <4>1, <4>2 DEF TypeInv, NodeRow
    <3>5. QED
      BY <2>2, <3>1, <3>2, <3>3, <3>4 DEF EventOK, TypeInv
  <2>4. instances' \subseteq InstanceRow
    <3>1. instances' = IF e.agg = "instance" THEN InstancesAfter(e) ELSE instances
      BY <1>3, <2>2 DEF ProjectNode
    <3>2. CASE e.kind = "allocated"
      <4>1. AllocatedRow(e) \in InstanceRow
        BY <2>2, <3>2 DEF AllocatedRow, InstanceRow, EventOK, Ev
      <4>2. QED
        BY <3>1, <3>2, <4>1 DEF InstancesAfter, TypeInv
    <3>3. CASE e.agg = "instance" /\ e.kind = "draining"
      BY <3>1, <3>3, ZenonT(60) DEF InstancesAfter, TypeInv, InstanceRow
    <3>4. CASE e.agg = "instance" /\ e.kind = "status"
      <4>1. e.val \in 0 .. 3
        BY <2>2, <3>4 DEF EventOK
      <4>2. QED
        BY <3>1, <3>4, <4>1, SMTT(30) DEF InstancesAfter, TypeInv, InstanceRow
    <3>5. e.agg = "instance" => e.kind \in {"allocated", "draining", "status"}
      BY <2>2 DEF EventOK, Ev
    <3>6. QED
      BY <3>1, <3>2, <3>3, <3>4, <3>5 DEF TypeInv
  <2>5. QED
    BY <1>3, <2>1, <2>3, <2>4 DEF ProjectNode, TypeInv
<1>4. CASE UNCHANGED nvars
  BY <1>4 DEF nvars, TypeInv
<1>5. QED
  BY <1>1, <1>2, <1>3, <1>4 DEF OrphanStep

LEMMA TypeStep ==
    ASSUME NodeInv, [NodeNext]_nvars
    PROVE  TypeInv'
<1>1. TypeInv
  BY DEF NodeInv
<1>2. QED
  BY <1>1, StepCases, TypeEnroll, TypeCall, TypePlace, TypeRest

----------------------------------------------------------------------------
(* The log is kept in order.                                                 *)

\* A step that appends a pending batch; the views and the other tables stay.
BatchLands(b) ==
    /\ Pending(b)
    /\ ~NumberTaken(b)
    /\ nlog' = nlog \o b
    /\ UNCHANGED <<ndone, nodes, instances, ipam, enrolls, keyraced>>
    /\ placing' = placing \/ placing' = NoPlacing

\* How each step changes the log.
LEMMA LogCases ==
    ASSUME NodeInv, [NodeNext]_nvars
    PROVE  \/ nlog' = nlog
           \/ \E b : BatchLands(b)
           \/ \E e \in Enrollers : AppendEnrolled(e)
           \/ AppendAllocated
<1>1. CASE EnrollStep
  BY <1>1 DEF EnrollStep, CheckEnrollment, AllocateNodeIpv6, EnrollFails
<1>2. CASE CallStep
  <2>1. ASSUME NEW n \in NodeIds, NEW t \in Loops, AppendCall(n, t)
        PROVE  BatchLands(calls[n][t].batch)
    BY <2>1 DEF AppendCall, BatchLands, Pending
  <2>2. ASSUME NEW n \in NodeIds, CallsOnly(n) PROVE nlog' = nlog
    BY <2>2 DEF CallsOnly, Heartbeat, NumberHeartbeat, CallConflicts, ReportInstanceStatus,
       ReportStatus, NumberStatus, GetPlan, ReadPlanCursor
  <2>3. QED
    BY <1>2, <2>1, <2>2 DEF CallStep, CallTimesOut, GuestReady, ApplyPlan
<1>3. CASE PlaceStep
  <2>1. CASE AppendDrain
    BY <2>1 DEF AppendDrain, BatchLands, Pending
  <2>2. QED
    BY <1>3, <2>1 DEF PlaceStep, FindBestNode, AllocateInstanceIpv6, AllocateFails, NumberDrain
<1>4. CASE OrphanStep
  BY <1>4 DEF OrphanStep, OrphanLands, OrphanVanishes, BatchLands, Pending
<1>5. CASE ProjectNode \/ UNCHANGED nvars
  BY <1>5 DEF ProjectNode, nvars
<1>6. QED
  BY <1>1, <1>2, <1>3, <1>4, <1>5, StepCases DEF NodeInv

LEMMA BatchGrows ==
    ASSUME NodeInv, NEW b, BatchLands(b)
    PROVE  Grows(b) /\ \A k \in 1 .. Len(b) : b[k].kind \notin Creations
<1>1. BatchOK(b) /\ ReportOK(b)
  BY DEF NodeInv, PendInv, BatchLands
<1>2. Extension(b)
  BY <1>1, FreeIsNext DEF NodeInv, BatchLands
<1>3. QED
  BY <1>1, <1>2 DEF Grows, BatchLands, BatchOK

EnrolledEvent(e) ==
    NodeEvent("node", enrolls[e].node, 1, "enrolled", enrolls[e].node, enrolls[e].addr,
              enrolls[e].key, 0)

LEMMA EnrolledGrows ==
    ASSUME NodeInv, NEW e \in Enrollers, AppendEnrolled(e)
    PROVE  Grows(<<EnrolledEvent(e)>>)
<1> DEFINE v == EnrolledEvent(e)
<1>1. /\ enrolls[e] \in Enroll /\ enrolls[e].phase = "addressed"
      /\ ~Created("node", enrolls[e].node) /\ enrolls[e].addr = enrolls[e].node
      /\ enrolls[e].node \in NodeIds /\ enrolls[e].key \in Keys
  BY DEF NodeInv, TypeInv, IdInv, KeyInv, AppendEnrolled
<1>2. v \in Ev
  BY <1>1 DEF EnrolledEvent, NodeEvent, Ev, Enroll
<1>3. EventOK(v) /\ v.kind \in Creations /\ ~Created(v.agg, v.id)
  BY <1>1 DEF EnrolledEvent, NodeEvent, EventOK, Creations
<1>4. nlog' = Append(nlog, v) /\ nlog \in Seq(Ev)
  BY DEF AppendEnrolled, EnrolledEvent, NodeInv, TypeInv
<1> HIDE DEF v
<1>5. Extension(<<v>>)
  BY <1>2, <1>3, CreationIsNext DEF NodeInv
<1>6. nlog' = nlog \o <<v>>
  BY <1>2, <1>4, AppendIsConcat
<1>7. QED
  BY <1>5, <1>6 DEF Grows, v

AllocatedEvent ==
    NodeEvent("instance", placing.inst, 1, "allocated", placing.node, placing.addr, None, 0)

LEMMA AllocatedGrows ==
    ASSUME NodeInv, AppendAllocated
    PROVE  Grows(<<AllocatedEvent>>)
<1> DEFINE v == AllocatedEvent
<1>1. /\ placing \in Placing
      /\ ~Created("instance", placing.inst) /\ placing.addr = placing.inst
      /\ placing.inst \in InstanceIds /\ placing.node \in NodeIds
  BY DEF NodeInv, TypeInv, IdInv, AppendAllocated
<1>2. v \in Ev
  BY <1>1 DEF AllocatedEvent, NodeEvent, Ev, Placing
<1>3. EventOK(v) /\ v.kind \in Creations /\ ~Created(v.agg, v.id)
  BY <1>1 DEF AllocatedEvent, NodeEvent, EventOK, Creations
<1>4. nlog' = Append(nlog, v) /\ nlog \in Seq(Ev)
  BY DEF AppendAllocated, AllocatedEvent, NodeInv, TypeInv
<1> HIDE DEF v
<1>5. Extension(<<v>>)
  BY <1>2, <1>3, CreationIsNext DEF NodeInv
<1>6. nlog' = nlog \o <<v>>
  BY <1>2, <1>4, AppendIsConcat
<1>7. QED
  BY <1>5, <1>6 DEF Grows, v

\* Either the log stays, or it grows by what may follow it.
LEMMA StaysOrGrows ==
    ASSUME NodeInv, [NodeNext]_nvars
    PROVE  nlog' = nlog \/ \E u : Grows(u)
  BY LogCases, BatchGrows, EnrolledGrows, AllocatedGrows

LEMMA LogStep ==
    ASSUME NodeInv, [NodeNext]_nvars
    PROVE  LogInv'
  BY StaysOrGrows, LogStays, LogGrows DEF NodeInv

\* What a step keeps of the log, and the numbers that new events have.
LEMMA StepKeeps ==
    ASSUME NodeInv, [NodeNext]_nvars
    PROVE  /\ \A a, x : Created(a, x) => Created(a, x)'
           /\ \A x, n : AllocatedOn(x, n) => AllocatedOn(x, n)'
           /\ \A a, x : LatestNodeSeq(a, x) <= LatestNodeSeq(a, x)'
           /\ \A i \in 1 .. Len(nlog) : i \in 1 .. Len(nlog') /\ nlog'[i] = nlog[i]
           /\ \A j \in 1 .. Len(nlog') : j \in 1 .. Len(nlog)
                \/ nlog'[j].seq > LatestNodeSeq(nlog'[j].agg, nlog'[j].id)
<1>1. TypeInv /\ \A a, x : LatestNodeSeq(a, x) \in Nat
  BY LogBasics DEF NodeInv
<1>2. CASE nlog' = nlog
  <2>1. /\ \A a, x : Created(a, x) => Created(a, x)'
        /\ \A x, n : AllocatedOn(x, n) => AllocatedOn(x, n)'
        /\ \A a, x : LatestNodeSeq(a, x)' = LatestNodeSeq(a, x)
    BY <1>2, SameLog
  <2>2. QED
    BY <1>1, <1>2, <2>1
<1>3. ASSUME NEW u, Grows(u)
      PROVE  /\ \A a, x : Created(a, x) => Created(a, x)'
             /\ \A x, n : AllocatedOn(x, n) => AllocatedOn(x, n)'
             /\ \A a, x : LatestNodeSeq(a, x) <= LatestNodeSeq(a, x)'
             /\ \A i \in 1 .. Len(nlog) : i \in 1 .. Len(nlog') /\ nlog'[i] = nlog[i]
             /\ \A j \in 1 .. Len(nlog') : j \in 1 .. Len(nlog)
                  \/ nlog'[j].seq > LatestNodeSeq(nlog'[j].agg, nlog'[j].id)
  <2>1. /\ \A a, x : Created(a, x) => Created(a, x)'
        /\ \A x, n : AllocatedOn(x, n) => AllocatedOn(x, n)'
    BY <1>1, <1>3, GrowthKeeps
  <2>2. \A a, x : LatestNodeSeq(a, x) <= LatestNodeSeq(a, x)'
    BY <1>1, <1>3, GrowthCounts
  <2>3. ASSUME NEW j \in 1 .. Len(nlog'), j \notin 1 .. Len(nlog)
        PROVE  nlog'[j].seq > LatestNodeSeq(nlog'[j].agg, nlog'[j].id)
    <3>1. PICK k \in 1 .. Len(u) : j = Len(nlog) + k
      BY <1>1, <1>3, <2>3, Growth
    <3>2. nlog'[j] = u[k]
      BY <1>1, <1>3, <3>1, Growth
    <3>3. u[k].agg = u[1].agg /\ u[k].id = u[1].id
          /\ u[k].seq = LatestNodeSeq(u[1].agg, u[1].id) + k
      BY <1>3 DEF Grows, Extension
    <3>4. QED
      BY <1>1, <3>2, <3>3
  <2>4. QED
    BY <1>1, <1>3, <2>1, <2>2, <2>3, Growth
<1>4. QED
  BY <1>2, <1>3, StaysOrGrows

\* A step that leaves what an agent knows of instances alone.
StatKept(n) == agents'[n].stat = agents[n].stat

\* An answer changes what was told, not what is known or held (mark_status_reported).
LEMMA ToldKeeps ==
    ASSUME TypeInv, NEW m \in NodeIds, NEW t \in Loops, AppendCall(m, t) \/ CallTimesOut(m, t),
           NEW n \in NodeIds
    PROVE  StatKept(n) /\ agents'[n].held = agents[n].held
<1>1. CASE agents' = agents
  BY <1>1 DEF StatKept
<1>2. ASSUME NEW z, NEW v, agents' = [agents EXCEPT ![m].told[z] = v]
      PROVE  StatKept(n) /\ agents'[n].held = agents[n].held
  <2> DEFINE g == [agents[m] EXCEPT !.told = [@ EXCEPT ![z] = v]]
  <2>1. agents' = [agents EXCEPT ![m] = g]
    BY <1>2
  <2>2. agents \in [NodeIds -> Agent]
    BY DEF TypeInv
  <2>3. agents[m] \in Agent
    BY <2>2
  <2>4. g.stat = agents[m].stat /\ g.held = agents[m].held
    BY <2>3 DEF Agent
  <2> HIDE DEF g
  <2>5. QED
    BY <2>1, <2>2, <2>4 DEF StatKept
<1>3. agents' = agents \/ \E z, v : agents' = [agents EXCEPT ![m].told[z] = v]
  BY DEF AppendCall, CallTimesOut, Told
<1>4. QED
  BY <1>1, <1>2, <1>3

\* A node never forgets how far an instance has come.
LEMMA StatusGrows ==
    ASSUME NodeInv, [NodeNext]_nvars, NEW n \in NodeIds, NEW x \in InstanceIds
    PROVE  agents[n].stat[x] <= agents'[n].stat[x]
<1>1. TypeInv /\ agents[n].stat[x] \in 0 .. 3
  BY DEF NodeInv, TypeInv, Agent
<1>2. CASE EnrollStep \/ PlaceStep \/ OrphanStep \/ ProjectNode \/ UNCHANGED nvars
  <2>1. agents' = agents
    BY <1>2 DEF EnrollStep, CheckEnrollment, AllocateNodeIpv6, AppendEnrolled, EnrollFails,
       PlaceStep, FindBestNode, AllocateInstanceIpv6, AppendAllocated, AllocateFails, AppendDrain,
       NumberDrain, OrphanStep, OrphanLands, OrphanVanishes, ProjectNode, nvars
  <2>2. QED
    BY <1>1, <2>1
<1>3. ASSUME NEW m \in NodeIds, CallsOnly(m) PROVE agents[n].stat[x] <= agents'[n].stat[x]
  <2>1. agents' = agents
    BY <1>3 DEF CallsOnly, Heartbeat, NumberHeartbeat, CallConflicts, ReportInstanceStatus,
       ReportStatus, NumberStatus, GetPlan, ReadPlanCursor
  <2>2. QED
    BY <1>1, <2>1
<1>4. ASSUME NEW m \in NodeIds, NEW t \in Loops, AppendCall(m, t) \/ CallTimesOut(m, t)
      PROVE  agents'[n].stat = agents[n].stat
  BY <1>1, <1>4, ToldKeeps DEF StatKept
<1>5. ASSUME NEW m \in NodeIds, NEW i \in InstanceIds, GuestReady(m, i)
      PROVE  agents[n].stat[x] <= agents'[n].stat[x]
  BY <1>1, <1>5 DEF GuestReady, TypeInv, Agent
<1>6. ASSUME NEW m \in NodeIds, ApplyPlan(m)
      PROVE  agents[n].stat[x] <= agents'[n].stat[x]
  <2>1. agents'[n].stat[x] \in {agents[n].stat[x], 3}
        \/ (agents[n].stat[x] = 0 /\ agents'[n].stat[x] = 1)
    BY <1>1, <1>6 DEF ApplyPlan, TypeInv, Agent
  <2>2. QED
    BY <1>1, <2>1
<1>7. QED
  BY <1>1, <1>2, <1>3, <1>4, <1>5, <1>6, StepCases DEF CallStep

----------------------------------------------------------------------------
(* Pending batches.                                                          *)

\* A batch that stays pending stays good: the log may only have grown past it.
LEMMA PendingKept ==
    ASSUME NodeInv, [NodeNext]_nvars, NEW b, Pending(b)
    PROVE  BatchOK(b)' /\ ReportOK(b)'
<1>1. BatchOK(b) /\ ReportOK(b)
  BY DEF NodeInv, PendInv
<1>2. b \in Seq(Ev) /\ Len(b) \in 1 .. 2 /\ \A k \in 1 .. Len(b) : b[k] \in Ev
  BY <1>1 DEF BatchOK
<1>3. PICK a, x : a = b[1].agg /\ x = b[1].id
  OBVIOUS
<1>4. LatestNodeSeq(a, x) \in Nat /\ LatestNodeSeq(a, x)' \in Nat
      /\ LatestNodeSeq(a, x) <= LatestNodeSeq(a, x)'
  <2>1. TypeInv'
    BY TypeStep
  <2>2. LatestNodeSeq(a, x)' \in Nat
    <3>1. IsFiniteSet(1 .. Len(nlog'))
      BY <2>1, FS_Interval DEF TypeInv
    <3>2. {i \in 1 .. Len(nlog') : nlog'[i].agg = a /\ nlog'[i].id = x} \in
             SUBSET (1 .. Len(nlog'))
      OBVIOUS
    <3>3. QED
      BY <3>1, <3>2, FS_Subset, FS_CardinalityType DEF LatestNodeSeq
  <2>3. QED
    BY <2>2, LogBasics, StepKeeps DEF NodeInv
<1>5. BatchOK(b)'
  <2>1. Created(a, x)'
    BY <1>1, <1>3, StepKeeps DEF BatchOK
  <2>2. b[1].seq \in 2 .. LatestNodeSeq(a, x)' + 1
    BY <1>1, <1>3, <1>4 DEF BatchOK
  <2>3. QED
    BY <1>1, <1>3, <2>1, <2>2 DEF BatchOK
<1>6. ASSUME NEW k \in 1 .. Len(b), b[k].kind = "status"
      PROVE  /\ Len(b) = 1
             /\ AllocatedOn(b[k].id, b[k].node)'
             /\ b[k].val <= agents'[b[k].node].stat[b[k].id]
             /\ \A i \in Of("instance", b[k].id)' :
                  nlog'[i].kind = "status" /\ nlog'[i].seq < b[k].seq => nlog'[i].val <= b[k].val
  <2>1. /\ Len(b) = 1 /\ AllocatedOn(b[k].id, b[k].node)
        /\ b[k].val <= agents[b[k].node].stat[b[k].id]
        /\ \A i \in Of("instance", b[k].id) :
             nlog[i].kind = "status" /\ nlog[i].seq < b[k].seq => nlog[i].val <= b[k].val
    BY <1>1, <1>6 DEF ReportOK
  <2>2. /\ b[k].val \in 1 .. 3 /\ b[k].node \in NodeIds /\ b[k].id \in InstanceIds
        /\ k = 1 /\ b[1].agg = "instance"
    BY <1>1, <1>2, <1>6, <2>1 DEF BatchOK, EventOK, Ev
  <2>3. AllocatedOn(b[k].id, b[k].node)'
    BY <2>1, StepKeeps
  <2>4. b[k].val <= agents'[b[k].node].stat[b[k].id]
    <3>1. agents[b[k].node].stat[b[k].id] <= agents'[b[k].node].stat[b[k].id]
      BY <2>2, StatusGrows
    <3>2. agents[b[k].node].stat[b[k].id] \in 0 .. 3
      BY <2>2 DEF NodeInv, TypeInv, Agent
    <3>3. agents'[b[k].node].stat[b[k].id] \in 0 .. 3
      BY <2>2, TypeStep DEF TypeInv, Agent
    <3>4. QED
      BY <2>1, <2>2, <3>1, <3>2, <3>3
  <2>5. ASSUME NEW i \in Of("instance", b[k].id)', nlog'[i].kind = "status",
               nlog'[i].seq < b[k].seq
        PROVE  nlog'[i].val <= b[k].val
    <3>1. i \in 1 .. Len(nlog') /\ nlog'[i].agg = "instance" /\ nlog'[i].id = b[k].id
      BY DEF Of
    <3>2. nlog'[i] \in Ev
      BY <3>1, TypeStep DEF TypeInv
    <3>3. nlog'[i].seq \in Nat /\ b[1].seq \in 2 .. LatestNodeSeq(a, x) + 1
      BY <1>1, <1>3, <3>2 DEF BatchOK, Ev
    <3>4. ~(nlog'[i].seq > LatestNodeSeq(a, x))
      BY <1>4, <2>2, <2>5, <3>3
    <3>5. i \in 1 .. Len(nlog) /\ nlog'[i] = nlog[i]
      BY <1>3, <2>2, <3>1, <3>4, StepKeeps
    <3>6. i \in Of("instance", b[k].id)
      BY <3>1, <3>5 DEF Of
    <3>7. QED
      BY <2>1, <2>5, <3>5, <3>6
  <2>6. QED
    BY <2>1, <2>3, <2>4, <2>5
<1>7. ReportOK(b)'
  BY <1>6 DEF ReportOK
<1>8. QED
  BY <1>5, <1>7

\* Two events that create the same aggregate are one event.
LEMMA CreatedOnce ==
    ASSUME TypeInv, LogInv, NEW i \in 1 .. Len(nlog), NEW j \in 1 .. Len(nlog),
           nlog[i].kind \in Creations, nlog[j].kind \in Creations,
           nlog[i].agg = nlog[j].agg, nlog[i].id = nlog[j].id
    PROVE  i = j
<1>1. nlog[i].seq = 1 /\ nlog[j].seq = 1
  BY DEF LogInv, EventOK
<1>2. ~(i < j) /\ ~(j < i)
  BY <1>1 DEF LogInv, ReportsInOrder
<1>3. QED
  BY <1>2, LogBasics

\* The kinds of creation and their aggregates.
LEMMA CreationAggregates ==
    ASSUME TypeInv, LogInv, NEW i \in 1 .. Len(nlog)
    PROVE  /\ nlog[i].kind = "enrolled" => nlog[i].agg = "node" /\ i \in Of("node", nlog[i].id)
           /\ nlog[i].kind = "allocated" =>
                nlog[i].agg = "instance" /\ i \in Of("instance", nlog[i].id)
           /\ nlog[i].kind = "status" =>
                nlog[i].agg = "instance" /\ nlog[i].id \in InstanceIds /\ nlog[i].node \in NodeIds
<1>1. nlog[i] \in Ev /\ EventOK(nlog[i])
  BY LogBasics DEF LogInv
<1>2. QED
  BY <1>1 DEF EventOK, Ev, Of

LEMMA AllocatedOnce ==
    ASSUME TypeInv, LogInv, NEW x, NEW n, NEW m, AllocatedOn(x, n), AllocatedOn(x, m)
    PROVE  n = m /\ Created("instance", x)
<1>1. PICK i \in 1 .. Len(nlog) :
        nlog[i].kind = "allocated" /\ nlog[i].id = x /\ nlog[i].node = n
  BY DEF AllocatedOn
<1>2. PICK j \in 1 .. Len(nlog) :
        nlog[j].kind = "allocated" /\ nlog[j].id = x /\ nlog[j].node = m
  BY DEF AllocatedOn
<1>3. nlog[i].agg = "instance" /\ nlog[j].agg = "instance" /\ i \in Of("instance", x)
  BY <1>1, <1>2, CreationAggregates
<1>4. i = j
  BY <1>1, <1>2, <1>3, CreatedOnce DEF Creations
<1>5. QED
  BY <1>1, <1>2, <1>3, <1>4 DEF Created, Creations

\* An aggregate that was created has an event, so the next number is not the first.
LEMMA CreatedCounts ==
    ASSUME TypeInv, NEW a, NEW x, Created(a, x)
    PROVE  LatestNodeSeq(a, x) \in Nat /\ LatestNodeSeq(a, x) >= 1
<1>1. Of(a, x) # {}
  BY DEF Created
<1>2. IsFiniteSet(Of(a, x)) /\ LatestNodeSeq(a, x) = Cardinality(Of(a, x))
      /\ LatestNodeSeq(a, x) \in Nat
  BY LogBasics
<1>3. LatestNodeSeq(a, x) # 0
  BY <1>1, <1>2, FS_EmptySet
<1>4. QED
  BY <1>2, <1>3

\* A row of a view is of something that was created.
LEMMA RowsCreated ==
    ASSUME NodeInv
    PROVE  /\ \A r \in nodes : Created("node", r.id)
           /\ \A r \in instances : AllocatedOn(r.id, r.node) /\ Created("instance", r.id)
<1> USE DEF NodeInv
<1>1. \A i \in 1 .. ndone : i \in 1 .. Len(nlog)
  BY DEF TypeInv
<1>2. ASSUME NEW r \in nodes PROVE Created("node", r.id)
  <2>1. PICK i \in 1 .. ndone : nlog[i].kind = "enrolled" /\ nlog[i].id = r.id
    BY DEF ViewInv
  <2>2. i \in Of("node", r.id)
    BY <1>1, <2>1, CreationAggregates
  <2>3. QED
    BY <2>1, <2>2 DEF Created, Creations
<1>3. ASSUME NEW r \in instances PROVE AllocatedOn(r.id, r.node)
  <2>1. PICK i \in 1 .. ndone :
          nlog[i].kind = "allocated" /\ nlog[i].id = r.id /\ nlog[i].node = r.node
    BY DEF ViewInv
  <2>2. QED
    BY <1>1, <2>1 DEF AllocatedOn
<1>4. QED
  BY <1>2, <1>3, AllocatedOnce

LEMMA BatchSame ==
    ASSUME NEW b, nlog' = nlog, agents' = agents, BatchOK(b), ReportOK(b)
    PROVE  BatchOK(b)' /\ ReportOK(b)'
<1>1. BatchOK(b)'
  BY SameLog DEF BatchOK
<1>2. ReportOK(b)'
  BY SameLog DEF ReportOK
<1>3. QED
  BY <1>1, <1>2

\* heartbeat numbers its events after the last event of its node.
LEMMA HeartbeatBatch ==
    ASSUME NodeInv, NEW n \in NodeIds, NumberHeartbeat(n)
    PROVE  BatchOK(calls'[n]["beat"].batch) /\ ReportOK(calls'[n]["beat"].batch)
<1> USE DEF NodeInv
<1> DEFINE c == calls[n]["beat"]
           m == LatestNodeSeq("node", n)
           capacity == NodeEvent("node", n, m + 1, "capacity", n, 0, None, c.val)
           state == NodeEvent("node", n, m + 1 + 1, "state", n, 0, c.name, 0)
           b == IF c.changed THEN <<capacity, state>> ELSE <<capacity>>
<1>1. "beat" \in Loops
  BY DEF Loops
<1>2. c \in Call
  BY <1>1 DEF TypeInv
<1>3. c.kind = "heartbeat"
  BY <1>1, <1>2 DEF AgentInv, CallOK, NumberHeartbeat, Call
<1>4. c.val \in 0 .. Capacity /\ c.name \in NodeStates /\ Created("node", n)
  BY <1>1, <1>3 DEF AgentInv, CallOK
<1>5. m \in Nat /\ m >= 1
  BY <1>4, CreatedCounts
<1>6. calls'[n]["beat"].batch = b
  <2>1. SetCall(n, "beat", [c EXCEPT !.phase = "numbered", !.batch = b])
    BY DEF NumberHeartbeat
  <2> HIDE DEF b, c
  <2>2. calls'[n]["beat"] = [c EXCEPT !.phase = "numbered", !.batch = b]
    BY <1>1, <2>1 DEF SetCall, TypeInv
  <2>3. QED
    BY <1>2, <2>2 DEF Call
<1>7. n \in Nat /\ c.val \in Nat
  BY <1>4, NodeControlAssumption DEF NodeIds
<1> HIDE DEF c, m
<1>8. capacity \in Ev /\ EventOK(capacity) /\ capacity.kind = "capacity"
      /\ capacity.agg = "node" /\ capacity.id = n /\ capacity.seq = m + 1
  BY <1>4, <1>5, <1>7 DEF NodeEvent, Ev, EventOK, Creations
<1>9. state \in Ev /\ EventOK(state) /\ state.kind = "state"
      /\ state.agg = "node" /\ state.id = n /\ state.seq = (m + 1) + 1
  BY <1>4, <1>5, <1>7 DEF NodeEvent, Ev, EventOK, Creations
<1> HIDE DEF capacity, state
<1>10. BatchOK(<<capacity>>) /\ ReportOK(<<capacity>>)
  <2>1. <<capacity>> \in Seq(Ev) /\ Len(<<capacity>>) = 1 /\ <<capacity>>[1] = capacity
    BY <1>8
  <2>2. Created(capacity.agg, capacity.id) /\ LatestNodeSeq(capacity.agg, capacity.id) = m
    BY <1>4, <1>8 DEF m
  <2>3. BatchOK(<<capacity>>)
    BY <1>5, <1>8, <2>1, <2>2 DEF BatchOK, Creations
  <2>4. ReportOK(<<capacity>>)
    BY <1>8, <2>1 DEF ReportOK
  <2>5. QED
    BY <2>3, <2>4
<1>11. BatchOK(<<capacity, state>>) /\ ReportOK(<<capacity, state>>)
  <2> DEFINE d == <<capacity, state>>
  <2>1. d \in Seq(Ev) /\ Len(d) = 2 /\ d[1] = capacity /\ d[2] = state
    BY <1>8, <1>9
  <2> HIDE DEF d
  <2>2. Created(capacity.agg, capacity.id) /\ LatestNodeSeq(capacity.agg, capacity.id) = m
    BY <1>4, <1>8 DEF m
  <2>3. \A k \in 1 .. Len(d) : k = 1 \/ k = 2
    BY <2>1
  <2>4. BatchOK(d)
    BY <1>5, <1>8, <1>9, <2>1, <2>2, <2>3 DEF BatchOK, Creations
  <2>5. ReportOK(d)
    BY <1>8, <1>9, <2>1, <2>3 DEF ReportOK
  <2>6. QED
    BY <2>4, <2>5 DEF d
<1>12. QED
  BY <1>6, <1>10, <1>11

\* report_instance_status numbers its event after the last event of the instance, and every
\* status in the log is one its node has already been through.
LEMMA StatusBatch ==
    ASSUME NodeInv, NEW n \in NodeIds, NumberStatus(n)
    PROVE  BatchOK(calls'[n]["sync"].batch) /\ ReportOK(calls'[n]["sync"].batch)
<1> USE DEF NodeInv
<1> DEFINE c == calls[n]["sync"]
           m == LatestNodeSeq("instance", c.inst)
           v == NodeEvent("instance", c.inst, m + 1, "status", n, 0, None, c.val)
<1>1. "sync" \in Loops
  BY DEF Loops
<1>2. c \in Call /\ c.kind = "status"
  BY <1>1 DEF TypeInv, NumberStatus
<1>3. /\ c.inst \in InstanceIds /\ c.val = agents[n].stat[c.inst] /\ c.val \in 1 .. 3
      /\ AllocatedOn(c.inst, n)
  BY <1>1, <1>2 DEF AgentInv, CallOK
<1>4. Created("instance", c.inst)
  BY <1>3, AllocatedOnce
<1>5. m \in Nat /\ m >= 1
  BY <1>4, CreatedCounts
<1>6. calls'[n]["sync"].batch = <<v>>
  <2>1. SetCall(n, "sync", [c EXCEPT !.phase = "numbered", !.batch = <<v>>])
    BY DEF NumberStatus
  <2> HIDE DEF v, c
  <2>2. calls'[n]["sync"] = [c EXCEPT !.phase = "numbered", !.batch = <<v>>]
    BY <1>1, <2>1 DEF SetCall, TypeInv
  <2>3. QED
    BY <1>2, <2>2 DEF Call
<1>7. n \in Nat /\ c.inst \in Nat
  BY <1>3 DEF NodeIds, InstanceIds
<1> HIDE DEF c, m
<1>8. /\ v \in Ev /\ EventOK(v) /\ v.kind = "status" /\ v.agg = "instance" /\ v.id = c.inst
      /\ v.seq = m + 1 /\ v.val = c.val /\ v.node = n
  BY <1>3, <1>5, <1>7 DEF NodeEvent, Ev, EventOK, Creations
<1> HIDE DEF v
<1>9. <<v>> \in Seq(Ev) /\ Len(<<v>>) = 1 /\ <<v>>[1] = v
  BY <1>8
<1>10. Created(v.agg, v.id) /\ LatestNodeSeq(v.agg, v.id) = m
  BY <1>4, <1>8 DEF m
<1>11. BatchOK(<<v>>)
  BY <1>5, <1>8, <1>9, <1>10 DEF BatchOK, Creations
<1>12. ASSUME NEW i \in Of("instance", v.id), nlog[i].kind = "status" PROVE nlog[i].val <= v.val
  <2>1. i \in 1 .. Len(nlog) /\ nlog[i].id = c.inst
    BY <1>8 DEF Of
  <2>2. AllocatedOn(c.inst, nlog[i].node)
    BY <1>12, <2>1 DEF LogInv
  <2>3. nlog[i].node = n
    BY <1>3, <2>2, AllocatedOnce
  <2>4. nlog[i].val <= agents[n].stat[c.inst]
    BY <1>12, <2>1, <2>3 DEF AgentInv
  <2>5. QED
    BY <1>3, <1>8, <2>4
<1>13. ReportOK(<<v>>)
  <2>1. AllocatedOn(v.id, v.node) /\ v.val <= agents[v.node].stat[v.id]
    BY <1>3, <1>8
  <2>2. QED
    BY <1>9, <1>12, <2>1 DEF ReportOK
<1>14. QED
  BY <1>6, <1>11, <1>13

\* drain_instance numbers its event after the last event of the instance.
LEMMA DrainBatch ==
    ASSUME NodeInv, NEW i \in InstanceIds, NumberDrain(i)
    PROVE  BatchOK(placing'.batch) /\ ReportOK(placing'.batch)
<1> USE DEF NodeInv
<1> DEFINE m == LatestNodeSeq("instance", i)
           v == NodeEvent("instance", i, m + 1, "draining", 0, 0, None, 0)
<1>1. Created("instance", i)
  <2>1. PICK r \in instances : r.id = i
    BY DEF NumberDrain, RowOfInstance
  <2>2. QED
    BY <2>1, RowsCreated
<1>2. m \in Nat /\ m >= 1
  BY <1>1, CreatedCounts
<1>3. placing'.batch = <<v>>
  BY NoPlacingType DEF NumberDrain, NoPlacing
<1> HIDE DEF m
<1>4. /\ v \in Ev /\ EventOK(v) /\ v.kind = "draining" /\ v.agg = "instance" /\ v.id = i
      /\ v.seq = m + 1
  BY <1>2 DEF NodeEvent, Ev, EventOK, Creations, InstanceIds
<1> HIDE DEF v
<1>5. <<v>> \in Seq(Ev) /\ Len(<<v>>) = 1 /\ <<v>>[1] = v
  BY <1>4
<1>6. Created(v.agg, v.id) /\ LatestNodeSeq(v.agg, v.id) = m
  BY <1>1, <1>4 DEF m
<1>7. BatchOK(<<v>>)
  BY <1>2, <1>4, <1>5, <1>6 DEF BatchOK, Creations
<1>8. ReportOK(<<v>>)
  BY <1>4, <1>5 DEF ReportOK
<1>9. QED
  BY <1>3, <1>7, <1>8

\* Replacing a request: the batches are those there were, and the request's own.
LEMMA BatchesOfCalls ==
    ASSUME TypeInv, NEW n \in NodeIds, NEW t \in Loops, NEW c, SetCall(n, t, c),
           NEW m \in NodeIds, NEW s \in Loops
    PROVE  calls'[m][s] = IF m = n /\ s = t THEN c ELSE calls[m][s]
  BY DEF SetCall, TypeInv

\* A request without a batch adds none to the pending ones.
LEMMA NoNewBatch ==
    ASSUME TypeInv, NEW n \in NodeIds, NEW t \in Loops, NEW c, SetCall(n, t, c),
           c.batch = <<>> \/ c.batch = calls[n][t].batch,
           \A o \in orphans' : o \in orphans \/ (o # <<>> /\ o = calls[n][t].batch),
           UNCHANGED placing, NEW b, Pending(b)'
    PROVE  Pending(b)
<1>1. CASE b \in orphans'
  BY <1>1 DEF Pending
<1>2. ASSUME NEW m \in NodeIds, NEW s \in Loops, b # <<>>, b = calls'[m][s].batch
      PROVE  Pending(b)
  BY <1>2, BatchesOfCalls DEF Pending
<1>3. QED
  BY <1>1, <1>2 DEF Pending

LEMMA PendStep ==
    ASSUME NodeInv, [NodeNext]_nvars
    PROVE  PendInv'
<1> SUFFICES ASSUME NEW b, Pending(b)' PROVE BatchOK(b)' /\ ReportOK(b)'
  BY DEF PendInv
<1>0. TypeInv /\ NoCall.batch = <<>> /\ "sync" \in Loops /\ "beat" \in Loops
  BY DEF NodeInv, NoCall, Loops
<1>1. CASE Pending(b)
  BY <1>1, PendingKept
<1>2. ASSUME NEW n \in NodeIds, NEW t \in Loops, NEW c, SetCall(n, t, c),
             UNCHANGED <<placing, orphans, nlog, agents>>,
             BatchOK(calls'[n][t].batch) /\ ReportOK(calls'[n][t].batch)
      PROVE  BatchOK(b)' /\ ReportOK(b)'
  <2>1. Pending(b) \/ b = calls'[n][t].batch
    BY <1>0, <1>2, BatchesOfCalls DEF Pending
  <2>2. QED
    BY <1>1, <1>2, <2>1, BatchSame
<1>3. ASSUME NEW n \in NodeIds, CallsOnly(n) PROVE BatchOK(b)' /\ ReportOK(b)'
  <2>1. ASSUME NEW s \in NodeStates, NEW a \in 0 .. Capacity, Heartbeat(n, s, a)
        PROVE  Pending(b)
    <3>a. PICK r \in RowOfNode(n) :
            SetCall(n, "beat", [NoCall EXCEPT !.phase = "loaded", !.kind = "heartbeat",
                                              !.name = s, !.val = a, !.changed = r.state # s])
      BY <2>1 DEF Heartbeat
    <3>b. [NoCall EXCEPT !.phase = "loaded", !.kind = "heartbeat", !.name = s, !.val = a,
                         !.changed = r.state # s].batch = <<>>
      BY DEF NoCall
    <3>1. PICK c : SetCall(n, "beat", c) /\ c.batch = <<>>
      BY <3>a, <3>b
    <3>2. QED
      BY <1>0, <2>1, <3>1, NoNewBatch DEF Heartbeat
  <2>2. CASE NumberHeartbeat(n)
    BY <1>0, <1>2, <2>2, HeartbeatBatch DEF NumberHeartbeat
  <2>3. ASSUME NEW t \in Loops, CallConflicts(n, t) PROVE Pending(b)
    BY <1>0, <2>3, NoNewBatch DEF CallConflicts
  <2>4. ASSUME NEW i \in InstanceIds, ReportInstanceStatus(n, i) \/ ReportStatus(n, i)
        PROVE  Pending(b)
    <3>a. [NoCall EXCEPT !.phase = "loaded", !.kind = "status", !.inst = i,
                         !.val = agents[n].stat[i]].batch = <<>>
      BY DEF NoCall
    <3>1. PICK c : SetCall(n, "sync", c) /\ c.batch = <<>>
      BY <2>4, <3>a DEF ReportInstanceStatus, ReportStatus
    <3>2. QED
      BY <1>0, <2>4, <3>1, NoNewBatch DEF ReportInstanceStatus, ReportStatus
  <2>5. CASE NumberStatus(n)
    BY <1>0, <1>2, <2>5, StatusBatch DEF NumberStatus
  <2>6. ASSUME GetPlan(n) PROVE Pending(b)
    <3>a. [NoCall EXCEPT !.phase = "loaded", !.kind = "plan", !.rows = PlanRows(n)].batch = <<>>
      BY DEF NoCall
    <3>1. PICK c : SetCall(n, "sync", c) /\ c.batch = <<>>
      BY <2>6, <3>a DEF GetPlan
    <3>2. QED
      BY <1>0, <2>6, <3>1, NoNewBatch DEF GetPlan
  <2>7. ASSUME ReadPlanCursor(n) PROVE Pending(b)
    <3> DEFINE c == [calls[n]["sync"] EXCEPT !.phase = "numbered", !.cursor = Len(nlog)]
    <3>1. SetCall(n, "sync", c)
      BY <1>0, <2>7 DEF ReadPlanCursor, TypeInv, SetCall
    <3>a. calls[n]["sync"] \in Call
      BY <1>0 DEF TypeInv
    <3>2. c.batch = calls[n]["sync"].batch
      BY <3>a DEF Call
    <3> HIDE DEF c
    <3>3. QED
      BY <1>0, <2>7, <3>1, <3>2, NoNewBatch DEF ReadPlanCursor
  <2>8. QED
    BY <1>1, <1>3, <2>1, <2>2, <2>3, <2>4, <2>5, <2>6, <2>7 DEF CallsOnly
<1>4. ASSUME NEW n \in NodeIds, NEW t \in Loops, AppendCall(n, t) \/ CallTimesOut(n, t)
      PROVE  Pending(b)
  <2>1. SetCall(n, t, NoCall) /\ UNCHANGED placing
        /\ \A o \in orphans' : o \in orphans \/ (o # <<>> /\ o = calls[n][t].batch)
    BY <1>4 DEF AppendCall, CallTimesOut
  <2>2. QED
    BY <1>0, <2>1, NoNewBatch
<1>5. ASSUME NEW n \in NodeIds, NEW i \in InstanceIds, GuestReady(n, i) PROVE Pending(b)
  BY <1>5 DEF GuestReady, Pending
<1>6. ASSUME NEW n \in NodeIds, ApplyPlan(n) PROVE Pending(b)
  BY <1>0, <1>6, NoNewBatch DEF ApplyPlan
<1>7. CASE PlaceStep
  <2>1. ASSUME NEW i \in InstanceIds, NumberDrain(i) PROVE BatchOK(b)' /\ ReportOK(b)'
    <3>1. UNCHANGED <<calls, orphans, nlog, agents>>
      BY <2>1 DEF NumberDrain
    <3>2. Pending(b) \/ b = placing'.batch
      BY <3>1 DEF Pending
    <3>3. QED
      BY <1>1, <2>1, <3>1, <3>2, DrainBatch, BatchSame
  <2>2. ASSUME FindBestNode \/ AllocateInstanceIpv6 \/ AppendAllocated \/ AllocateFails
               \/ AppendDrain
        PROVE  Pending(b)
    <3>1. placing'.phase # "draining" /\ UNCHANGED <<calls, orphans>>
      <4>1. CASE FindBestNode
        BY <4>1 DEF FindBestNode, NoPlacing
      <4>2. CASE AllocateInstanceIpv6
        <5>1. placing \in Placing
          BY <1>0 DEF TypeInv
        <5>2. QED
          BY <4>2, <5>1 DEF AllocateInstanceIpv6, Placing
      <4>3. CASE AppendAllocated \/ AllocateFails \/ AppendDrain
        BY <4>3 DEF AppendAllocated, AllocateFails, AppendDrain, NoPlacing
      <4>4. QED
        BY <2>2, <4>1, <4>2, <4>3
    <3>2. QED
      BY <3>1 DEF Pending
  <2>3. QED
    BY <1>1, <1>7, <2>1, <2>2 DEF PlaceStep
<1>8. CASE EnrollStep \/ OrphanStep \/ ProjectNode \/ UNCHANGED nvars
  <2>1. UNCHANGED <<calls, placing>> /\ orphans' \subseteq orphans
    BY <1>8 DEF EnrollStep, CheckEnrollment, AllocateNodeIpv6, AppendEnrolled, EnrollFails,
       OrphanStep, OrphanLands, OrphanVanishes, ProjectNode, nvars
  <2>2. Pending(b)
    BY <2>1 DEF Pending
  <2>3. QED
    BY <1>1, <2>2
<1>9. QED
  BY <1>0, <1>1, <1>3, <1>4, <1>5, <1>6, <1>7, <1>8, StepCases DEF CallStep

----------------------------------------------------------------------------
(* Requests and agents.                                                      *)

LEMMA CallKept ==
    ASSUME NodeInv, [NodeNext]_nvars, NEW n \in NodeIds, NEW t \in Loops,
           calls'[n][t] = calls[n][t],
           calls[n][t].kind = "status" => StatKept(n)
    PROVE  CallOK(n, t)'
<1>1. CallOK(n, t)
  BY DEF NodeInv, AgentInv
<1>2. /\ Created("node", n) => Created("node", n)'
      /\ \A x : AllocatedOn(x, n) => AllocatedOn(x, n)'
  BY StepKeeps
<1>3. QED
  BY <1>1, <1>2 DEF CallOK, StatKept

LEMMA NoCallOK ==
    ASSUME NEW n \in NodeIds, NEW t \in Loops, calls'[n][t] = NoCall
    PROVE  CallOK(n, t)'
<1>1. NoCall.kind = "" /\ NoCall.rows = {} /\ NoCall.phase = "idle"
  BY DEF NoCall
<1>2. QED
  BY <1>1 DEF CallOK

\* The requests after one of them was replaced.
LEMMA CallsReplaced ==
    ASSUME NodeInv, [NodeNext]_nvars, NEW n \in NodeIds, NEW t \in Loops, NEW c,
           SetCall(n, t, c), CallOK(n, t)',
           \A m \in NodeIds, s \in Loops : (m # n \/ s # t) =>
                (calls[m][s].kind = "status" => StatKept(m))
    PROVE  \A m \in NodeIds, s \in Loops : CallOK(m, s)'
<1>1. ASSUME NEW m \in NodeIds, NEW s \in Loops, m # n \/ s # t PROVE CallOK(m, s)'
  <2>1. calls'[m][s] = calls[m][s]
    BY <1>1, BatchesOfCalls DEF NodeInv
  <2>2. QED
    BY <1>1, <2>1, CallKept
<1>2. QED
  BY <1>1

LEMMA CallsStep ==
    ASSUME NodeInv, [NodeNext]_nvars
    PROVE  \A m \in NodeIds, s \in Loops : CallOK(m, s)'
<1>0. TypeInv /\ "sync" \in Loops /\ "beat" \in Loops
  BY DEF NodeInv, Loops
<1>1. CASE EnrollStep \/ PlaceStep \/ OrphanStep \/ ProjectNode \/ UNCHANGED nvars
  <2>1. UNCHANGED <<agents, calls>>
    BY <1>1 DEF EnrollStep, CheckEnrollment, AllocateNodeIpv6, AppendEnrolled, EnrollFails,
       PlaceStep, FindBestNode, AllocateInstanceIpv6, AppendAllocated, AllocateFails, AppendDrain,
       NumberDrain, OrphanStep, OrphanLands, OrphanVanishes, ProjectNode, nvars
  <2>2. QED
    BY <2>1, CallKept DEF StatKept
<1>2. ASSUME NEW n \in NodeIds, CallsOnly(n)
      PROVE  \A m \in NodeIds, s \in Loops : CallOK(m, s)'
  <2>1. UNCHANGED <<nlog, agents>>
    BY <1>2 DEF CallsOnly, Heartbeat, NumberHeartbeat, CallConflicts, ReportInstanceStatus,
       ReportStatus, NumberStatus, GetPlan, ReadPlanCursor
  <2>2. \A m \in NodeIds : StatKept(m)
    BY <2>1 DEF StatKept
  <2>3. ASSUME NEW s \in NodeStates, NEW a \in 0 .. Capacity, Heartbeat(n, s, a)
        PROVE  \A m \in NodeIds, z \in Loops : CallOK(m, z)'
    <3>1. PICK r \in RowOfNode(n) :
            SetCall(n, "beat", [NoCall EXCEPT !.phase = "loaded", !.kind = "heartbeat",
                                              !.name = s, !.val = a, !.changed = r.state # s])
      BY <2>3 DEF Heartbeat
    <3> DEFINE c == [NoCall EXCEPT !.phase = "loaded", !.kind = "heartbeat",
                                   !.name = s, !.val = a, !.changed = r.state # s]
    <3>2. c.phase = "loaded" /\ c.kind = "heartbeat" /\ c.name = s /\ c.val = a /\ c.rows = {}
      BY DEF NoCall
    <3> HIDE DEF c
    <3>3. calls'[n]["beat"] = c
      BY <1>0, <3>1, BatchesOfCalls DEF c
    <3>4. Created("node", n)'
      BY <2>1, RowsCreated, SameLog DEF RowOfNode
    <3>5. CallOK(n, "beat")'
      BY <3>2, <3>3, <3>4 DEF CallOK
    <3>6. QED
      BY <1>0, <2>2, <3>1, <3>5, CallsReplaced
  <2>4. ASSUME NEW t \in Loops, NEW b, calls[n][t].phase # "idle",
               SetCall(n, t, [calls[n][t] EXCEPT !.phase = "numbered", !.batch = b])
        PROVE  \A m \in NodeIds, s \in Loops : CallOK(m, s)'
    <3> DEFINE c == [calls[n][t] EXCEPT !.phase = "numbered", !.batch = b]
    <3>1. calls[n][t] \in Call
      BY <1>0 DEF TypeInv
    <3>2. /\ c.phase = "numbered" /\ c.kind = calls[n][t].kind /\ c.name = calls[n][t].name
          /\ c.val = calls[n][t].val /\ c.inst = calls[n][t].inst /\ c.rows = calls[n][t].rows
      BY <3>1 DEF Call
    <3> HIDE DEF c
    <3>3. calls'[n][t] = c
      BY <1>0, <2>4, BatchesOfCalls DEF c
    <3>4. CallOK(n, t)
      BY DEF NodeInv, AgentInv
    <3>5. CallOK(n, t)'
      BY <2>1, <2>4, <3>2, <3>3, <3>4, SameLog DEF CallOK
    <3>6. QED
      BY <1>0, <2>2, <2>4, <3>5, CallsReplaced
  <2>5. CASE NumberHeartbeat(n)
    BY <1>0, <2>4, <2>5 DEF NumberHeartbeat
  <2>6. ASSUME NEW t \in Loops, CallConflicts(n, t)
        PROVE  \A m \in NodeIds, s \in Loops : CallOK(m, s)'
    <3>1. SetCall(n, t, NoCall)
      BY <2>6 DEF CallConflicts
    <3>2. CallOK(n, t)'
      BY <1>0, <3>1, BatchesOfCalls, NoCallOK
    <3>3. QED
      BY <2>2, <3>1, <3>2, CallsReplaced
  <2>7. ASSUME NEW i \in InstanceIds, ReportInstanceStatus(n, i) \/ ReportStatus(n, i)
        PROVE  \A m \in NodeIds, s \in Loops : CallOK(m, s)'
    <3> DEFINE c == [NoCall EXCEPT !.phase = "loaded", !.kind = "status", !.inst = i,
                                   !.val = agents[n].stat[i]]
    <3>1. SetCall(n, "sync", c) /\ agents[n].stat[i] \in 1 .. 3
      BY <2>7 DEF ReportInstanceStatus, ReportStatus, ValidStatuses
    <3>2. c.phase = "loaded" /\ c.kind = "status" /\ c.inst = i /\ c.val = agents[n].stat[i]
          /\ c.rows = {}
      BY DEF NoCall
    <3> HIDE DEF c
    <3>3. calls'[n]["sync"] = c
      BY <1>0, <3>1, BatchesOfCalls
    <3>4. AllocatedOn(i, n)
      BY <3>1 DEF NodeInv, AgentInv
    <3>5. CallOK(n, "sync")'
      BY <2>1, <3>1, <3>2, <3>3, <3>4, SameLog DEF CallOK
    <3>6. QED
      BY <1>0, <2>2, <3>1, <3>5, CallsReplaced
  <2>8. CASE NumberStatus(n)
    BY <1>0, <2>4, <2>8 DEF NumberStatus
  <2>9. ASSUME GetPlan(n) PROVE \A m \in NodeIds, s \in Loops : CallOK(m, s)'
    <3> DEFINE c == [NoCall EXCEPT !.phase = "loaded", !.kind = "plan", !.rows = PlanRows(n)]
    <3>1. SetCall(n, "sync", c)
      BY <2>9 DEF GetPlan
    <3>2. c.phase = "loaded" /\ c.kind = "plan" /\ c.rows = PlanRows(n)
      BY DEF NoCall
    <3> HIDE DEF c
    <3>3. calls'[n]["sync"] = c
      BY <1>0, <3>1, BatchesOfCalls
    <3>4. \A q \in PlanRows(n) : AllocatedOn(q[1], n)
      BY RowsCreated DEF PlanRows
    <3>5. CallOK(n, "sync")'
      BY <2>1, <3>2, <3>3, <3>4, SameLog DEF CallOK
    <3>6. QED
      BY <1>0, <2>2, <3>1, <3>5, CallsReplaced
  <2>10. ASSUME ReadPlanCursor(n) PROVE \A m \in NodeIds, s \in Loops : CallOK(m, s)'
    <3> DEFINE d == calls[n]["sync"]
               c == [d EXCEPT !.phase = "numbered", !.cursor = Len(nlog)]
    <3>1. SetCall(n, "sync", c) /\ d.kind = "plan"
      BY <1>0, <2>10 DEF ReadPlanCursor, TypeInv, SetCall
    <3>2. d \in Call
      BY <1>0 DEF TypeInv
    <3>3. c.phase = "numbered" /\ c.kind = "plan" /\ c.rows = d.rows
      BY <3>1, <3>2 DEF Call
    <3> HIDE DEF c
    <3>4. calls'[n]["sync"] = c
      BY <1>0, <3>1, BatchesOfCalls
    <3>5. \A q \in d.rows : AllocatedOn(q[1], n)
      BY <1>0 DEF NodeInv, AgentInv, CallOK
    <3>6. CallOK(n, "sync")'
      BY <2>1, <3>3, <3>4, <3>5, SameLog DEF CallOK
    <3>7. QED
      BY <1>0, <2>2, <3>1, <3>6, CallsReplaced
  <2>11. QED
    BY <1>2, <2>3, <2>5, <2>6, <2>7, <2>8, <2>9, <2>10 DEF CallsOnly
<1>3. ASSUME NEW n \in NodeIds, NEW t \in Loops, AppendCall(n, t) \/ CallTimesOut(n, t)
      PROVE  \A m \in NodeIds, s \in Loops : CallOK(m, s)'
  <2>1. SetCall(n, t, NoCall)
    BY <1>3 DEF AppendCall, CallTimesOut
  <2>2. CallOK(n, t)'
    BY <1>0, <2>1, BatchesOfCalls, NoCallOK
  <2>3. \A m \in NodeIds : StatKept(m)
    BY <1>0, <1>3, ToldKeeps
  <2>4. QED
    BY <2>1, <2>2, <2>3, CallsReplaced
<1>4. ASSUME NEW n \in NodeIds, NEW i \in InstanceIds, GuestReady(n, i)
      PROVE  \A m \in NodeIds, s \in Loops : CallOK(m, s)'
  <2>1. calls' = calls /\ calls[n]["sync"].phase = "idle"
        /\ agents' = [agents EXCEPT ![n].stat[i] = 2]
    BY <1>4 DEF GuestReady
  <2>2. \A m \in NodeIds \ {n} : StatKept(m)
    BY <1>0, <2>1 DEF TypeInv, StatKept
  <2>3. \A s \in Loops : calls[n][s].kind # "status"
    BY <1>0, <2>1 DEF NodeInv, AgentInv, CallOK, Loops
  <2>4. QED
    BY <2>1, <2>2, <2>3, CallKept
<1>5. ASSUME NEW n \in NodeIds, ApplyPlan(n)
      PROVE  \A m \in NodeIds, s \in Loops : CallOK(m, s)'
  <2>1. SetCall(n, "sync", NoCall)
    BY <1>5 DEF ApplyPlan
  <2>2. CallOK(n, "sync")'
    BY <1>0, <2>1, BatchesOfCalls, NoCallOK
  <2>3. \A m \in NodeIds \ {n} : StatKept(m)
    BY <1>0, <1>5 DEF TypeInv, StatKept, ApplyPlan
  <2>4. calls[n]["beat"].kind # "status"
    BY <1>0 DEF NodeInv, AgentInv, CallOK
  <2>5. \A s \in Loops : s # "sync" => s = "beat"
    BY DEF Loops
  <2>6. QED
    BY <1>0, <2>1, <2>2, <2>3, <2>4, <2>5, CallsReplaced
<1>6. QED
  BY <1>0, <1>1, <1>2, <1>3, <1>4, <1>5, StepCases DEF CallStep

\* What an agent knows of or holds was allocated on its node.
LEMMA KnownStep ==
    ASSUME NodeInv, [NodeNext]_nvars, NEW n \in NodeIds, NEW x \in InstanceIds,
           agents'[n].stat[x] # 0 \/ x \in agents'[n].held
    PROVE  AllocatedOn(x, n)'
<1>0. TypeInv /\ "sync" \in Loops
  BY DEF NodeInv, Loops
<1>1. SUFFICES AllocatedOn(x, n)
  BY StepKeeps
<1>2. agents[n].stat[x] # 0 \/ x \in agents[n].held => AllocatedOn(x, n)
  BY DEF NodeInv, AgentInv
<1>3. CASE agents' = agents
  BY <1>2, <1>3
<1>4. ASSUME NEW m \in NodeIds, NEW t \in Loops, AppendCall(m, t) \/ CallTimesOut(m, t)
      PROVE  AllocatedOn(x, n)
  BY <1>0, <1>2, <1>4, ToldKeeps DEF StatKept
<1>5. ASSUME NEW m \in NodeIds, NEW i \in InstanceIds, GuestReady(m, i)
      PROVE  AllocatedOn(x, n)
  <2>1. agents'[n].held = agents[n].held
        /\ (agents'[n].stat[x] = agents[n].stat[x] \/ agents[n].stat[x] = 1)
    BY <1>0, <1>5 DEF GuestReady, TypeInv, Agent
  <2>2. QED
    BY <1>2, <2>1
<1>6. ASSUME NEW m \in NodeIds, ApplyPlan(m) PROVE AllocatedOn(x, n)
  <2>1. CASE m # n
    <3>1. agents'[n] = agents[n]
      BY <1>0, <1>6, <2>1 DEF ApplyPlan, TypeInv
    <3>2. QED
      BY <1>2, <3>1
  <2>2. CASE m = n
    <3>1. \/ <<x, "running">> \in calls[n]["sync"].rows
          \/ agents[n].stat[x] # 0
          \/ x \in agents[n].held
      BY <1>0, <1>6, <2>2, ZenonT(60) DEF ApplyPlan, TypeInv, Agent
    <3>2. \A q \in calls[n]["sync"].rows : AllocatedOn(q[1], n)
      BY <1>0 DEF NodeInv, AgentInv, CallOK
    <3>3. <<x, "running">>[1] = x
      OBVIOUS
    <3>4. QED
      BY <1>2, <3>1, <3>2, <3>3
  <2>3. QED
    BY <2>1, <2>2
<1>7. CASE EnrollStep \/ PlaceStep \/ OrphanStep \/ ProjectNode \/ UNCHANGED nvars
  <2>1. agents' = agents
    BY <1>7 DEF EnrollStep, CheckEnrollment, AllocateNodeIpv6, AppendEnrolled, EnrollFails,
       PlaceStep, FindBestNode, AllocateInstanceIpv6, AppendAllocated, AllocateFails, AppendDrain,
       NumberDrain, OrphanStep, OrphanLands, OrphanVanishes, ProjectNode, nvars
  <2>2. QED
    BY <1>3, <2>1
<1>8. ASSUME NEW m \in NodeIds, CallsOnly(m) PROVE agents' = agents
  BY <1>8 DEF CallsOnly, Heartbeat, NumberHeartbeat, CallConflicts, ReportInstanceStatus,
     ReportStatus, NumberStatus, GetPlan, ReadPlanCursor
<1>9. QED
  BY <1>0, <1>3, <1>4, <1>5, <1>6, <1>7, <1>8, StepCases DEF CallStep

\* A status in the log is one its node has been through.
LEMMA LoggedStep ==
    ASSUME NodeInv, [NodeNext]_nvars, NEW i \in 1 .. Len(nlog'), nlog'[i].kind = "status"
    PROVE  nlog'[i].val <= agents'[nlog'[i].node].stat[nlog'[i].id]
<1>1. TypeInv' /\ LogInv'
  BY TypeStep, LogStep
<1>2. nlog'[i] \in Ev /\ EventOK(nlog'[i])
  BY <1>1 DEF TypeInv, LogInv
<1>3. PICK n \in NodeIds, x \in InstanceIds : n = nlog'[i].node /\ x = nlog'[i].id
  BY <1>2 DEF EventOK, Ev
<1>4. nlog'[i].val \in Nat
  BY <1>2 DEF Ev
<1>5. agents[n].stat[x] \in 0 .. 3 /\ agents'[n].stat[x] \in 0 .. 3
  BY <1>1 DEF NodeInv, TypeInv, Agent
<1>6. nlog'[i].val <= agents[n].stat[x]
  <2>1. CASE i \in 1 .. Len(nlog)
    BY <1>3, <2>1, StepKeeps DEF NodeInv, AgentInv
  <2>2. CASE i \notin 1 .. Len(nlog)
    <3>1. PICK u : Grows(u)
      BY <2>2, StaysOrGrows
    <3>2. PICK k \in 1 .. Len(u) : i = Len(nlog) + k
      BY <2>2, <3>1, Growth DEF NodeInv
    <3>3. nlog'[i] = u[k]
      BY <3>1, <3>2, Growth DEF NodeInv
    <3>4. QED
      BY <1>3, <3>1, <3>3 DEF Grows, Extension, ReportOK
  <2>3. QED
    BY <2>1, <2>2
<1>7. QED
  BY <1>3, <1>4, <1>5, <1>6, StatusGrows

LEMMA AgentStep ==
    ASSUME NodeInv, [NodeNext]_nvars
    PROVE  AgentInv'
  BY CallsStep, KnownStep, LoggedStep DEF AgentInv

----------------------------------------------------------------------------
(* Identities.                                                               *)

\* The next address of a pool is one that nobody holds, and it is the new last one.
LEMMA IpamGrows ==
    ASSUME TypeInv, IdInv, NEW pool \in {"node", "instance"}, NEW x \in Nat,
           x = Cardinality(Drawn(pool)) + 1,
           ipam' = ipam \cup {[pool |-> pool, owner |-> x, suffix |-> x]}
    PROVE  /\ IsFiniteSet(ipam')
           /\ \A a \in ipam' : a.owner = a.suffix
                               /\ a.suffix \in 1 .. Cardinality(Drawn(a.pool)')
           /\ ~HeldFor(pool, x)
           /\ \A p, y : HeldFor(p, y) => HeldFor(p, y)'
           /\ HeldFor(pool, x)'
           /\ \A p : p # pool => Cardinality(Drawn(p)') = Cardinality(Drawn(p))
<1> DEFINE row == [pool |-> pool, owner |-> x, suffix |-> x]
<1>1. row.pool = pool /\ row.owner = x /\ row.suffix = x
  OBVIOUS
<1>2. row \notin ipam
  <2>1. \A a \in ipam : a.pool = pool => a.suffix <= Cardinality(Drawn(pool))
    BY DEF IdInv
  <2>2. \A a \in ipam : a.pool = pool => a.suffix # x
    BY <2>1, DrawnFacts DEF IdInv
  <2>3. QED
    BY <1>1, <2>2
<1>3. ~HeldFor(pool, x)
  BY <1>2 DEF HeldFor
<1>4. (\A p, y : HeldFor(p, y) => HeldFor(p, y)') /\ HeldFor(pool, x)'
  BY DEF HeldFor
<1> HIDE DEF row
<1>5. ipam' = ipam \cup {row}
  BY DEF row
<1>6. IsFiniteSet(ipam')
  BY <1>5, FS_AddElement DEF IdInv
<1>7. Drawn(pool)' = Drawn(pool) \cup {row} /\ row \notin Drawn(pool)
  BY <1>1, <1>2, <1>5 DEF Drawn
<1>8. Cardinality(Drawn(pool)') = x
  BY <1>7, DrawnFacts, FS_AddElement
<1>9. ASSUME NEW p, p # pool PROVE Drawn(p)' = Drawn(p)
  BY <1>1, <1>5, <1>9 DEF Drawn
<1>10. ASSUME NEW a \in ipam'
       PROVE  a.owner = a.suffix /\ a.suffix \in 1 .. Cardinality(Drawn(a.pool)')
  <2>1. CASE a = row
    BY <1>1, <1>8, <2>1, DrawnFacts
  <2>2. CASE a \in ipam
    <3>1. a.owner = a.suffix /\ a.suffix \in 1 .. Cardinality(Drawn(a.pool))
      BY <2>2 DEF IdInv
    <3>2. CASE a.pool = pool
      BY <1>8, <3>1, <3>2, DrawnFacts
    <3>3. CASE a.pool # pool
      BY <1>9, <3>1, <3>3
    <3>4. QED
      BY <3>2, <3>3
  <2>3. QED
    BY <1>5, <2>1, <2>2
<1>11. QED
  BY <1>3, <1>4, <1>6, <1>9, <1>10


\* An event that creates something is added by an enrollment or by an allocation.
LEMMA NewCreated ==
    ASSUME NodeInv, [NodeNext]_nvars, NEW j \in 1 .. Len(nlog'), j \notin 1 .. Len(nlog),
           nlog'[j].kind \in Creations
    PROVE  \/ \E e \in Enrollers : AppendEnrolled(e) /\ nlog'[j] = EnrolledEvent(e)
           \/ AppendAllocated /\ nlog'[j] = AllocatedEvent
<1>0. TypeInv
  BY DEF NodeInv
<1>1. ASSUME NEW u, Grows(u), u[1].kind \in Creations \/ \A k \in 1 .. Len(u) : u[k].kind \notin Creations
      PROVE  nlog'[j] = u[1] /\ u[1].kind \in Creations
  <2>1. PICK k \in 1 .. Len(u) : j = Len(nlog) + k
    BY <1>0, <1>1, Growth
  <2>2. nlog'[j] = u[k]
    BY <1>0, <1>1, <2>1, Growth
  <2>3. k = 1
    BY <1>1, <2>2 DEF Grows, Extension
  <2>4. QED
    BY <2>2, <2>3
<1>2. ASSUME NEW b, BatchLands(b) PROVE FALSE
  <2>1. Grows(b) /\ \A k \in 1 .. Len(b) : b[k].kind \notin Creations
    BY <1>2, BatchGrows
  <2>2. Len(b) \in 1 .. 2
    BY <2>1 DEF Grows, Extension
  <2>3. b[1].kind \notin Creations
    BY <2>1, <2>2
  <2>4. QED
    BY <1>1, <2>1, <2>3
<1>3. ASSUME NEW e \in Enrollers, AppendEnrolled(e) PROVE nlog'[j] = EnrolledEvent(e)
  <2>1. EnrolledEvent(e).kind \in Creations
    BY DEF EnrolledEvent, NodeEvent, Creations
  <2>2. <<EnrolledEvent(e)>>[1] = EnrolledEvent(e)
    OBVIOUS
  <2>3. QED
    BY <1>1, <1>3, <2>1, <2>2, EnrolledGrows
<1>4. ASSUME AppendAllocated PROVE nlog'[j] = AllocatedEvent
  <2>1. AllocatedEvent.kind \in Creations
    BY DEF AllocatedEvent, NodeEvent, Creations
  <2>2. <<AllocatedEvent>>[1] = AllocatedEvent
    OBVIOUS
  <2>3. QED
    BY <1>1, <1>4, <2>1, <2>2, AllocatedGrows
<1>5. QED
  BY <1>2, <1>3, <1>4, LogCases

\* So whatever is newly created had its address, in an enrollment or with the scheduler.
LEMMA NewlyCreated ==
    ASSUME NodeInv, [NodeNext]_nvars, NEW a, NEW x, Created(a, x)', ~Created(a, x)
    PROVE  \/ a = "node" /\ \E e \in Enrollers : AppendEnrolled(e) /\ x = enrolls[e].node
           \/ a = "instance" /\ AppendAllocated /\ x = placing.inst
<1>1. PICK j \in 1 .. Len(nlog') :
        nlog'[j].agg = a /\ nlog'[j].id = x /\ nlog'[j].kind \in Creations
  BY DEF Created, Of
<1>2. j \notin 1 .. Len(nlog)
  BY <1>1, StepKeeps DEF Created, Of
<1>3. \A e : EnrolledEvent(e).agg = "node" /\ EnrolledEvent(e).id = enrolls[e].node
  BY DEF EnrolledEvent, NodeEvent
<1>4. AllocatedEvent.agg = "instance" /\ AllocatedEvent.id = placing.inst
  BY DEF AllocatedEvent, NodeEvent
<1>5. QED
  BY <1>1, <1>2, <1>3, <1>4, NewCreated

\* How each step changes the addresses.
LEMMA IpamCases ==
    ASSUME NodeInv, [NodeNext]_nvars
    PROVE  ipam' = ipam \/ (\E e \in Enrollers : AllocateNodeIpv6(e)) \/ AllocateInstanceIpv6
<1>1. ASSUME NEW n \in NodeIds, CallsOnly(n) PROVE ipam' = ipam
  BY <1>1 DEF CallsOnly, Heartbeat, NumberHeartbeat, CallConflicts, ReportInstanceStatus,
     ReportStatus, NumberStatus, GetPlan, ReadPlanCursor
<1>2. CallStep => ipam' = ipam
  BY <1>1 DEF CallStep, AppendCall, CallTimesOut, GuestReady, ApplyPlan
<1>3. EnrollStep => ipam' = ipam \/ \E e \in Enrollers : AllocateNodeIpv6(e)
  BY DEF EnrollStep, CheckEnrollment, AppendEnrolled, EnrollFails
<1>4. PlaceStep => ipam' = ipam \/ AllocateInstanceIpv6
  BY DEF PlaceStep, FindBestNode, AppendAllocated, AllocateFails, AppendDrain, NumberDrain
<1>5. OrphanStep \/ ProjectNode \/ UNCHANGED nvars => ipam' = ipam
  BY DEF OrphanStep, OrphanLands, OrphanVanishes, ProjectNode, nvars
<1>6. QED
  BY <1>2, <1>3, <1>4, <1>5, StepCases DEF NodeInv

\* Taking an address adds the next one of its pool.
LEMMA TakesNext ==
    ASSUME NodeInv
    PROVE  /\ \A e \in Enrollers : AllocateNodeIpv6(e) =>
                \E x \in NodeIds :
                  /\ x = Cardinality(Drawn("node")) + 1
                  /\ ipam' = ipam \cup {[pool |-> "node", owner |-> x, suffix |-> x]}
                  /\ enrolls' = [enrolls EXCEPT ![e] = [@ EXCEPT !.phase = "addressed",
                                                                 !.node = x, !.addr = x]]
           /\ AllocateInstanceIpv6 =>
                \E x \in InstanceIds :
                  /\ x = Cardinality(Drawn("instance")) + 1
                  /\ ipam' = ipam \cup {[pool |-> "instance", owner |-> x, suffix |-> x]}
                  /\ placing' = [placing EXCEPT !.phase = "addressed", !.inst = x, !.addr = x]
<1>1. ASSUME NEW e \in Enrollers, AllocateNodeIpv6(e)
      PROVE  \E x \in NodeIds :
               /\ x = Cardinality(Drawn("node")) + 1
               /\ ipam' = ipam \cup {[pool |-> "node", owner |-> x, suffix |-> x]}
               /\ enrolls' = [enrolls EXCEPT ![e] = [@ EXCEPT !.phase = "addressed",
                                                              !.node = x, !.addr = x]]
  <2>1. PICK x : x = Cardinality(Drawn("node")) + 1
    OBVIOUS
  <2>2. x \in NodeIds
    BY <1>1, <2>1, DrawnFacts, NodeControlAssumption DEF NodeInv, AllocateNodeIpv6, NodeIds
  <2>3. QED
    BY <1>1, <2>1, <2>2 DEF AllocateNodeIpv6, IpamRow, NextSuffix
<1>2. ASSUME AllocateInstanceIpv6
      PROVE  \E x \in InstanceIds :
               /\ x = Cardinality(Drawn("instance")) + 1
               /\ ipam' = ipam \cup {[pool |-> "instance", owner |-> x, suffix |-> x]}
               /\ placing' = [placing EXCEPT !.phase = "addressed", !.inst = x, !.addr = x]
  <2>1. PICK x : x = Cardinality(Drawn("instance")) + 1
    OBVIOUS
  <2>2. Cardinality(Drawn("instance")) < InstanceBound
    BY <1>2 DEF NodeInv, IdInv, AllocateInstanceIpv6
  <2>3. x \in InstanceIds
    BY <2>1, <2>2, DrawnFacts, NodeControlAssumption DEF NodeInv, InstanceIds
  <2>4. QED
    BY <1>2, <2>1, <2>3 DEF AllocateInstanceIpv6, IpamRow, NextSuffix
<1>3. QED
  BY <1>1, <1>2

\* Addresses are drawn in order and never given back.
LEMMA PoolStep ==
    ASSUME NodeInv, [NodeNext]_nvars
    PROVE  /\ IsFiniteSet(ipam')
           /\ \A a \in ipam' : a.owner = a.suffix
                               /\ a.suffix \in 1 .. Cardinality(Drawn(a.pool)')
           /\ \A p, y : HeldFor(p, y) => HeldFor(p, y)'
<1> USE DEF NodeInv
<1>1. CASE ipam' = ipam
  <2>1. \A p : Drawn(p)' = Drawn(p)
    BY <1>1 DEF Drawn
  <2>2. \A p, y : HeldFor(p, y) => HeldFor(p, y)'
    BY <1>1 DEF HeldFor
  <2>3. QED
    BY <1>1, <2>1, <2>2 DEF IdInv
<1>2. ASSUME NEW e \in Enrollers, AllocateNodeIpv6(e)
      PROVE  /\ IsFiniteSet(ipam')
             /\ \A a \in ipam' : a.owner = a.suffix
                                 /\ a.suffix \in 1 .. Cardinality(Drawn(a.pool)')
             /\ \A p, y : HeldFor(p, y) => HeldFor(p, y)'
  <2>1. PICK x \in NodeIds : x = Cardinality(Drawn("node")) + 1
          /\ ipam' = ipam \cup {[pool |-> "node", owner |-> x, suffix |-> x]}
    BY <1>2, TakesNext
  <2>2. x \in Nat
    BY DEF NodeIds
  <2>3. QED
    BY <2>1, <2>2, IpamGrows
<1>3. ASSUME AllocateInstanceIpv6
      PROVE  /\ IsFiniteSet(ipam')
             /\ \A a \in ipam' : a.owner = a.suffix
                                 /\ a.suffix \in 1 .. Cardinality(Drawn(a.pool)')
             /\ \A p, y : HeldFor(p, y) => HeldFor(p, y)'
  <2>1. PICK x \in InstanceIds : x = Cardinality(Drawn("instance")) + 1
          /\ ipam' = ipam \cup {[pool |-> "instance", owner |-> x, suffix |-> x]}
    BY <1>3, TakesNext
  <2>2. x \in Nat
    BY DEF InstanceIds
  <2>3. QED
    BY <2>1, <2>2, IpamGrows
<1>4. QED
  BY <1>1, <1>2, <1>3, IpamCases

\* What an event created has its address.
LEMMA HeldStep ==
    ASSUME NodeInv, [NodeNext]_nvars, NEW j \in 1 .. Len(nlog'), nlog'[j].kind \in Creations
    PROVE  HeldFor(nlog[j].agg, nlog[j].id)'
<1>1. ASSUME NEW p, NEW y, HeldFor(p, y), p = nlog'[j].agg, y = nlog'[j].id
      PROVE  HeldFor(nlog[j].agg, nlog[j].id)'
  <2>1. HeldFor(p, y)'
    BY <1>1, PoolStep
  <2>2. QED
    BY <1>1, <2>1 DEF HeldFor
<1>2. ASSUME j \in 1 .. Len(nlog) PROVE HeldFor(nlog'[j].agg, nlog'[j].id)
  BY <1>2, StepKeeps DEF NodeInv, IdInv
<1>3. ASSUME j \notin 1 .. Len(nlog) PROVE HeldFor(nlog'[j].agg, nlog'[j].id)
  <2>1. ASSUME NEW e \in Enrollers, AppendEnrolled(e), nlog'[j] = EnrolledEvent(e)
        PROVE  HeldFor(nlog'[j].agg, nlog'[j].id)
    BY <2>1 DEF AppendEnrolled, EnrolledEvent, NodeEvent, NodeInv, IdInv
  <2>2. ASSUME AppendAllocated, nlog'[j] = AllocatedEvent
        PROVE  HeldFor(nlog'[j].agg, nlog'[j].id)
    BY <2>2 DEF AppendAllocated, AllocatedEvent, NodeEvent, NodeInv, IdInv
  <2>3. QED
    BY <1>3, <2>1, <2>2, NewCreated
<1>4. HeldFor(nlog'[j].agg, nlog'[j].id)
  BY <1>2, <1>3
<1>5. QED
  BY <1>1, <1>4

\* How each step changes the enrollments: what is addressed was so before, or has just
\* been given its address.
LEMMA EnrollCases ==
    ASSUME NodeInv, [NodeNext]_nvars
    PROVE  \/ \A e \in Enrollers : enrolls'[e].phase = "addressed" => enrolls'[e] = enrolls[e]
           \/ \E e \in Enrollers : AllocateNodeIpv6(e)
<1>0. enrolls \in [Enrollers -> Enroll]
  BY DEF NodeInv, TypeInv
<1>1. ASSUME NEW n \in NodeIds, CallsOnly(n) PROVE enrolls' = enrolls
  BY <1>1 DEF CallsOnly, Heartbeat, NumberHeartbeat, CallConflicts, ReportInstanceStatus,
     ReportStatus, NumberStatus, GetPlan, ReadPlanCursor
<1>2. CallStep => enrolls' = enrolls
  BY <1>1 DEF CallStep, AppendCall, CallTimesOut, GuestReady, ApplyPlan
<1>3. PlaceStep => enrolls' = enrolls
  BY DEF PlaceStep, FindBestNode, AllocateInstanceIpv6, AppendAllocated, AllocateFails,
     AppendDrain, NumberDrain
<1>4. OrphanStep \/ ProjectNode \/ UNCHANGED nvars => enrolls' = enrolls
  BY DEF OrphanStep, OrphanLands, OrphanVanishes, ProjectNode, nvars
<1>5. ASSUME NEW d \in Enrollers, NEW k \in Keys, CheckEnrollment(d, k), NEW e \in Enrollers,
             enrolls'[e].phase = "addressed"
      PROVE  enrolls'[e] = enrolls[e]
  BY <1>0, <1>5 DEF CheckEnrollment, Enroll
<1>6. ASSUME NEW d \in Enrollers, AppendEnrolled(d) \/ EnrollFails(d), NEW e \in Enrollers,
             enrolls'[e].phase = "addressed"
      PROVE  enrolls'[e] = enrolls[e]
  BY <1>0, <1>6 DEF AppendEnrolled, EnrollFails, NoEnroll
<1>7. QED
  BY <1>2, <1>3, <1>4, <1>5, <1>6, StepCases DEF EnrollStep, NodeInv

\* What is being enrolled has an address of its own, which no event names.
LEMMA EnrollsStep ==
    ASSUME NodeInv, [NodeNext]_nvars, NEW e \in Enrollers, enrolls'[e].phase = "addressed"
    PROVE  /\ HeldFor("node", enrolls[e].node)' /\ ~Created("node", enrolls[e].node)'
           /\ enrolls'[e].addr = enrolls'[e].node /\ enrolls'[e].node \in NodeIds
           /\ \A f \in Enrollers \ {e} :
                enrolls'[f].phase = "addressed" => enrolls'[f].node # enrolls'[e].node
<1>0. enrolls \in [Enrollers -> Enroll] /\ TypeInv /\ IdInv
  BY DEF NodeInv, TypeInv
<1>1. ASSUME \A d \in Enrollers : enrolls'[d].phase = "addressed" => enrolls'[d] = enrolls[d]
      PROVE  /\ HeldFor("node", enrolls[e].node)' /\ ~Created("node", enrolls[e].node)'
             /\ enrolls'[e].addr = enrolls'[e].node /\ enrolls'[e].node \in NodeIds
             /\ \A f \in Enrollers \ {e} :
                  enrolls'[f].phase = "addressed" => enrolls'[f].node # enrolls'[e].node
  <2>1. PICK x : x = enrolls[e].node
    OBVIOUS
  <2>2. enrolls'[e].node = x /\ enrolls[e].phase = "addressed" /\ enrolls'[e] = enrolls[e]
    BY <1>1, <2>1
  <2>3. HeldFor("node", x) /\ ~Created("node", x) /\ x \in NodeIds
        /\ \A f \in Enrollers \ {e} : enrolls[f].phase = "addressed" => enrolls[f].node # x
    BY <1>0, <2>1, <2>2 DEF IdInv
  <2>4. HeldFor("node", x)'
    BY <2>3, PoolStep
  <2>5. ~Created("node", x)'
    <3>1. ASSUME NEW d \in Enrollers, AppendEnrolled(d), x = enrolls[d].node PROVE FALSE
      <4>1. d # e
        BY <1>0, <2>2, <3>1 DEF AppendEnrolled, NoEnroll
      <4>2. enrolls[d].phase = "addressed"
        BY <3>1 DEF AppendEnrolled
      <4>3. QED
        BY <2>3, <3>1, <4>1, <4>2
    <3>2. QED
      BY <2>3, <3>1, NewlyCreated
  <2>6. HeldFor("node", enrolls[e].node)' /\ ~Created("node", enrolls[e].node)'
    BY <2>2, <2>4, <2>5 DEF HeldFor, Created, Of
  <2>7. enrolls'[e].addr = enrolls'[e].node
    BY <1>0, <2>2 DEF IdInv
  <2>8. QED
    BY <1>1, <2>2, <2>3, <2>6, <2>7
<1>2. ASSUME NEW d \in Enrollers, AllocateNodeIpv6(d)
      PROVE  /\ HeldFor("node", enrolls[e].node)' /\ ~Created("node", enrolls[e].node)'
             /\ enrolls'[e].addr = enrolls'[e].node /\ enrolls'[e].node \in NodeIds
             /\ \A f \in Enrollers \ {e} :
                  enrolls'[f].phase = "addressed" => enrolls'[f].node # enrolls'[e].node
  <2>1. PICK x \in NodeIds :
          /\ x = Cardinality(Drawn("node")) + 1
          /\ ipam' = ipam \cup {[pool |-> "node", owner |-> x, suffix |-> x]}
          /\ enrolls' = [enrolls EXCEPT ![d] = [@ EXCEPT !.phase = "addressed",
                                                         !.node = x, !.addr = x]]
    BY <1>2, TakesNext
  <2>2. x \in Nat
    BY DEF NodeIds
  <2>3. ~HeldFor("node", x) /\ HeldFor("node", x)'
    BY <1>0, <2>1, <2>2, IpamGrows
  <2>4. nlog' = nlog
    BY <1>2 DEF AllocateNodeIpv6
  <2>5. ~Created("node", x)
    <3>1. SUFFICES ASSUME NEW i \in 1 .. Len(nlog), nlog[i].agg = "node", nlog[i].id = x,
                          nlog[i].kind \in Creations
                   PROVE  FALSE
      BY DEF Created, Of
    <3>2. QED
      BY <1>0, <2>3, <3>1 DEF IdInv
  <2>6. /\ enrolls'[d].node = x /\ enrolls'[d].addr = x /\ enrolls'[d].phase = "addressed"
        /\ \A f \in Enrollers \ {d} : enrolls'[f] = enrolls[f]
    BY <1>0, <2>1 DEF Enroll
  <2>7. \A f \in Enrollers \ {d} : enrolls[f].phase = "addressed" => enrolls[f].node # x
    BY <1>0, <2>3 DEF IdInv
  <2>8. CASE e = d
    <3>1. HeldFor("node", enrolls[e].node)'
      BY <2>3, <2>6, <2>8 DEF HeldFor
    <3>2. ~Created("node", enrolls[e].node)'
      BY <2>4, <2>5, <2>6, <2>8 DEF Created, Of
    <3>3. QED
      BY <2>6, <2>7, <2>8, <3>1, <3>2
  <2>9. CASE e # d
    <3>1. enrolls'[e] = enrolls[e] /\ enrolls[e].phase = "addressed"
      BY <2>6, <2>9
    <3>2. PICK y : y = enrolls[e].node
      OBVIOUS
    <3>3. HeldFor("node", y) /\ ~Created("node", y) /\ y \in NodeIds /\ enrolls[e].addr = y
          /\ \A f \in Enrollers \ {e} : enrolls[f].phase = "addressed" => enrolls[f].node # y
      BY <1>0, <3>1, <3>2 DEF IdInv
    <3>4. HeldFor("node", y)'
      BY <3>3, PoolStep
    <3>5. HeldFor("node", enrolls[e].node)'
      BY <3>1, <3>2, <3>4 DEF HeldFor
    <3>6. ~Created("node", enrolls[e].node)'
      BY <2>4, <3>1, <3>2, <3>3 DEF Created, Of
    <3>7. y # x
      BY <2>7, <2>9, <3>1, <3>2
    <3>8. QED
      BY <2>6, <3>1, <3>2, <3>3, <3>5, <3>6, <3>7
  <2>10. QED
    BY <2>8, <2>9
<1>3. QED
  BY <1>1, <1>2, EnrollCases

\* How each step changes what the scheduler is doing.
LEMMA PlacingCases ==
    ASSUME NodeInv, [NodeNext]_nvars
    PROVE  \/ placing' = placing /\ ~AppendAllocated /\ ~AllocateInstanceIpv6
           \/ placing'.phase \in {"idle", "draining"}
           \/ FindBestNode
           \/ AllocateInstanceIpv6
<1>0. placing \in Placing
  BY DEF NodeInv, TypeInv
<1>1. AppendAllocated \/ AllocateFails \/ AppendDrain => placing'.phase = "idle"
  BY DEF AppendAllocated, AllocateFails, AppendDrain, NoPlacing
<1>2. ASSUME NEW i \in InstanceIds, NumberDrain(i) PROVE placing'.phase = "draining"
  BY <1>2 DEF NumberDrain, NoPlacing
<1>3. ASSUME NEW n \in NodeIds, CallsOnly(n) PROVE placing' = placing
  BY <1>3 DEF CallsOnly, Heartbeat, NumberHeartbeat, CallConflicts, ReportInstanceStatus,
     ReportStatus, NumberStatus, GetPlan, ReadPlanCursor
<1>4. CallStep => placing' = placing
  BY <1>3 DEF CallStep, AppendCall, CallTimesOut, GuestReady, ApplyPlan
<1>5. EnrollStep => placing' = placing
  BY DEF EnrollStep, CheckEnrollment, AllocateNodeIpv6, AppendEnrolled, EnrollFails
<1>6. OrphanStep \/ ProjectNode \/ UNCHANGED nvars => placing' = placing
  BY DEF OrphanStep, OrphanLands, OrphanVanishes, ProjectNode, nvars
<1>7. QED
  BY <1>1, <1>2, <1>4, <1>5, <1>6, StepCases DEF PlaceStep, NodeInv

\* A node is chosen among those of the view, while there is an address left.
LEMMA ChosenNode ==
    ASSUME NodeInv, FindBestNode
    PROVE  /\ placing'.phase = "placed" /\ placing'.node = BestNode.id
           /\ BestNode \in nodes /\ BestNode.id \in NodeIds
           /\ BestNode.available \in 1 .. Capacity
           /\ Cardinality(Drawn("instance")) < InstanceBound
<1>1. BestNode \in Eligible
  BY BestNodeFacts DEF FindBestNode, NodeInv
<1>2. BestNode \in nodes /\ BestNode.available >= 1
  BY <1>1 DEF Eligible
<1>3. BestNode \in NodeRow
  BY <1>2 DEF NodeInv, TypeInv
<1>4. BestNode.id \in NodeIds /\ BestNode.available \in 1 .. Capacity
  BY <1>2, <1>3, NodeControlAssumption DEF NodeRow
<1>5. Cardinality(Drawn("instance")) < InstanceBound
  <2>1. PICK l \in Nat : l = InstanceLimit /\ l <= InstanceBound
    BY NodeControlAssumption DEF InstanceLimit
  <2>2. PICK d \in Nat : d = Cardinality(Drawn("instance"))
    BY DrawnFacts DEF NodeInv
  <2>3. QED
    BY <2>1, <2>2, NodeControlAssumption DEF FindBestNode
<1>6. placing'.phase = "placed" /\ placing'.node = BestNode.id
  BY DEF FindBestNode, NoPlacing
<1>7. QED
  BY <1>2, <1>4, <1>5, <1>6

\* What is being placed has a node, then an address of its own.
LEMMA PlacingStep ==
    ASSUME NodeInv, [NodeNext]_nvars
    PROVE  /\ placing'.phase = "placed" =>
                Cardinality(Drawn("instance")') < InstanceBound /\ placing'.node \in NodeIds
           /\ placing'.phase = "addressed" =>
                /\ HeldFor("instance", placing.inst)' /\ ~Created("instance", placing.inst)'
                /\ placing'.addr = placing'.inst /\ placing'.inst \in InstanceIds
                /\ placing'.node \in NodeIds
<1>0. placing \in Placing /\ TypeInv /\ IdInv
  BY DEF NodeInv, TypeInv
<1> DEFINE Placed1 == placing'.phase = "placed" =>
                Cardinality(Drawn("instance")') < InstanceBound /\ placing'.node \in NodeIds
           Placed2 == placing'.phase = "addressed" =>
                /\ HeldFor("instance", placing.inst)' /\ ~Created("instance", placing.inst)'
                /\ placing'.addr = placing'.inst /\ placing'.inst \in InstanceIds
                /\ placing'.node \in NodeIds
<1>1. ASSUME placing' = placing, ~AppendAllocated, ~AllocateInstanceIpv6
      PROVE  Placed1 /\ Placed2
  <2>1. Cardinality(Drawn("instance")') = Cardinality(Drawn("instance"))
    <3>1. CASE ipam' = ipam
      BY <3>1 DEF Drawn
    <3>2. ASSUME NEW e \in Enrollers, AllocateNodeIpv6(e)
          PROVE  Cardinality(Drawn("instance")') = Cardinality(Drawn("instance"))
      <4>1. PICK x \in NodeIds :
              /\ x = Cardinality(Drawn("node")) + 1
              /\ ipam' = ipam \cup {[pool |-> "node", owner |-> x, suffix |-> x]}
        BY <3>2, TakesNext
      <4>2. x \in Nat
        BY DEF NodeIds
      <4>3. QED
        BY <1>0, <4>1, <4>2, IpamGrows
    <3>3. QED
      BY <1>1, <3>1, <3>2, IpamCases
  <2>2. Placed1
    BY <1>0, <1>1, <2>1 DEF IdInv
  <2>3. PICK x : x = placing.inst
    OBVIOUS
  <2>4. ASSUME placing.phase = "addressed"
        PROVE  HeldFor("instance", placing.inst)' /\ ~Created("instance", placing.inst)'
    <3>1. HeldFor("instance", x) /\ ~Created("instance", x)
      BY <1>0, <2>3, <2>4 DEF IdInv
    <3>2. HeldFor("instance", x)'
      BY <3>1, PoolStep
    <3>3. ~Created("instance", x)'
      BY <1>1, <3>1, NewlyCreated
    <3>4. QED
      BY <1>1, <2>3, <3>2, <3>3 DEF HeldFor, Created, Of
  <2>5. Placed2
    BY <1>0, <1>1, <2>4 DEF IdInv
  <2>6. QED
    BY <2>2, <2>5
<1>2. ASSUME FindBestNode PROVE Placed1 /\ Placed2
  <2>1. Drawn("instance")' = Drawn("instance")
    BY <1>2 DEF FindBestNode, Drawn
  <2>2. QED
    BY <1>2, <2>1, ChosenNode
<1>3. ASSUME AllocateInstanceIpv6 PROVE Placed1 /\ Placed2
  <2>1. PICK x \in InstanceIds :
          /\ x = Cardinality(Drawn("instance")) + 1
          /\ ipam' = ipam \cup {[pool |-> "instance", owner |-> x, suffix |-> x]}
          /\ placing' = [placing EXCEPT !.phase = "addressed", !.inst = x, !.addr = x]
    BY <1>3, TakesNext
  <2>2. x \in Nat
    BY DEF InstanceIds
  <2>3. ~HeldFor("instance", x) /\ HeldFor("instance", x)'
    BY <1>0, <2>1, <2>2, IpamGrows
  <2>4. placing'.phase = "addressed" /\ placing'.inst = x /\ placing'.addr = x
        /\ placing'.node = placing.node
    BY <1>0, <2>1 DEF Placing
  <2>5. placing.node \in NodeIds /\ nlog' = nlog
    BY <1>0, <1>3 DEF AllocateInstanceIpv6, IdInv
  <2>6. ~Created("instance", x)
    <3>1. SUFFICES ASSUME NEW i \in 1 .. Len(nlog), nlog[i].agg = "instance", nlog[i].id = x,
                          nlog[i].kind \in Creations
                   PROVE  FALSE
      BY DEF Created, Of
    <3>2. QED
      BY <1>0, <2>3, <3>1 DEF IdInv
  <2>7. HeldFor("instance", placing.inst)'
    BY <2>3, <2>4 DEF HeldFor
  <2>8. ~Created("instance", placing.inst)'
    BY <2>4, <2>5, <2>6 DEF Created, Of
  <2>9. QED
    BY <2>4, <2>5, <2>7, <2>8
<1>4. QED
  BY <1>1, <1>2, <1>3, PlacingCases

LEMMA IdStep ==
    ASSUME NodeInv, [NodeNext]_nvars
    PROVE  IdInv'
  BY PoolStep, HeldStep, EnrollsStep, PlacingStep DEF IdInv

----------------------------------------------------------------------------
(* Keys.                                                                     *)

\* How each step changes the keys of enrollments.
LEMMA KeyCases ==
    ASSUME NodeInv, [NodeNext]_nvars
    PROVE  \/ \E d \in Enrollers, k \in Keys : CheckEnrollment(d, k)
           \/ /\ keyraced' = keyraced
              /\ \A e \in Enrollers : \/ enrolls'[e] = NoEnroll
                                      \/ /\ enrolls'[e].key = enrolls[e].key
                                         /\ enrolls'[e].phase # "idle" => enrolls[e].phase # "idle"
<1>0. enrolls \in [Enrollers -> Enroll]
  BY DEF NodeInv, TypeInv
<1>1. ASSUME NEW n \in NodeIds, CallsOnly(n) PROVE enrolls' = enrolls /\ keyraced' = keyraced
  BY <1>1 DEF CallsOnly, Heartbeat, NumberHeartbeat, CallConflicts, ReportInstanceStatus,
     ReportStatus, NumberStatus, GetPlan, ReadPlanCursor
<1>2. CallStep => enrolls' = enrolls /\ keyraced' = keyraced
  BY <1>1 DEF CallStep, AppendCall, CallTimesOut, GuestReady, ApplyPlan
<1>3. PlaceStep => enrolls' = enrolls /\ keyraced' = keyraced
  BY DEF PlaceStep, FindBestNode, AllocateInstanceIpv6, AppendAllocated, AllocateFails,
     AppendDrain, NumberDrain
<1>4. OrphanStep \/ ProjectNode \/ UNCHANGED nvars => enrolls' = enrolls /\ keyraced' = keyraced
  BY DEF OrphanStep, OrphanLands, OrphanVanishes, ProjectNode, nvars
<1>5. ASSUME NEW d \in Enrollers, AllocateNodeIpv6(d)
      PROVE  /\ keyraced' = keyraced
             /\ \A e \in Enrollers : enrolls'[e].key = enrolls[e].key
                     /\ (enrolls'[e].phase # "idle" => enrolls[e].phase # "idle")
  <2>1. PICK x : enrolls' = [enrolls EXCEPT ![d] = [@ EXCEPT !.phase = "addressed",
                                                             !.node = x, !.addr = x]]
    BY <1>5, TakesNext
  <2>2. QED
    BY <1>0, <1>5, <2>1 DEF AllocateNodeIpv6, Enroll
<1>6. ASSUME NEW d \in Enrollers, AppendEnrolled(d) \/ EnrollFails(d)
      PROVE  /\ keyraced' = keyraced
             /\ \A e \in Enrollers : enrolls'[e] = NoEnroll \/ enrolls'[e] = enrolls[e]
  BY <1>0, <1>6 DEF AppendEnrolled, EnrollFails
<1>7. QED
  BY <1>2, <1>3, <1>4, <1>5, <1>6, StepCases DEF EnrollStep, NodeInv

\* A new enrolled event has the key of an enrollment that ends with it.
LEMMA NewKey ==
    ASSUME NodeInv, [NodeNext]_nvars, NEW j \in 1 .. Len(nlog'), NEW k, Enrolled(j, k)'
    PROVE  \/ j \in 1 .. Len(nlog) /\ Enrolled(j, k)
           \/ j = Len(nlog) + 1 /\ \E e \in Enrollers :
                AppendEnrolled(e) /\ enrolls[e].key = k /\ enrolls[e].phase # "idle"
                /\ enrolls'[e] = NoEnroll
<1>1. nlog'[j].kind = "enrolled" /\ nlog'[j].name = k
  BY DEF Enrolled
<1>2. CASE j \in 1 .. Len(nlog)
  BY <1>1, <1>2, StepKeeps DEF Enrolled
<1>3. CASE j \notin 1 .. Len(nlog)
  <2>1. AllocatedEvent.kind = "allocated"
    BY DEF AllocatedEvent, NodeEvent
  <2>2. PICK e \in Enrollers : AppendEnrolled(e) /\ nlog'[j] = EnrolledEvent(e)
    BY <1>1, <1>3, <2>1, NewCreated DEF Creations
  <2>3. enrolls[e].key = k /\ enrolls[e].phase # "idle"
    BY <1>1, <2>2 DEF EnrolledEvent, NodeEvent, AppendEnrolled
  <2>4. enrolls'[e] = NoEnroll
    BY <2>2 DEF AppendEnrolled, NodeInv, TypeInv
  <2>5. j = Len(nlog) + 1
    <3>1. PICK u : Grows(u) /\ Len(u) = 1
      <4>1. Grows(<<EnrolledEvent(e)>>)
        BY <2>2, EnrolledGrows
      <4>2. Len(<<EnrolledEvent(e)>>) = 1
        OBVIOUS
      <4>3. QED
        BY <4>1, <4>2
    <3>2. TypeInv
      BY DEF NodeInv
    <3>3. PICK m \in 1 .. Len(u) : j = Len(nlog) + m
      BY <1>3, <3>1, <3>2, Growth
    <3>4. QED
      BY <3>1, <3>3
  <2>6. QED
    BY <2>2, <2>3, <2>4, <2>5
<1>4. QED
  BY <1>2, <1>3

LEMMA KeyStep ==
    ASSUME NodeInv, [NodeNext]_nvars
    PROVE  KeyInv'
<1>0. enrolls \in [Enrollers -> Enroll] /\ KeyInv /\ ViewInv /\ TypeInv
  BY DEF NodeInv, TypeInv
<1>1. ASSUME NEW d \in Enrollers, NEW k \in Keys, CheckEnrollment(d, k) PROVE KeyInv'
  <2>1. /\ nlog' = nlog
        /\ enrolls'[d].key = k /\ enrolls'[d].phase = "checked"
        /\ \A e \in Enrollers \ {d} : enrolls'[e] = enrolls[e]
    BY <1>0, <1>1 DEF CheckEnrollment, Enroll
  <2>2. keyraced \subseteq keyraced'
    BY <1>1 DEF CheckEnrollment
  <2>3. ASSUME k \notin keyraced'
        PROVE  /\ \A f \in Enrollers : enrolls[f].key # k
               /\ \A i \in 1 .. Len(nlog) : ~Enrolled(i, k)
    <3>1. /\ \A f \in Enrollers : enrolls[f].key # k
          /\ \A i \in (ndone + 1) .. Len(nlog) : ~Enrolled(i, k)
      BY <1>1, <2>3 DEF CheckEnrollment, Enrolled
    <3>2. \A i \in 1 .. ndone : ~Enrolled(i, k)
      BY <1>0, <1>1 DEF CheckEnrollment, KeyInUse, ViewInv, Enrolled
    <3>3. \A i \in 1 .. Len(nlog) : i \in 1 .. ndone \/ i \in (ndone + 1) .. Len(nlog)
      BY <1>0 DEF TypeInv
    <3>4. QED
      BY <3>1, <3>2, <3>3
  <2>4. \A i, y : Enrolled(i, y)' <=> Enrolled(i, y)
    BY <2>1 DEF Enrolled
  <2>5. ASSUME NEW e \in Enrollers, enrolls'[e].phase # "idle"
        PROVE  /\ enrolls'[e].key \in Keys
               /\ enrolls'[e].key \notin keyraced' =>
                    /\ \A f \in Enrollers \ {e} : enrolls'[f].key # enrolls'[e].key
                    /\ \A i \in 1 .. Len(nlog') : ~Enrolled(i, enrolls[e].key)'
    <3>1. CASE e = d
      <4>1. ASSUME k \notin keyraced', NEW i \in 1 .. Len(nlog') PROVE ~Enrolled(i, enrolls[e].key)'
        BY <2>1, <2>3, <3>1, <4>1 DEF Enrolled
      <4>2. QED
        BY <2>1, <2>3, <3>1, <4>1
    <3>2. CASE e # d
      <4>1. enrolls'[e] = enrolls[e] /\ enrolls[e].key \in Keys /\ enrolls[e].phase # "idle"
        BY <1>0, <2>1, <2>5, <3>2 DEF KeyInv
      <4>2. ASSUME enrolls'[e].key \notin keyraced'
            PROVE  /\ \A f \in Enrollers \ {e} : enrolls'[f].key # enrolls'[e].key
                   /\ \A i \in 1 .. Len(nlog) : ~Enrolled(i, enrolls[e].key)
        <5>1. /\ \A f \in Enrollers \ {e} : enrolls[f].key # enrolls[e].key
              /\ \A i \in 1 .. Len(nlog) : ~Enrolled(i, enrolls[e].key)
          BY <1>0, <2>2, <4>1, <4>2 DEF KeyInv
        <5>2. enrolls[e].key # k
          BY <2>3, <4>1, <4>2
        <5>3. QED
          BY <2>1, <4>1, <5>1, <5>2
      <4>3. ASSUME enrolls'[e].key \notin keyraced', NEW i \in 1 .. Len(nlog')
            PROVE  ~Enrolled(i, enrolls[e].key)'
        BY <2>1, <4>1, <4>2, <4>3 DEF Enrolled
      <4>4. QED
        BY <4>1, <4>2, <4>3
    <3>3. QED
      BY <3>1, <3>2
  <2>6. \A i, j \in 1 .. Len(nlog') : \A y \in Keys \ keyraced' :
          Enrolled(i, y)' /\ Enrolled(j, y)' => i = j
    BY <1>0, <2>1, <2>2, <2>4 DEF KeyInv
  <2>7. QED
    BY <2>5, <2>6 DEF KeyInv
<1>2. ASSUME keyraced' = keyraced,
             \A e \in Enrollers : \/ enrolls'[e] = NoEnroll
                                  \/ /\ enrolls'[e].key = enrolls[e].key
                                     /\ enrolls'[e].phase # "idle" => enrolls[e].phase # "idle"
      PROVE  KeyInv'
  <2>1. NoEnroll.phase = "idle" /\ NoEnroll.key = None
    BY DEF NoEnroll
  <2>2. ASSUME NEW e \in Enrollers, enrolls'[e].phase # "idle"
        PROVE  /\ enrolls'[e].key \in Keys
               /\ enrolls'[e].key \notin keyraced' =>
                    /\ \A f \in Enrollers \ {e} : enrolls'[f].key # enrolls'[e].key
                    /\ \A i \in 1 .. Len(nlog') : ~Enrolled(i, enrolls[e].key)'
    <3>1. enrolls'[e].key = enrolls[e].key /\ enrolls[e].phase # "idle"
      BY <1>2, <2>1, <2>2
    <3>2. PICK y \in Keys : y = enrolls[e].key
      BY <1>0, <3>1 DEF KeyInv
    <3>3. ASSUME y \notin keyraced
          PROVE  /\ \A f \in Enrollers \ {e} : enrolls[f].key # y
                 /\ \A i \in 1 .. Len(nlog) : ~Enrolled(i, y)
      BY <1>0, <3>1, <3>2, <3>3 DEF KeyInv
    <3>4. ASSUME y \notin keyraced, NEW f \in Enrollers \ {e} PROVE enrolls'[f].key # y
      BY <1>2, <2>1, <3>3, <3>4, NodeControlAssumption
    <3>5. ASSUME y \notin keyraced, NEW i \in 1 .. Len(nlog') PROVE ~Enrolled(i, y)'
      <4>1. ASSUME NEW f \in Enrollers, enrolls[f].key = y, enrolls'[f] = NoEnroll PROVE FALSE
        BY <2>1, <2>2, <3>3, <3>5, <4>1
      <4>2. QED
        BY <3>3, <3>5, <4>1, NewKey
    <3>6. ASSUME y \notin keyraced, NEW i \in 1 .. Len(nlog')
          PROVE  ~Enrolled(i, enrolls[e].key)'
      BY <3>1, <3>2, <3>5, <3>6 DEF Enrolled
    <3>7. QED
      BY <1>2, <3>1, <3>2, <3>4, <3>6
  <2>3. ASSUME NEW i \in 1 .. Len(nlog'), NEW j \in 1 .. Len(nlog'), NEW y \in Keys \ keyraced',
               Enrolled(i, y)', Enrolled(j, y)'
        PROVE  i = j
    <3>1. ASSUME NEW f \in Enrollers, enrolls[f].key = y, enrolls[f].phase # "idle"
          PROVE  \A m \in 1 .. Len(nlog) : ~Enrolled(m, y)
      BY <1>0, <1>2, <3>1 DEF KeyInv
    <3>2. CASE i \in 1 .. Len(nlog) /\ Enrolled(i, y) /\ j \in 1 .. Len(nlog) /\ Enrolled(j, y)
      BY <1>0, <1>2, <3>2 DEF KeyInv
    <3>3. QED
      BY <2>3, <3>1, <3>2, NewKey
  <2>4. QED
    BY <2>2, <2>3 DEF KeyInv
<1>3. QED
  BY <1>1, <1>2, KeyCases

----------------------------------------------------------------------------
(* The views.                                                                *)

\* How each step changes the views.
LEMMA ViewCases ==
    ASSUME NodeInv, [NodeNext]_nvars
    PROVE  ProjectNode \/ (ndone' = ndone /\ nodes' = nodes /\ instances' = instances)
<1>1. ASSUME NEW n \in NodeIds, CallsOnly(n)
      PROVE  ndone' = ndone /\ nodes' = nodes /\ instances' = instances
  BY <1>1 DEF CallsOnly, Heartbeat, NumberHeartbeat, CallConflicts, ReportInstanceStatus,
     ReportStatus, NumberStatus, GetPlan, ReadPlanCursor
<1>2. CallStep => ndone' = ndone /\ nodes' = nodes /\ instances' = instances
  BY <1>1 DEF CallStep, AppendCall, CallTimesOut, GuestReady, ApplyPlan
<1>3. PlaceStep => ndone' = ndone /\ nodes' = nodes /\ instances' = instances
  BY DEF PlaceStep, FindBestNode, AllocateInstanceIpv6, AppendAllocated, AllocateFails,
     AppendDrain, NumberDrain
<1>4. EnrollStep => ndone' = ndone /\ nodes' = nodes /\ instances' = instances
  BY DEF EnrollStep, CheckEnrollment, AllocateNodeIpv6, AppendEnrolled, EnrollFails
<1>5. OrphanStep \/ UNCHANGED nvars => ndone' = ndone /\ nodes' = nodes /\ instances' = instances
  BY DEF OrphanStep, OrphanLands, OrphanVanishes, nvars
<1>6. QED
  BY <1>2, <1>3, <1>4, <1>5, StepCases DEF NodeInv

\* The event that is projected next is the only one to create what it creates, and no row
\* has its id yet.
LEMMA NextEvent ==
    ASSUME NodeInv, ProjectNode
    PROVE  /\ ndone + 1 \in 1 .. Len(nlog) /\ ndone' = ndone + 1 /\ nlog' = nlog
           /\ nlog[ndone + 1] \in Ev /\ EventOK(nlog[ndone + 1])
           /\ nlog[ndone + 1].kind = "enrolled" => \A r \in nodes : r.id # nlog[ndone + 1].id
           /\ nlog[ndone + 1].kind = "allocated" =>
                \A r \in instances : r.id # nlog[ndone + 1].id
<1> USE DEF NodeInv
<1>1. /\ ndone + 1 \in 1 .. Len(nlog) /\ ndone' = ndone + 1 /\ nlog' = nlog /\ ndone \in Nat
      /\ \A i \in 1 .. ndone : i \in 1 .. Len(nlog) /\ i # ndone + 1
  BY DEF ProjectNode, TypeInv
<1>2. nlog[ndone + 1] \in Ev /\ EventOK(nlog[ndone + 1])
  BY <1>1, LogBasics DEF LogInv
<1>3. ASSUME nlog[ndone + 1].kind = "enrolled", NEW r \in nodes
      PROVE  r.id # nlog[ndone + 1].id
  <2>1. PICK i \in 1 .. ndone : nlog[i].kind = "enrolled" /\ nlog[i].id = r.id
    BY DEF ViewInv
  <2>2. nlog[i].agg = nlog[ndone + 1].agg
    BY <1>1, <1>3, <2>1, CreationAggregates
  <2>3. QED
    BY <1>1, <1>3, <2>1, <2>2, CreatedOnce DEF Creations
<1>4. ASSUME nlog[ndone + 1].kind = "allocated", NEW r \in instances
      PROVE  r.id # nlog[ndone + 1].id
  <2>1. PICK i \in 1 .. ndone : nlog[i].kind = "allocated" /\ nlog[i].id = r.id
    BY DEF ViewInv
  <2>2. nlog[i].agg = nlog[ndone + 1].agg
    BY <1>1, <1>4, <2>1, CreationAggregates
  <2>3. QED
    BY <1>1, <1>4, <2>1, <2>2, CreatedOnce DEF Creations
<1>5. QED
  BY <1>1, <1>2, <1>3, <1>4

\* What projecting an event does to the rows of nodes.
LEMMA NodeRowsAfter ==
    ASSUME NodeInv, ProjectNode
    PROVE  LET e == nlog[ndone + 1]
           IN  \/ nodes' = nodes /\ e.kind # "enrolled"
               \/ nodes' = nodes \cup {EnrolledRow(e.id, e.name, e.addr)} /\ e.kind = "enrolled"
               \/ /\ e.kind # "enrolled"
                  /\ \A s \in nodes' : \E r \in nodes : s.id = r.id /\ s.key = r.key
                  /\ \A r \in nodes : \E s \in nodes' : s.id = r.id /\ s.key = r.key
                  /\ \A s, t \in nodes' : s.id = t.id => s = t
<1> DEFINE e == nlog[ndone + 1]
           F(r) == IF r.id # e.id THEN r
                   ELSE IF e.kind = "capacity" THEN [r EXCEPT !.available = e.val]
                   ELSE [r EXCEPT !.state = e.name]
<1>1. nodes \subseteq NodeRow /\ e \in Ev /\ EventOK(e)
  BY NextEvent DEF NodeInv, TypeInv
<1>2. CASE e.agg # "node"
  BY <1>1, <1>2 DEF ProjectNode, EventOK
<1>3. CASE e.agg = "node" /\ e.kind = "enrolled"
  BY <1>3 DEF ProjectNode, NodesAfter
<1>4. ASSUME e.agg = "node", e.kind # "enrolled"
      PROVE  /\ \A s \in nodes' : \E r \in nodes : s.id = r.id /\ s.key = r.key
             /\ \A r \in nodes : \E s \in nodes' : s.id = r.id /\ s.key = r.key
             /\ \A s, t \in nodes' : s.id = t.id => s = t
  <2>1. nodes' = {F(r) : r \in nodes}
    BY <1>4 DEF ProjectNode, NodesAfter
  <2>2. \A r \in nodes : F(r).id = r.id /\ F(r).key = r.key
    BY <1>1 DEF NodeRow
  <2> HIDE DEF F
  <2>3. \A r, t \in nodes : r.id = t.id => r = t
    BY DEF NodeInv, ViewInv
  <2>4. QED
    BY <2>1, <2>2, <2>3
<1>5. QED
  BY <1>2, <1>3, <1>4

\* What projecting an event does to the rows of instances: a draining row stays draining.
LEMMA InstanceRowsAfter ==
    ASSUME NodeInv, ProjectNode
    PROVE  LET e == nlog[ndone + 1]
           IN  \/ instances' = instances /\ e.kind # "allocated"
               \/ instances' = instances \cup {AllocatedRow(e)} /\ e.kind = "allocated"
               \/ /\ e.kind # "allocated"
                  /\ \A s \in instances' : \E r \in instances :
                       s.id = r.id /\ s.node = r.node
                       /\ (r.desired = "draining" => s.desired = "draining")
                  /\ \A r \in instances : \E s \in instances' : s.id = r.id
                  /\ \A s, t \in instances' : s.id = t.id => s = t
<1> DEFINE e == nlog[ndone + 1]
           F(r) == IF r.id # e.id THEN r
                   ELSE IF e.kind = "draining" THEN [r EXCEPT !.desired = "draining"]
                   ELSE [r EXCEPT !.status = e.val]
<1>1. instances \subseteq InstanceRow /\ e \in Ev /\ EventOK(e)
  BY NextEvent DEF NodeInv, TypeInv
<1>2. CASE e.agg # "instance"
  BY <1>1, <1>2 DEF ProjectNode, EventOK, Ev
<1>3. CASE e.agg = "instance" /\ e.kind = "allocated"
  BY <1>3 DEF ProjectNode, InstancesAfter
<1>4. ASSUME e.agg = "instance", e.kind # "allocated"
      PROVE  /\ \A s \in instances' : \E r \in instances :
                  s.id = r.id /\ s.node = r.node
                  /\ (r.desired = "draining" => s.desired = "draining")
             /\ \A r \in instances : \E s \in instances' : s.id = r.id
             /\ \A s, t \in instances' : s.id = t.id => s = t
  <2>1. instances' = {F(r) : r \in instances}
    BY <1>4 DEF ProjectNode, InstancesAfter
  <2>2. \A r \in instances : F(r).id = r.id /\ F(r).node = r.node
          /\ (r.desired = "draining" => F(r).desired = "draining")
    BY <1>1 DEF InstanceRow
  <2> HIDE DEF F
  <2>3. \A r, t \in instances : r.id = t.id => r = t
    BY DEF NodeInv, ViewInv
  <2>4. QED
    BY <2>1, <2>2, <2>3
<1>5. QED
  BY <1>2, <1>3, <1>4

LEMMA ViewStep ==
    ASSUME NodeInv, [NodeNext]_nvars
    PROVE  ViewInv'
<1>0. TypeInv /\ ViewInv
  BY DEF NodeInv
<1>1. CASE ndone' = ndone /\ nodes' = nodes /\ instances' = instances
  <2>1. \A i \in 1 .. ndone : nlog'[i] = nlog[i]
    BY <1>0, StepKeeps DEF TypeInv
  <2>2. QED
    BY <1>0, <1>1, <2>1 DEF ViewInv
<1>2. CASE ProjectNode
  <2> DEFINE e == nlog[ndone + 1]
  <2>1. /\ ndone' = ndone + 1 /\ nlog' = nlog /\ ndone \in Nat /\ e \in Ev
        /\ ndone + 1 \in 1 .. ndone'
        /\ \A i \in 1 .. ndone : i \in 1 .. ndone'
        /\ \A i \in 1 .. ndone' : i \in 1 .. ndone \/ i = ndone + 1
    BY <1>0, <1>2, NextEvent DEF TypeInv
  <2>2. /\ e.kind = "enrolled" => \A r \in nodes : r.id # e.id
        /\ e.kind = "allocated" => \A r \in instances : r.id # e.id
    BY <1>2, NextEvent
  <2>3. /\ EnrolledRow(e.id, e.name, e.addr).id = e.id
        /\ EnrolledRow(e.id, e.name, e.addr).key = e.name
        /\ AllocatedRow(e).id = e.id /\ AllocatedRow(e).node = e.node
    BY DEF EnrolledRow, AllocatedRow
  <2>4. \/ nodes' = nodes /\ e.kind # "enrolled"
        \/ nodes' = nodes \cup {EnrolledRow(e.id, e.name, e.addr)} /\ e.kind = "enrolled"
        \/ /\ e.kind # "enrolled"
           /\ \A s \in nodes' : \E r \in nodes : s.id = r.id /\ s.key = r.key
           /\ \A r \in nodes : \E s \in nodes' : s.id = r.id /\ s.key = r.key
           /\ \A s, t \in nodes' : s.id = t.id => s = t
    BY <1>2, NodeRowsAfter
  <2>5. \/ instances' = instances /\ e.kind # "allocated"
        \/ instances' = instances \cup {AllocatedRow(e)} /\ e.kind = "allocated"
        \/ /\ e.kind # "allocated"
           /\ \A s \in instances' : \E r \in instances : s.id = r.id /\ s.node = r.node
           /\ \A s, t \in instances' : s.id = t.id => s = t
    BY <1>2, InstanceRowsAfter
  <2>6. \A s \in nodes' : \E i \in 1 .. ndone' : nlog'[i].kind = "enrolled" /\ nlog'[i].id = s.id
    BY <1>0, <2>1, <2>3, <2>4 DEF ViewInv
  <2>7. ASSUME NEW i \in 1 .. ndone', nlog'[i].kind = "enrolled"
        PROVE  \E s \in nodes' : s.id = nlog'[i].id /\ s.key = nlog'[i].name
    <3>1. CASE i = ndone + 1
      BY <2>1, <2>3, <2>4, <2>7, <3>1
    <3>2. CASE i \in 1 .. ndone
      <4>1. PICK r \in nodes : r.id = nlog[i].id /\ r.key = nlog[i].name
        BY <1>0, <2>1, <2>7, <3>2 DEF ViewInv
      <4>2. QED
        BY <2>1, <2>4, <4>1
    <3>3. QED
      BY <2>1, <3>1, <3>2
  <2>8. \A s, t \in nodes' : s.id = t.id => s = t
    BY <1>0, <2>2, <2>3, <2>4 DEF ViewInv
  <2>9. \A s \in instances' : \E i \in 1 .. ndone' :
          nlog'[i].kind = "allocated" /\ nlog'[i].id = s.id /\ nlog'[i].node = s.node
    BY <1>0, <2>1, <2>3, <2>5 DEF ViewInv
  <2>10. \A s, t \in instances' : s.id = t.id => s = t
    BY <1>0, <2>2, <2>3, <2>5 DEF ViewInv
  <2>11. QED
    BY <2>6, <2>7, <2>8, <2>9, <2>10 DEF ViewInv
<1>3. QED
  BY <1>1, <1>2, ViewCases

----------------------------------------------------------------------------
(* The invariant.                                                            *)

\* The nodes a scene begins with are numbered from one.
LEMMA InitialScene ==
    ASSUME NodeInit
    PROVE  \E m \in 0 .. NodeBound, k \in Keys :
             /\ InitialNodes(scene) = 1 .. m
             /\ nlog = [n \in 1 .. m |-> NodeEvent("node", n, 1, "enrolled", n, n, k, 0)]
             /\ nodes = {EnrolledRow(n, k, n) : n \in 1 .. m}
             /\ m > 1 => k \in keyraced
<1>1. PICK k \in Keys :
        /\ nlog = [n \in InitialNodes(scene) |-> NodeEvent("node", n, 1, "enrolled", n, n, k, 0)]
        /\ nodes = {EnrolledRow(n, k, n) : n \in InitialNodes(scene)}
  BY DEF NodeInit
<1>2. CASE scene = "enroll"
  <2>1. InitialNodes(scene) = 1 .. 0 /\ 0 \in 0 .. NodeBound
    BY <1>2, NodeControlAssumption DEF InitialNodes
  <2>2. QED
    BY <1>1, <2>1
<1>3. CASE scene = "pick"
  <2>1. InitialNodes(scene) = 1 .. NodeBound /\ NodeBound \in 0 .. NodeBound
    BY <1>3, NodeControlAssumption DEF InitialNodes, NodeIds
  <2>2. k \in keyraced
    BY <1>3 DEF NodeInit
  <2>3. QED
    BY <1>1, <2>1, <2>2
<1>4. CASE scene \in {"place", "report"}
  <2>1. InitialNodes(scene) = 1 .. 1 /\ 1 \in 0 .. NodeBound
    BY <1>4, NodeControlAssumption DEF InitialNodes
  <2>2. QED
    BY <1>1, <2>1
<1>5. QED
  BY <1>2, <1>3, <1>4 DEF NodeInit

LEMMA InitEstablishes == NodeInit => NodeInv
<1> SUFFICES ASSUME NodeInit PROVE NodeInv
  OBVIOUS
<1>1. PICK m \in 0 .. NodeBound, k \in Keys :
        /\ InitialNodes(scene) = 1 .. m
        /\ nlog = [n \in 1 .. m |-> NodeEvent("node", n, 1, "enrolled", n, n, k, 0)]
        /\ nodes = {EnrolledRow(n, k, n) : n \in 1 .. m}
        /\ m > 1 => k \in keyraced
  BY InitialScene
<1> DEFINE E(n) == NodeEvent("node", n, 1, "enrolled", n, n, k, 0)
<1>2. m \in Nat /\ 1 .. m \subseteq NodeIds /\ 1 .. m \subseteq Nat
  BY <1>1, NodeControlAssumption DEF NodeIds
<1>3. /\ \A n \in 1 .. m : E(n) \in Ev /\ EventOK(E(n))
      /\ \A n : /\ E(n).agg = "node" /\ E(n).id = n /\ E(n).seq = 1 /\ E(n).addr = n
                /\ E(n).kind = "enrolled" /\ E(n).name = k
  <2>1. \A n : /\ E(n).agg = "node" /\ E(n).id = n /\ E(n).seq = 1 /\ E(n).addr = n
               /\ E(n).kind = "enrolled" /\ E(n).name = k
    BY DEF NodeEvent
  <2>2. \A n \in 1 .. m : E(n) \in Ev
    BY <1>2 DEF NodeEvent, Ev
  <2> HIDE DEF E
  <2>3. \A n \in 1 .. m : EventOK(E(n))
    BY <1>2, <2>1 DEF EventOK, Creations
  <2>4. QED
    BY <2>1, <2>2, <2>3
<1> HIDE DEF E
<1>4. /\ nlog \in Seq(Ev) /\ Len(nlog) = m
      /\ \A i \in 1 .. m : nlog[i] = E(i)
  <2>1. nlog = [n \in 1 .. m |-> E(n)]
    BY <1>1 DEF E
  <2>2. QED
    BY <1>2, <1>3, <2>1
<1>5. ndone = m /\ ipam = {[pool |-> "node", owner |-> n, suffix |-> n] : n \in 1 .. m}
  BY <1>1, <1>4 DEF NodeInit
<1>6. TypeInv
  <2>1. nodes \subseteq NodeRow
    BY <1>1, <1>2, NodeControlAssumption DEF EnrolledRow, NodeRow, NodeStates
  <2>2. ipam \subseteq [pool : {"node", "instance"}, owner : Nat, suffix : Nat]
    BY <1>2, <1>5
  <2>3. enrolls \in [Enrollers -> Enroll]
    BY DEF NodeInit, NoEnroll, Enroll
  <2>4. placing \in Placing
    BY NoPlacingType DEF NodeInit
  <2>5. calls \in [NodeIds -> [Loops -> Call]]
    BY NoCallType DEF NodeInit, Loops
  <2>6. agents \in [NodeIds -> Agent]
    BY DEF NodeInit, NewAgent, Agent
  <2>7. instances \subseteq InstanceRow /\ orphans \subseteq Seq(Ev) /\ timeouts \in Nat
        /\ keyraced \subseteq Keys
    BY DEF NodeInit
  <2>8. QED
    BY <1>2, <1>4, <1>5, <2>1, <2>2, <2>3, <2>4, <2>5, <2>6, <2>7 DEF TypeInv
<1>7. LogInv
  <2>1. \A n \in 1 .. m : Of("node", n) = {n} /\ LatestNodeSeq("node", n) = 1
    <3>1. ASSUME NEW n \in 1 .. m PROVE Of("node", n) = {n}
      BY <1>3, <1>4 DEF Of
    <3>2. ASSUME NEW n \in 1 .. m PROVE LatestNodeSeq("node", n) = 1
      <4>1. Cardinality({n}) = 1
        BY FS_Singleton
      <4>2. LatestNodeSeq("node", n) = Cardinality(Of("node", n))
        BY DEF LatestNodeSeq, Of
      <4>3. QED
        BY <3>1, <4>1, <4>2
    <3>3. QED
      BY <3>1, <3>2
  <2>2. \A n \in 1 .. m : Created("node", n)
    BY <1>3, <1>4, <2>1 DEF Created, Creations
  <2>3. ASSUME NEW a \in {"node", "instance"}, NEW x \in Nat,
               NEW j \in 1 .. LatestNodeSeq(a, x)
        PROVE  \E i \in Of(a, x) : nlog[i].seq = j
    <3>1. Of(a, x) # {}
      <4>1. SUFFICES ASSUME Of(a, x) = {} PROVE FALSE
        OBVIOUS
      <4>2. LatestNodeSeq(a, x) = 0
        BY <1>6, <4>1, LogBasics, FS_EmptySet
      <4>3. QED
        BY <2>3, <4>2
    <3>2. PICK i \in 1 .. m : nlog[i].agg = a /\ nlog[i].id = x
      BY <1>4, <3>1 DEF Of
    <3>3. a = "node" /\ x = i
      BY <1>3, <1>4, <3>2
    <3>4. LatestNodeSeq(a, x) = 1 /\ Of(a, x) = {i}
      BY <2>1, <3>3
    <3>5. j = 1 /\ nlog[i].seq = 1
      BY <1>3, <1>4, <2>3, <3>4
    <3>6. QED
      BY <3>4, <3>5
  <2>4. ReportsInOrder
    BY <1>3, <1>4 DEF ReportsInOrder
  <2>5. ASSUME NEW i \in 1 .. Len(nlog)
        PROVE  /\ EventOK(nlog[i])
               /\ Created(nlog[i].agg, nlog[i].id)
               /\ nlog[i].seq \in 1 .. LatestNodeSeq(nlog[i].agg, nlog[i].id)
               /\ nlog[i].kind = "status" => AllocatedOn(nlog[i].id, nlog[i].node)
    BY <1>3, <1>4, <2>1, <2>2
  <2>6. QED
    BY <2>3, <2>4, <2>5 DEF LogInv
<1>8. PendInv
  <2>1. \A n \in NodeIds, t \in Loops : calls[n][t].batch = <<>>
    BY DEF NodeInit, NoCall, Loops
  <2>2. orphans = {} /\ placing.phase = "idle"
    BY DEF NodeInit, NoPlacing
  <2>3. QED
    BY <2>1, <2>2 DEF PendInv, Pending
<1>9. AgentInv
  <2>1. \A n \in NodeIds, t \in Loops : CallOK(n, t)
    <3>1. \A n \in NodeIds, t \in Loops : calls[n][t] = NoCall
      BY DEF NodeInit, Loops
    <3>2. NoCall.phase = "idle" /\ NoCall.kind = "" /\ NoCall.rows = {}
      BY DEF NoCall
    <3>3. QED
      BY <3>1, <3>2 DEF CallOK
  <2>2. \A n \in NodeIds : agents[n].held = {}
          /\ \A x \in InstanceIds : agents[n].stat[x] = 0
    BY DEF NodeInit, NewAgent
  <2>3. \A i \in 1 .. Len(nlog) : nlog[i].kind # "status"
    BY <1>3, <1>4
  <2>4. QED
    BY <2>1, <2>2, <2>3 DEF AgentInv
<1>10. IdInv
  <2>1. Drawn("node") = ipam
    BY <1>5 DEF Drawn
  <2>2. IsFiniteSet(ipam) /\ Cardinality(ipam) = m
    <3>1. IsFiniteSet(1 .. m) /\ Cardinality(1 .. m) = m
      BY <1>2, FS_Interval
    <3> DEFINE row == [n \in 1 .. m |-> [pool |-> "node", owner |-> n, suffix |-> n]]
    <3>2. row \in Bijection(1 .. m, ipam)
      <4>1. \A n \in 1 .. m : row[n].owner = n
        OBVIOUS
      <4>2. ipam = {row[n] : n \in 1 .. m}
        BY <1>5
      <4>3. row \in [1 .. m -> ipam]
        BY <1>5
      <4> HIDE DEF row
      <4>4. QED
        BY <4>1, <4>2, <4>3 DEF Bijection, Injection, Surjection, IsInjective
    <3>3. PICK S : S = 1 .. m
      OBVIOUS
    <3>4. ExistsBijection(S, ipam)
      BY <3>2, <3>3 DEF ExistsBijection
    <3>5. QED
      BY <3>1, <3>3, <3>4, FS_Bijection
  <2>3. \A a \in ipam : a.owner = a.suffix /\ a.suffix \in 1 .. Cardinality(Drawn(a.pool))
    BY <1>5, <2>1, <2>2
  <2>4. \A i \in 1 .. Len(nlog) : HeldFor(nlog[i].agg, nlog[i].id)
    BY <1>3, <1>4, <1>5 DEF HeldFor
  <2>5. \A e \in Enrollers : enrolls[e].phase = "idle"
    BY DEF NodeInit, NoEnroll
  <2>6. placing.phase = "idle"
    BY DEF NodeInit, NoPlacing
  <2>7. QED
    BY <2>2, <2>3, <2>4, <2>5, <2>6 DEF IdInv
<1>11. KeyInv
  <2>1. \A e \in Enrollers : enrolls[e].phase = "idle"
    BY DEF NodeInit, NoEnroll
  <2>2. ASSUME NEW i \in 1 .. Len(nlog), NEW j \in 1 .. Len(nlog), NEW y \in Keys \ keyraced,
               Enrolled(i, y), Enrolled(j, y)
        PROVE  i = j
    <3>1. y = k
      BY <1>3, <1>4, <2>2 DEF Enrolled
    <3>2. ~(m > 1)
      BY <1>1, <3>1
    <3>3. QED
      BY <1>2, <1>4, <3>2
  <2>3. QED
    BY <2>1, <2>2 DEF KeyInv
<1>12. ViewInv
  <2>1. \A n : EnrolledRow(n, k, n).id = n /\ EnrolledRow(n, k, n).key = k
    BY DEF EnrolledRow
  <2>2. instances = {}
    BY DEF NodeInit
  <2>3. \A i \in 1 .. ndone : nlog[i].kind = "enrolled" /\ nlog[i].id = i /\ nlog[i].name = k
    BY <1>3, <1>4, <1>5
  <2>4. \A r \in nodes : \E n \in 1 .. m : r = EnrolledRow(n, k, n) /\ r.id = n
    BY <1>1, <2>1
  <2>5. \A n \in 1 .. m : EnrolledRow(n, k, n) \in nodes
    BY <1>1
  <2>6. \A r \in nodes : \E i \in 1 .. ndone : nlog[i].kind = "enrolled" /\ nlog[i].id = r.id
    BY <1>5, <2>3, <2>4
  <2>7. \A i \in 1 .. ndone : \E r \in nodes : r.id = nlog[i].id /\ r.key = nlog[i].name
    BY <1>5, <2>1, <2>3, <2>5
  <2>8. \A r, s \in nodes : r.id = s.id => r = s
    BY <2>4
  <2>9. QED
    BY <2>2, <2>6, <2>7, <2>8 DEF ViewInv
<1>13. QED
  BY <1>6, <1>7, <1>8, <1>9, <1>10, <1>11, <1>12 DEF NodeInv

LEMMA StepPreserves == NodeInv /\ [NodeNext]_nvars => NodeInv'
  BY TypeStep, LogStep, PendStep, AgentStep, IdStep, KeyStep, ViewStep DEF NodeInv

\* The inductive invariant holds throughout, for every number of nodes, instances, enrolling
\* clients and keys, of events and of timeouts.
THEOREM NodeInvariant == NodeSpec => []NodeInv
  BY InitEstablishes, StepPreserves, PTL DEF NodeSpec

----------------------------------------------------------------------------
(* What follows from it.                                                     *)

\* The log, the views, the agents and the two histories have their types.
THEOREM NodeTypeCorrect == NodeSpec => []NodeTypeOK
<1>1. NodeInv => NodeTypeOK
  <2> SUFFICES ASSUME NodeInv PROVE NodeTypeOK
    OBVIOUS
  <2>1. TypeInv
    BY DEF NodeInv
  <2>2. nlog \in Seq([agg : {"node", "instance"}, id : Nat, seq : Nat, node : Nat, addr : Nat,
                      kind : {"enrolled", "capacity", "state", "allocated", "draining", "status"},
                      name : Keys \cup NodeStates \cup {None}, val : Nat])
    BY <2>1 DEF TypeInv, Ev
  <2>3. QED
    BY <2>1, <2>2 DEF NodeTypeOK, TypeInv, NodeRow, InstanceRow, Agent
<1>2. QED
  BY <1>1, NodeInvariant, PTL

\* Nodes and instances have addresses and ids of their own, each address is held for its
\* owner in ipam_nodes or ipam_instances, and a WireGuard key is with two nodes only if it
\* was checked (enroll_node) while the other enrollment was under way: a failed enrollment
\* or allocation never gives its address to anyone else.
THEOREM IdentitiesAreUnique == NodeSpec => []IdentitiesUnique
<1>1. NodeInv => IdentitiesUnique
  <2> SUFFICES ASSUME NodeInv, NEW k \in {"enrolled", "allocated"},
                      NEW i \in EventsOfKind(k), NEW j \in EventsOfKind(k)
               PROVE  /\ \E a \in ipam : a.owner = nlog[i].id /\ a.suffix = nlog[i].addr
                                         /\ a.pool = nlog[i].agg
                      /\ i # j => /\ nlog[i].addr # nlog[j].addr
                                  /\ nlog[i].id # nlog[j].id
                                  /\ k = "enrolled" /\ nlog[i].name = nlog[j].name =>
                                       nlog[i].name \in keyraced
    BY DEF IdentitiesUnique
  <2>1. i \in 1 .. Len(nlog) /\ j \in 1 .. Len(nlog) /\ nlog[i].kind = k /\ nlog[j].kind = k
    BY DEF EventsOfKind
  <2>2. TypeInv /\ LogInv /\ IdInv /\ KeyInv /\ k \in Creations
    BY DEF NodeInv, Creations
  <2>3. EventOK(nlog[i]) /\ EventOK(nlog[j])
    BY <2>1, <2>2 DEF LogInv
  <2>4. nlog[i].addr = nlog[i].id /\ nlog[j].addr = nlog[j].id
        /\ (k = "enrolled" => nlog[i].name \in Keys)
    BY <2>1, <2>2, <2>3 DEF EventOK
  <2>5. HeldFor(nlog[i].agg, nlog[i].id)
    BY <2>1, <2>2 DEF IdInv
  <2>6. nlog[i].agg = nlog[j].agg
    BY <2>1, <2>2, CreationAggregates
  <2>7. i # j => nlog[i].id # nlog[j].id
    BY <2>1, <2>2, <2>6, CreatedOnce
  <2>8. i # j /\ k = "enrolled" /\ nlog[i].name = nlog[j].name => nlog[i].name \in keyraced
    BY <2>1, <2>2, <2>4 DEF KeyInv, Enrolled
  <2>9. \E a \in ipam : a.owner = nlog[i].id /\ a.suffix = nlog[i].addr /\ a.pool = nlog[i].agg
    BY <2>4, <2>5 DEF HeldFor
  <2>10. QED
    BY <2>4, <2>7, <2>8, <2>9
<1>2. QED
  BY <1>1, NodeInvariant, PTL

\* The events of every node and instance enter the log in the order of their numbers, and
\* the statuses of an instance in the order its node went through them, however often a
\* report timed out and was executed after its repetition.
THEOREM ReportsStayInOrder == NodeSpec => []ReportsInOrder
<1>1. NodeInv => ReportsInOrder
  BY DEF NodeInv, LogInv
<1>2. QED
  BY <1>1, NodeInvariant, PTL

\* An instance that is shown draining is shown so for good: InstancesProjection writes a
\* status beside the desired state, which goes from running to draining and never back.
THEOREM DrainingIsForGood == NodeSpec => ShownDrainingForGood
<1>1. ASSUME NodeInv, [NodeNext]_nvars, NEW i \in InstanceIds, "draining" \in GetEnvInstance(i)
      PROVE  GetEnvInstance(i)' = {"draining"}
  <2>1. PICK r \in instances : r.id = i /\ InstanceStatusShown(r) = "draining"
    BY <1>1 DEF GetEnvInstance, RowOfInstance
  <2>2. r \in InstanceRow
    BY <1>1 DEF NodeInv, TypeInv
  <2>3. r.desired = "draining"
    <3>1. SUFFICES ASSUME r.desired # "draining" PROVE FALSE
      OBVIOUS
    <3>2. r.desired = "running" /\ r.status \in 0 .. 3
      BY <2>2, <3>1 DEF InstanceRow
    <3>3. StatusName(r.status) = "draining"
      BY <2>1, <3>2 DEF InstanceStatusShown
    <3>4. r.status = 0 \/ r.status = 1 \/ r.status = 2 \/ r.status = 3
      BY <3>2
    <3>5. StatusName(0) # "draining" /\ StatusName(1) # "draining" /\ StatusName(2) # "draining"
          /\ StatusName(3) # "draining"
      BY DEF StatusName
    <3>6. QED
      BY <3>3, <3>4, <3>5
  <2>4. \A s, t \in instances : s.id = t.id => s = t
    BY <1>1 DEF NodeInv, ViewInv
  <2>5. (\E s \in instances' : s.id = i) /\ \A s \in instances' : s.id = i => s.desired = "draining"
    <3>1. CASE instances' = instances
      BY <2>1, <2>3, <2>4, <3>1
    <3>2. CASE ProjectNode
      <4> DEFINE e == nlog[ndone + 1]
      <4>1. e.kind = "allocated" => \A s \in instances : s.id # e.id
        BY <1>1, <3>2, NextEvent
      <4>2. AllocatedRow(e).id = e.id
        BY DEF AllocatedRow
      <4>3. \/ instances' = instances
            \/ instances' = instances \cup {AllocatedRow(e)} /\ e.kind = "allocated"
            \/ /\ \A s \in instances' : \E q \in instances :
                    s.id = q.id /\ (q.desired = "draining" => s.desired = "draining")
               /\ \A q \in instances : \E s \in instances' : s.id = q.id
        BY <1>1, <3>2, InstanceRowsAfter
      <4> HIDE DEF e
      <4>4. QED
        BY <2>1, <2>3, <2>4, <4>1, <4>2, <4>3
    <3>3. QED
      BY <1>1, <3>1, <3>2, ViewCases
  <2>6. \A s \in instances' : s.desired = "draining" => InstanceStatusShown(s) = "draining"
    BY DEF InstanceStatusShown
  <2>7. GetEnvInstance(i)' = {InstanceStatusShown(s) : s \in {t \in instances' : t.id = i}}
    BY DEF GetEnvInstance, RowOfInstance, InstanceStatusShown
  <2>8. QED
    BY <2>5, <2>6, <2>7
<1>2. NodeInv /\ [NodeNext]_nvars =>
        [\A i \in InstanceIds : "draining" \in GetEnvInstance(i) =>
            GetEnvInstance(i)' = {"draining"}]_nvars
  BY <1>1
<1>3. QED
  BY <1>2, NodeInvariant, PTL DEF NodeSpec, ShownDrainingForGood

----------------------------------------------------------------------------
(* What the reads answer.                                                    *)

\* The rank of a number in a set: how many members are smaller.
Below(A, i) == {j \in A : j < i}

\* The members of a finite set below one of them are fewer than all.
LEMMA RankFacts ==
    ASSUME NEW A, A \subseteq Nat, IsFiniteSet(A), NEW i \in A
    PROVE  /\ Cardinality(A) \in Nat
           /\ IsFiniteSet(Below(A, i)) /\ Cardinality(Below(A, i)) \in Nat
           /\ Cardinality(Below(A, i)) < Cardinality(A)
<1>1. Below(A, i) \in SUBSET A /\ i \notin Below(A, i)
  BY DEF Below
<1>2. Below(A, i) # A
  BY <1>1
<1>3. IsFiniteSet(Below(A, i)) /\ Cardinality(Below(A, i)) <= Cardinality(A)
  BY <1>1, FS_Subset
<1>4. Cardinality(A) # Cardinality(Below(A, i))
  BY <1>1, <1>2, FS_Subset
<1>5. Cardinality(A) \in Nat /\ Cardinality(Below(A, i)) \in Nat
  BY <1>3, FS_CardinalityType
<1> QED
  BY <1>3, <1>4, <1>5

\* Ranks are ordered as the members are.
LEMMA RankGrows ==
    ASSUME NEW A, A \subseteq Nat, IsFiniteSet(A), NEW i \in A, NEW j \in A
    PROVE  Cardinality(Below(A, i)) < Cardinality(Below(A, j)) <=> i < j
<1>1. ASSUME NEW x \in A, NEW y \in A, x < y
      PROVE  Cardinality(Below(A, x)) < Cardinality(Below(A, y))
  <2>1. x \in Nat /\ y \in Nat
    OBVIOUS
  <2>7. \A z \in A : z \in Nat /\ (z < x => z < y)
    BY <1>1, <2>1
  <2>8. Below(A, x) \in SUBSET Below(A, y)
    BY <2>7 DEF Below
  <2>9. x \in Below(A, y) /\ x \notin Below(A, x)
    BY <1>1, <2>1 DEF Below
  <2>2. Below(A, x) \in SUBSET Below(A, y) /\ x \in Below(A, y) /\ x \notin Below(A, x)
    BY <2>8, <2>9
  <2>3. Below(A, x) # Below(A, y)
    BY <2>2
  <2>4. IsFiniteSet(Below(A, y))
    BY RankFacts
  <2>5. /\ Cardinality(Below(A, x)) <= Cardinality(Below(A, y))
        /\ Cardinality(Below(A, y)) # Cardinality(Below(A, x))
    BY <2>2, <2>3, <2>4, FS_Subset
  <2>6. Cardinality(Below(A, x)) \in Nat /\ Cardinality(Below(A, y)) \in Nat
    BY RankFacts
  <2> QED
    BY <2>5, <2>6
<1>2. i \in Nat /\ j \in Nat
  OBVIOUS
<1>3. Cardinality(Below(A, i)) \in Nat /\ Cardinality(Below(A, j)) \in Nat
  BY RankFacts
<1>4. i < j \/ i = j \/ j < i
  BY <1>2
<1>5. CASE i < j
  BY <1>1, <1>5
<1>6. CASE i = j
  BY <1>2, <1>3, <1>6
<1>7. CASE j < i
  <2>1. Cardinality(Below(A, j)) < Cardinality(Below(A, i))
    BY <1>1, <1>7
  <2> QED
    BY <1>2, <1>3, <1>7, <2>1
<1> QED
  BY <1>4, <1>5, <1>6, <1>7

\* Members have different ranks.
LEMMA RankDistinct ==
    ASSUME NEW A, A \subseteq Nat, IsFiniteSet(A), NEW i \in A, NEW j \in A,
           Cardinality(Below(A, i)) = Cardinality(Below(A, j))
    PROVE  i = j
<1>1. Cardinality(Below(A, i)) \in Nat /\ i \in Nat /\ j \in Nat
  BY RankFacts
<1>2. Cardinality(Below(A, i)) < Cardinality(Below(A, j)) <=> i < j
  BY RankGrows
<1>3. Cardinality(Below(A, j)) < Cardinality(Below(A, i)) <=> j < i
  BY RankGrows
<1> QED
  BY <1>1, <1>2, <1>3

\* Every rank below the size of the set is taken.
LEMMA RankTaken ==
    ASSUME NEW A, A \subseteq Nat, IsFiniteSet(A), NEW k \in Nat, k < Cardinality(A)
    PROVE  \E i \in A : Cardinality(Below(A, i)) = k
<1>1. Cardinality(A) \in Nat
  BY FS_CardinalityType
<1>2. PICK n : n = Cardinality(A) - 1
  OBVIOUS
<1>3. n \in Nat /\ n + 1 = Cardinality(A)
  BY <1>1, <1>2
<1>4. PICK f : f = [i \in A |-> Cardinality(Below(A, i))]
  OBVIOUS
<1>5. ASSUME NEW i \in A PROVE Cardinality(Below(A, i)) \in 0 .. n
  <2>1. Cardinality(Below(A, i)) \in Nat /\ Cardinality(Below(A, i)) < Cardinality(A)
    BY RankFacts
  <2> QED
    BY <1>3, <2>1
<1>6. f \in [A -> 0 .. n]
  BY <1>4, <1>5
<1>7. ASSUME NEW i \in A, NEW j \in A, f[i] = f[j] PROVE i = j
  <2>1. Cardinality(Below(A, i)) = Cardinality(Below(A, j))
    BY <1>4, <1>7
  <2> QED
    BY <2>1, RankDistinct
<1>8. f \in Injection(A, 0 .. n)
  BY <1>6, <1>7 DEF Injection, IsInjective
<1>9. IsFiniteSet(0 .. n) /\ Cardinality(0 .. n) = n + 1
  <2>1. 0 \in Int /\ n \in Int /\ ~(0 > n) /\ (n - 0) + 1 = n + 1
    BY <1>3
  <2>2. IsFiniteSet(0 .. n) /\ Cardinality(0 .. n) = IF 0 > n THEN 0 ELSE (n - 0) + 1
    BY <2>1, FS_Interval
  <2> QED
    BY <2>1, <2>2
<1>10. f \in Surjection(A, 0 .. n)
  BY <1>3, <1>8, <1>9, FS_Injection
<1>11. k \in 0 .. n
  BY <1>1, <1>3
<1>12. PICK i \in A : f[i] = k
  BY <1>10, <1>11 DEF Surjection
<1> QED
  BY <1>4, <1>12

\* The members of a set with a rank below n.
Lowest(A, n) == {i \in A : Cardinality(Below(A, i)) < n}

\* The members of the lowest ranks.
LEMMA LowestFacts ==
    ASSUME NEW A, A \subseteq Nat, IsFiniteSet(A), NEW n \in Nat
    PROVE  /\ IsFiniteSet(Lowest(A, n)) /\ Lowest(A, n) \subseteq A
           /\ \A i \in Lowest(A, n), j \in A : j < i => j \in Lowest(A, n)
           /\ Lowest(A, n) # A => Cardinality(Lowest(A, n)) = n
<1>1. Lowest(A, n) \in SUBSET A
  BY DEF Lowest
<1>2. IsFiniteSet(Lowest(A, n))
  BY <1>1, FS_Subset
<1>3. ASSUME NEW i \in Lowest(A, n), NEW j \in A, j < i PROVE j \in Lowest(A, n)
  <2>1. i \in A /\ Cardinality(Below(A, i)) < n
    BY DEF Lowest
  <2>2. Cardinality(Below(A, j)) < Cardinality(Below(A, i))
    BY <1>3, <2>1, RankGrows
  <2>3. Cardinality(Below(A, j)) \in Nat /\ Cardinality(Below(A, i)) \in Nat
    BY <2>1, RankFacts
  <2>4. Cardinality(Below(A, j)) < n
    BY <2>1, <2>2, <2>3
  <2> QED
    BY <2>4 DEF Lowest
<1>4. ASSUME Lowest(A, n) # A PROVE Cardinality(Lowest(A, n)) = n
  <2>1. PICK i \in A : ~(Cardinality(Below(A, i)) < n)
    BY <1>4 DEF Lowest
  <2>2. Cardinality(Below(A, i)) \in Nat /\ Cardinality(Below(A, i)) < Cardinality(A) /\ Cardinality(A) \in Nat
    BY RankFacts
  <2>3. n < Cardinality(A)
    BY <2>1, <2>2
  <2>4. PICK x \in A : Cardinality(Below(A, x)) = n
    BY <2>3, RankTaken
  <2>5. ASSUME NEW j \in A PROVE j < x <=> Cardinality(Below(A, j)) < n
    BY <2>4, RankGrows
  <2>6. Lowest(A, n) = Below(A, x)
    BY <2>5 DEF Lowest, Below
  <2> QED
    BY <2>4, <2>6
<1> QED
  BY <1>1, <1>2, <1>3, <1>4

\* A page skips nothing: what lies past the cursor is on it or past its next cursor.
LEMMA PageSkipsNothing ==
    ASSUME NEW A, A \subseteq Nat, IsFiniteSet(A), NEW c \in Nat, NEW k \in Nat \ {0}, NEW n \in A, n > c
    PROVE  n \in Page(A, c, k).items \/ Page(A, c, k).next \in c + 1 .. n - 1
<1>1. PICK B : B = {i \in A : i > c}
  OBVIOUS
<1>2. PICK F : F = Lowest(B, k)
  OBVIOUS
<1>3. PICK p : p = Page(A, c, k)
  OBVIOUS
<1>4. F = {i \in B : Cardinality({j \in B : j < i}) < k}
  BY <1>2 DEF Lowest, Below
<1>5. p.items = F /\ p.next = IF Cardinality(F) = k THEN CHOOSE i \in F : \A j \in F : j <= i ELSE None
  BY <1>1, <1>3, <1>4 DEF Page
<1>6. B \in SUBSET A /\ B \subseteq Nat /\ n \in B
  BY <1>1
<1>7. IsFiniteSet(B)
  BY <1>6, FS_Subset
<1>8. /\ IsFiniteSet(F) /\ F \subseteq B /\ (\A i \in F, j \in B : j < i => j \in F)
      /\ F # B => Cardinality(F) = k
  BY <1>2, <1>6, <1>7, LowestFacts
<1>9. SUFFICES ASSUME n \notin F PROVE p.next \in c + 1 .. n - 1
  BY <1>3, <1>5
<1>10. Cardinality(F) = k
  BY <1>6, <1>8, <1>9
<1>11. \A i \in F : i \in Nat /\ i > c /\ i < n
  <2>1. ASSUME NEW i \in F PROVE i \in Nat /\ i > c /\ i < n
    <3>1. i \in Nat /\ i > c /\ n \in Nat
      BY <1>1, <1>6, <1>8
    <3>2. ~(n < i) /\ n # i
      BY <1>6, <1>8, <1>9
    <3> QED
      BY <3>1, <3>2
  <2> QED
    BY <2>1
<1>12. \E i \in F : \A j \in F : j <= i
  <2>1. F \subseteq Nat /\ k - 1 \in Nat /\ k - 1 < Cardinality(F)
    BY <1>10, <1>11
  <2>2. PICK i \in F : Cardinality(Below(F, i)) = k - 1
    BY <1>8, <2>1, RankTaken
  <2>3. ASSUME NEW j \in F PROVE j <= i
    <3>1. Cardinality(Below(F, j)) \in Nat /\ Cardinality(Below(F, j)) < k
      BY <1>8, <1>10, <2>1, RankFacts
    <3>2. ~(Cardinality(Below(F, i)) < Cardinality(Below(F, j)))
      BY <2>2, <3>1
    <3>3. ~(i < j)
      BY <1>8, <2>1, <3>2, RankGrows
    <3> QED
      BY <1>11, <3>3
  <2> QED
    BY <2>3
<1>13. p.next \in F
  BY <1>5, <1>10, <1>12
<1> QED
  BY <1>6, <1>11, <1>13

\* Each instance gets the mounts of its own environment and process type, although the query
\* asks for all environments and all process types of the plan at once.
LEMMA MountsAreItsOwn ==
    \A insts, as : \A i \in insts :
        W!MountsFor(W!LoadVolumeMounts(insts, as), i)
          = {a.volume : a \in {b \in as : b.env = i.env /\ b.ptype = i.ptype /\ ~b.deleted}}
<1>0. TAKE insts, as
<1>a. TAKE i \in insts
<1>1. PICK R : R = {a \in as : /\ ~a.deleted
                               /\ a.env \in {j.env : j \in insts}
                               /\ a.ptype \in {j.ptype : j \in insts}}
  OBVIOUS
<1>2. PICK m : m = W!LoadVolumeMounts(insts, as)
  OBVIOUS
<1>3. m = [k \in {<<a.env, a.ptype>> : a \in R} |-> {a.volume : a \in {b \in R : <<b.env, b.ptype>> = k}}]
  BY <1>1, <1>2 DEF W!LoadVolumeMounts
<1>4. PICK k : k = <<i.env, i.ptype>>
  OBVIOUS
<1>5. PICK B : B = {b \in as : b.env = i.env /\ b.ptype = i.ptype /\ ~b.deleted}
  OBVIOUS
<1>6. B = {b \in R : <<b.env, b.ptype>> = k}
  BY <1>1, <1>4, <1>5
<1>7. ASSUME k \in DOMAIN m PROVE W!MountsFor(m, i) = {a.volume : a \in B}
  <2>1. m[k] = {a.volume : a \in B}
    BY <1>3, <1>6, <1>7
  <2> QED
    BY <1>4, <1>7, <2>1 DEF W!MountsFor
<1>8. ASSUME k \notin DOMAIN m PROVE W!MountsFor(m, i) = {a.volume : a \in B}
  <2>1. B = {}
    BY <1>3, <1>6, <1>8
  <2> QED
    BY <1>4, <1>8, <2>1 DEF W!MountsFor
<1>9. W!MountsFor(m, i) = {a.volume : a \in B}
  BY <1>7, <1>8
<1> QED
  BY <1>2, <1>5, <1>9

\* The digest of an image for a node: its architecture's, or the only one.
LEMMA DigestChosen ==
    ASSUME NEW entries \in DigestLists, NEW arch \in Archs \cup {None}, NEW d,
           d = W!SelectResolvedDigest(entries, arch)
    PROVE  /\ d \in Archs \cup {None}
           /\ d # None => \E i \in 1 .. Len(entries) : entries[i] = d
           /\ (\E i \in 1 .. Len(entries) : entries[i] = arch) => d = arch /\ arch # None
           /\ Len(entries) > 1 /\ d # None => d = arch
<1>1. None \notin Archs
  BY NullAssumption
<1>2. \A i \in 1 .. Len(entries) : entries[i] \in Archs
  BY DEF DigestLists, Archs
<1>3. Len(entries) \in Nat
  BY DEF DigestLists
<1>4. CASE arch # None /\ \E i \in 1 .. Len(entries) : entries[i] = arch
  <2>1. d = arch
    BY <1>4 DEF W!SelectResolvedDigest
  <2> QED
    BY <1>4, <2>1
<1>5. CASE ~(arch # None /\ \E i \in 1 .. Len(entries) : entries[i] = arch)
  <2>1. d = IF Len(entries) = 1 THEN entries[1] ELSE None
    BY <1>5 DEF W!SelectResolvedDigest
  <2>2. ~\E i \in 1 .. Len(entries) : entries[i] = arch
    BY <1>1, <1>2, <1>5
  <2>3. CASE Len(entries) = 1
    <3>1. 1 \in 1 .. Len(entries) /\ d = entries[1]
      BY <2>1, <2>3
    <3> QED
      BY <1>2, <2>2, <2>3, <3>1
  <2>4. CASE Len(entries) # 1
    BY <2>1, <2>2, <2>4
  <2> QED
    BY <2>3, <2>4
<1> QED
  BY <1>4, <1>5

\* Over HTTP and over gRPC an instance is assigned the same workload, with an image its release has.
LEMMA AssignmentsAgree ==
    ASSUME instances \subseteq InstanceRow, NEW row \in RowsAsked, NEW a, a = W!AssignmentFromRow(row)
    PROVE  /\ W!AssignmentFromProto(W!GrpcAssignmentFromRow(row)) = a
           /\ a.workload.image.resolved \in {row.digests[i] : i \in 1 .. Len(row.digests)} \cup {"index"}
           /\ (\E i \in 1 .. Len(row.digests) : row.digests[i] = row.arch)
                => a.workload.image.resolved = row.arch
           /\ Len(row.digests) > 1 /\ a.workload.image.resolved # "index"
                => a.workload.image.resolved = row.arch
<1>0. PICK r \in instances, digests \in DigestLists, ms \in {<<>>, <<"volume">>}, arch \in Archs \cup {None} :
          row = W!PlanRow(r.id, r.desired, digests, None, r.addr, None, ms, arch, None)
  BY DEF RowsAsked
<1>a. PICK id, desired, addr : id = r.id /\ desired = r.desired /\ addr = r.addr
  OBVIOUS
<1>b. desired \in {"running", "draining"} /\ addr \in Nat
  BY <1>a DEF InstanceRow
<1>c. row = W!PlanRow(id, desired, digests, None, addr, None, ms, arch, None)
  BY <1>0, <1>a
<1>1. /\ row.id = id /\ row.desired = desired /\ row.digests = digests /\ row.secrets = None
      /\ row.addr = addr /\ row.memory = None /\ row.mounts = ms /\ row.arch = arch /\ row.mtu = None
  BY <1>c DEF W!PlanRow
<1>2. PICK d : d = W!SelectResolvedDigest(digests, arch)
  OBVIOUS
<1>3. /\ d \in Archs \cup {None}
      /\ d # None => \E i \in 1 .. Len(digests) : digests[i] = d
      /\ (\E i \in 1 .. Len(digests) : digests[i] = arch) => d = arch /\ arch # None
      /\ Len(digests) > 1 /\ d # None => d = arch
  BY <1>2, DigestChosen
<1>4. W!GrpcSelectResolvedDigest(digests, arch) = d
  BY <1>2 DEF W!GrpcSelectResolvedDigest, W!SelectResolvedDigest
<1>5. PICK im : im = [resolved |-> W!OrDefault(d, "index"),
                      arch |-> W!OrDefault(d, W!OrDefault(arch, W!DefaultArch)),
                      index |-> IF d = None THEN None ELSE "index"]
  OBVIOUS
<1>6. W!WorkloadImageFromRow(row) = im /\ W!GrpcWorkloadImageFromRow(row) = im
  BY <1>1, <1>2, <1>4, <1>5 DEF W!WorkloadImageFromRow, W!GrpcWorkloadImageFromRow
<1>7. im.resolved = IF d = None THEN "index" ELSE d
  BY <1>5 DEF W!OrDefault
<1>8. PICK g : g = W!GrpcWorkloadSpecFromRow(row)
  OBVIOUS
<1>9. PICK ad : ad = W!OrDefault(addr, 1)
  OBVIOUS
<1>10. g = [image |-> im, resources |-> [memory |-> 1], mounts |-> ms, secrets |-> None, addr |-> ad,
            mtu |-> 1420]
  BY <1>1, <1>6, <1>8, <1>9
     DEF W!GrpcWorkloadSpecFromRow, W!GrpcResourcesFromSnapshot, W!OrDefault, W!DefaultMtu
<1>11. PICK w : w = W!WorkloadSpecFromRow(row)
  OBVIOUS
<1>12. w = [image |-> im, resources |-> [memory |-> 1], mounts |-> IF ms = <<>> THEN None ELSE ms,
            secrets |-> None, addr |-> ad, mtu |-> 1420]
  BY <1>1, <1>6, <1>9, <1>11
     DEF W!WorkloadSpecFromRow, W!ResourcesFromSnapshot, W!OrDefault, W!DefaultMtu
<1>13. g # None
  <2>1. im \in [resolved : Archs \cup {"index"}, arch : Archs, index : {None, "index"}]
    <3>1. W!OrDefault(d, "index") \in Archs \cup {"index"}
      BY <1>3 DEF W!OrDefault
    <3>2. W!OrDefault(arch, W!DefaultArch) \in Archs
      BY DEF W!OrDefault, W!DefaultArch, Archs
    <3>3. W!OrDefault(d, W!OrDefault(arch, W!DefaultArch)) \in Archs
      BY <1>3, <3>2 DEF W!OrDefault
    <3>4. (IF d = None THEN None ELSE "index") \in {None, "index"}
      OBVIOUS
    <3> QED
      BY <1>5, <3>1, <3>3, <3>4
  <2>2. ms \in Seq({"volume"})
    <3>1. <<>> \in Seq({"volume"}) /\ <<"volume">> \in Seq({"volume"})
      OBVIOUS
    <3> QED
      BY <3>1
  <2>3. ad \in Nat
    BY <1>9, <1>b DEF W!OrDefault
  <2>4. [memory |-> 1] \in [memory : Nat] /\ 1420 \in Nat /\ None \in {None}
    OBVIOUS
  <2>5. g \in WorkloadSpecs
    BY <1>10, <2>1, <2>2, <2>3, <2>4 DEF WorkloadSpecs
  <2> QED
    BY <2>5, NullAssumption
<1>14. PICK gr : gr = IF desired = "draining" THEN W!DefaultDrainGrace ELSE None
  OBVIOUS
<1>15. a = [inst |-> id, desired |-> desired, grace |-> gr, workload |-> w]
  BY <1>1, <1>11, <1>14, <1>b DEF W!AssignmentFromRow, W!RequiresWorkload
<1>16. PICK b : b = W!GrpcAssignmentFromRow(row)
  OBVIOUS
<1>17. b = [inst |-> id, desired |-> desired, grace |-> gr, workload |-> g]
  BY <1>1, <1>8, <1>14, <1>16, <1>b DEF W!GrpcAssignmentFromRow, W!RequiresWorkload, W!DesiredToProto
<1>18. W!WorkloadFromProto(g) = w
  BY <1>10, <1>12 DEF W!WorkloadFromProto
<1>19. W!AssignmentFromProto(b) = a
  <2>1. W!DesiredFromProto(b.desired) = desired
    BY <1>17, <1>b DEF W!DesiredFromProto
  <2>2. b.workload = g /\ b.desired = desired
    BY <1>17
  <2>3. W!AssignmentFromProto(b) = [b EXCEPT !.desired = desired, !.workload = w]
    BY <1>13, <1>18, <2>1, <2>2 DEF W!AssignmentFromProto
  <2> QED
    BY <1>15, <1>17, <2>3
<1>20. a.workload.image.resolved = IF d = None THEN "index" ELSE d
  BY <1>7, <1>12, <1>15
<1> QED
  BY <1>1, <1>3, <1>16, <1>19, <1>20

LEMMA ReadsFollow == NodeInv => ReadsAgree
<1>1. SUFFICES ASSUME NodeInv PROVE ReadsAgree
  OBVIOUS
<1>2. instances \subseteq InstanceRow /\ nodes \subseteq NodeRow
  BY <1>1 DEF NodeInv, TypeInv
<1>3. NodeBound \in Nat /\ InstanceBound \in Nat
  BY NodeControlAssumption
<1>4. \A as \in SUBSET AttachmentsAsked : \A i \in InstancesAsked :
        /\ W!MountsFor(W!LoadVolumeMounts(InstancesAsked, as), i)
             = {a.volume : a \in {b \in as : b.env = i.env /\ b.ptype = i.ptype /\ ~b.deleted}}
        /\ W!LoadVolumeMounts(InstancesAsked, as) = W!GrpcLoadVolumeMounts(InstancesAsked, as)
  <2>1. \A as : \A i \in InstancesAsked :
          W!MountsFor(W!LoadVolumeMounts(InstancesAsked, as), i)
            = {a.volume : a \in {b \in as : b.env = i.env /\ b.ptype = i.ptype /\ ~b.deleted}}
    BY MountsAreItsOwn, Zenon
  <2>2. \A as : W!LoadVolumeMounts(InstancesAsked, as) = W!GrpcLoadVolumeMounts(InstancesAsked, as)
    BY DEF W!GrpcLoadVolumeMounts
  <2> QED
    BY <2>1, <2>2, Zenon
<1>5. ASSUME NEW row \in RowsAsked
      PROVE  LET a == W!AssignmentFromRow(row)
             IN  /\ W!AssignmentFromProto(W!GrpcAssignmentFromRow(row)) = a
                 /\ a.workload.image.resolved \in {row.digests[i] : i \in 1 .. Len(row.digests)}
                        \cup {"index"}
                 /\ (\E i \in 1 .. Len(row.digests) : row.digests[i] = row.arch)
                        => a.workload.image.resolved = row.arch
                 /\ Len(row.digests) > 1 /\ a.workload.image.resolved # "index"
                        => a.workload.image.resolved = row.arch
  <2>1. PICK a : a = W!AssignmentFromRow(row)
    OBVIOUS
  <2>2. /\ W!AssignmentFromProto(W!GrpcAssignmentFromRow(row)) = a
        /\ a.workload.image.resolved \in {row.digests[i] : i \in 1 .. Len(row.digests)} \cup {"index"}
        /\ (\E i \in 1 .. Len(row.digests) : row.digests[i] = row.arch)
             => a.workload.image.resolved = row.arch
        /\ Len(row.digests) > 1 /\ a.workload.image.resolved # "index"
             => a.workload.image.resolved = row.arch
    BY <1>2, <2>1, AssignmentsAgree
  <2> QED
    BY <2>1, <2>2
<1>6. ASSUME NEW i \in InstanceIds, NEW s \in {"booting", "ready", "draining", "stopped", "failed"}
      PROVE  i \in ListEnvInstances(s) <=> s \in GetEnvInstance(i)
  <2>1. ASSUME NEW r \in instances
        PROVE  (IF r.desired \in {"stopped", "draining"} THEN r.desired = s
                ELSE IF r.status # 0 THEN StatusName(r.status) = s ELSE s = "booting")
               <=> s = InstanceStatusShown(r)
    <3>1. r.desired \in {"running", "draining"} /\ r.status \in 0 .. 3
      BY <1>2 DEF InstanceRow
    <3>2. StatusName(0) = "booting"
      BY DEF StatusName
    <3> QED
      BY <3>1, <3>2 DEF InstanceStatusShown
  <2> QED
    BY <2>1 DEF ListEnvInstances, GetEnvInstance, RowOfInstance
<1>7. ASSUME NEW c \in 0 .. NodeBound, NEW k \in 1 .. 2, NEW n \in NodeIds, GetNode(n) # {}, n > c
      PROVE  n \in ListNodes(c, k).items \/ ListNodes(c, k).next \in c + 1 .. n - 1
  <2>1. PICK A : A = {r.id : r \in nodes}
    OBVIOUS
  <2>2. A \in SUBSET (1 .. NodeBound) /\ n \in A
    BY <1>2, <1>7, <2>1 DEF NodeRow, NodeIds, GetNode, RowOfNode
  <2>3. IsFiniteSet(1 .. NodeBound)
    BY <1>3, FS_Interval
  <2>4. IsFiniteSet(A) /\ A \subseteq Nat
    <3>1. A \subseteq 1 .. NodeBound
      BY <2>2
    <3>2. IsFiniteSet(A)
      BY <2>3, <3>1, FS_Subset
    <3>3. A \subseteq Nat
      BY <1>3, <3>1
    <3> QED
      BY <3>2, <3>3
  <2>5. c \in Nat /\ k \in Nat \ {0}
    BY <1>3
  <2>6. n \in Page(A, c, k).items \/ Page(A, c, k).next \in c + 1 .. n - 1
    BY <1>7, <2>2, <2>4, <2>5, PageSkipsNothing
  <2> QED
    BY <2>1, <2>6 DEF ListNodes
<1>8. ASSUME NEW c \in 0 .. InstanceBound, NEW i \in InstanceIds, NEW r \in GetInstance(i), i > c
      PROVE  LET page == ListInstances(r.node, c, 1)
             IN  i \in page.items \/ page.next \in c + 1 .. i - 1
  <2>1. PICK A : A = {q.id : q \in {q \in instances : q.node = r.node /\ q.desired # "stopped"}}
    OBVIOUS
  <2>2. r \in instances /\ r.id = i
    BY DEF GetInstance, RowOfInstance
  <2>3. r.desired # "stopped"
    BY <1>2, <2>2 DEF InstanceRow
  <2>4. A \in SUBSET (1 .. InstanceBound) /\ i \in A
    BY <1>2, <2>1, <2>2, <2>3 DEF InstanceRow, InstanceIds
  <2>5. IsFiniteSet(1 .. InstanceBound)
    BY <1>3, FS_Interval
  <2>6. IsFiniteSet(A) /\ A \subseteq Nat
    <3>1. A \subseteq 1 .. InstanceBound
      BY <2>4
    <3>2. IsFiniteSet(A)
      BY <2>5, <3>1, FS_Subset
    <3>3. A \subseteq Nat
      BY <1>3, <3>1
    <3> QED
      BY <3>2, <3>3
  <2>7. c \in Nat /\ 1 \in Nat \ {0}
    BY <1>3
  <2>8. i \in Page(A, c, 1).items \/ Page(A, c, 1).next \in c + 1 .. i - 1
    BY <1>8, <2>4, <2>6, <2>7, PageSkipsNothing
  <2> QED
    BY <2>1, <2>8 DEF ListInstances
<1> QED
  BY <1>4, <1>5, <1>6, <1>7, <1>8 DEF ReadsAgree

\* The two interfaces answer the same plan, each instance with its own mounts and an image for its
\* node; and lists and single reads show the same, page by page: for every number of nodes and
\* instances in any state the commands, the scheduler and the agents can reach.
THEOREM ReadsAlwaysAgree == NodeSpec => []ReadsAgree
  BY NodeInvariant, ReadsFollow, PTL

----------------------------------------------------------------------------
(* The IPv4 add-on: its IPAM rows, the event log and the networking view.    *)

\* Ids, environments and addresses are unique among all rows, and ids are never reused.
RowInv ==
    /\ \A r \in alloc : r.id <= allocs
    /\ \A r, s \in alloc : r.id = s.id \/ r.env = s.env \/ r.addr = s.addr => r = s

\* Between its two transactions; or about to release, or having released, an allocation.
Enabling(c) == req[c].op = "enable" /\ req[c].phase \in {"changed", "numbered"}
Disabling(c) == req[c].op = "disable" /\ req[c].phase \in {"read", "changed", "numbered"}

\* Allocation i with address a is, or was, the environment's; unless a request of the
\* environment was cut short its row is there, released or not, and its cooldown not over.
OwnedBy(e, i, a) ==
    /\ i \in 1 .. allocs /\ a \in Pool
    /\ \A r \in alloc : r.id = i => r.env = e /\ r.addr = a
    /\ e \notin cut => \E r \in alloc : r.id = i /\ r.env = e /\ r.addr = a /\ r.state # "expired"

\* So is every allocation that the view, an event still to be projected or a request names.
RefInv ==
    /\ \A e \in Envs : net[e].status = "enabled" => OwnedBy(e, net[e].id, net[e].addr)
    /\ \A k \in applied + 1 .. Len(log) :
         log[k].kind = "enabled" => OwnedBy(log[k].env, log[k].id, log[k].addr)
    /\ \A c \in Clients : Enabling(c) => OwnedBy(req[c].env, req[c].id, req[c].addr)
    /\ \A c \in Clients : Disabling(c) => \E a \in Pool : OwnedBy(req[c].env, req[c].id, a)

\* The view shows the environment's last add-on event among those projected.
NetInv ==
    \A e \in Envs :
        /\ \A k \in 1 .. applied : IsLatest(e, k) /\ log[k].kind = "enabled" =>
             net[e].status = "enabled" /\ net[e].id = log[k].id
        /\ net[e].status = "enabled" => \E k \in 1 .. applied :
             /\ log[k].env = e /\ log[k].kind = "enabled" /\ log[k].id = net[e].id
             /\ \A j \in k + 1 .. applied : log[j].env = e => log[j].kind = "other"

\* While an allocation is inserted and not announced, nothing else concerns the environment.
EnableInv ==
    \A c \in Clients, e \in Envs \ cut : Enabling(c) /\ req[c].env = e =>
        /\ \E r \in alloc : r.id = req[c].id /\ r.state = "active"
        /\ \A d \in Clients \ {c} : Enabling(d) \/ Disabling(d) => req[d].env # e
        /\ net[e].status # "enabled"
        /\ \A k \in applied + 1 .. Len(log) : log[k].env = e => log[k].kind # "enabled"
        /\ Announced(e) = {}

\* Once a request has released the allocation, the environment has none.
DisableInv ==
    \A c \in Clients :
        Disabling(c) /\ req[c].phase # "read" /\ req[c].env \notin cut =>
            \A r \in alloc : r.env = req[c].env => r.state # "active"

\* What the phases of the two handlers have decided so far.
PhaseInv ==
    \A c \in Clients :
        /\ req[c].phase \in {"checked", "selected"} => req[c].op = "enable"
        /\ req[c].phase = "selected" => req[c].addr \in Pool
        /\ req[c].phase = "read" => req[c].op = "disable"

AddonInv ==
    /\ TypeOK
    /\ RowInv /\ PhaseInv
    /\ RefInv /\ NetInv
    /\ EnableInv /\ DisableInv
    /\ RowsMatchLog

----------------------------------------------------------------------------
\* Facts about the operators.

\* A set of naturals that is not empty has a least element.
LEMMA LeastOfNaturals ==
    ASSUME NEW S \in SUBSET Nat, S # {}
    PROVE  \E m \in S : \A k \in S : m <= k
<1>1. PICK m \in S : \A k \in S : ~(<<k, m>> \in OpToRel(<, Nat))
  BY NatLessThanWellFounded, WFMin
<1>2. \A k \in S : ~(k < m)
  BY <1>1 DEF OpToRel
<1>3. QED
  BY <1>2

\* ORDER BY ipv4_address LIMIT 1 returns one of the addresses.
LEMMA MinIsMember ==
    ASSUME NEW S \in SUBSET Nat, S # {}
    PROVE  Min(S) \in S
<1>1. \E m \in S : \A k \in S : m <= k
  BY LeastOfNaturals
<1>2. QED
  BY <1>1 DEF Min

\* What appending an event to the log gives.
LEMMA AppendFacts ==
    ASSUME NEW s \in Seq(Event), NEW ev \in Event
    PROVE  /\ Append(s, ev) \in Seq(Event)
           /\ Len(Append(s, ev)) = Len(s) + 1
           /\ \A i \in 1 .. Len(s) : Append(s, ev)[i] = s[i]
           /\ Append(s, ev)[Len(s) + 1] = ev
  OBVIOUS

\* An event of another environment, or one that is not about the add-on, announces nothing.
LEMMA AnnouncedKept ==
    ASSUME TypeOK, NEW ev \in Event, log' = Append(log, ev),
           NEW e \in Envs, ev.env # e \/ ev.kind = "other"
    PROVE  /\ Announced(e)' = Announced(e)
           /\ \A k \in 1 .. Len(log) : IsLatest(e, k)' => IsLatest(e, k)
<1>0. PICK n \in Nat : n = Len(log)
  BY DEF TypeOK
<1>1. /\ Len(log') = n + 1
      /\ \A i \in 1 .. n : log'[i] = log[i]
      /\ log'[n + 1] = ev
  BY <1>0, AppendFacts DEF TypeOK
<1>2. ~IsLatest(e, n + 1)'
  BY <1>0, <1>1 DEF IsLatest
<1>3. ASSUME NEW k \in 1 .. n
      PROVE  IsLatest(e, k)' <=> IsLatest(e, k)
  <2>1. \A j \in k + 1 .. Len(log') : j \in k + 1 .. n \/ j = n + 1
    BY <1>0, <1>1
  <2>2. \A j \in k + 1 .. n : j \in k + 1 .. Len(log') /\ log'[j] = log[j]
    BY <1>0, <1>1
  <2>3. log'[k] = log[k]
    BY <1>0, <1>1
  <2>4. QED
    BY <1>0, <1>1, <2>1, <2>2, <2>3 DEF IsLatest
<1>4. \A k \in 1 .. Len(log') : k \in 1 .. n \/ k = n + 1
  BY <1>0, <1>1
<1>5. \A k \in 1 .. n : k \in 1 .. Len(log') /\ log'[k] = log[k]
  BY <1>0, <1>1
<1>6. Announced(e)' = Announced(e)
  BY <1>0, <1>2, <1>3, <1>4, <1>5 DEF Announced
<1>7. QED
  BY <1>0, <1>3, <1>6

\* An event about the environment's add-on is the latest one.
LEMMA AnnouncedNow ==
    ASSUME TypeOK, NEW ev \in Event, log' = Append(log, ev), ev.kind # "other"
    PROVE  /\ Announced(ev.env)' = IF ev.kind = "enabled" THEN {ev.id} ELSE {}
           /\ \A k \in 1 .. Len(log) : ~IsLatest(ev.env, k)'
<1>0. PICK n \in Nat : n = Len(log)
  BY DEF TypeOK
<1>1. /\ Len(log') = n + 1
      /\ \A i \in 1 .. n : log'[i] = log[i]
      /\ log'[n + 1] = ev
  BY <1>0, AppendFacts DEF TypeOK
<1>2. ASSUME NEW k \in 1 .. n
      PROVE  ~IsLatest(ev.env, k)'
  <2>1. n + 1 \in k + 1 .. Len(log')
    BY <1>0, <1>1
  <2>2. QED
    BY <1>0, <1>1, <2>1 DEF IsLatest
<1>3. IsLatest(ev.env, n + 1)'
  BY <1>0, <1>1 DEF IsLatest
<1>4. \A k \in 1 .. Len(log') : k \in 1 .. n \/ k = n + 1
  BY <1>0, <1>1
<1>5. n + 1 \in 1 .. Len(log')
  BY <1>0, <1>1
<1>6. Announced(ev.env)' = IF ev.kind = "enabled" THEN {ev.id} ELSE {}
  BY <1>0, <1>1, <1>2, <1>3, <1>4, <1>5 DEF Announced
<1>7. QED
  BY <1>0, <1>2, <1>6

----------------------------------------------------------------------------
\* Types.

LEMMA IdleType == Idle \in Handler /\ Idle.phase = "idle" /\ Idle.op = "enable"
<1>1. (CHOOSE e \in Envs : TRUE) \in Envs
  BY AddonAssumption
<1>2. QED
  BY <1>1 DEF Idle, Handler

LEMMA AddonTypeInit == Init => TypeOK
  BY IdleType, AddonAssumption DEF Init, TypeOK, NetRow, Event

LEMMA AddonTypeStep ==
    ASSUME TypeOK, PhaseInv, [Next]_vars
    PROVE  TypeOK'
<1> USE AddonAssumption
<1> USE DEF TypeOK
<1>0. /\ \A c \in Clients : req[c] \in Handler
      /\ \A r \in alloc : r \in Row
  OBVIOUS
<1>1. ASSUME NEW c \in Clients, NEW e \in Envs, EnableCheck(c, e) PROVE TypeOK'
  <2>1. [Idle EXCEPT !.phase = "checked", !.env = e] \in Handler
    BY IdleType DEF Handler
  <2>2. QED
    BY <1>1, <2>1 DEF EnableCheck
<1>2. ASSUME NEW c \in Clients, NEW e \in Envs, DisableRead(c, e) PROVE TypeOK'
  <2>1. net[e].id \in Nat
    BY DEF NetRow
  <2>2. [Idle EXCEPT !.phase = "read", !.op = "disable", !.env = e, !.id = net[e].id] \in Handler
    BY <2>1, IdleType DEF Handler
  <2>3. QED
    BY <1>2, <2>2 DEF DisableRead
<1>3. ASSUME NEW c \in Clients, SelectAddress(c) PROVE TypeOK'
  <2>1. PICK locked \in SUBSET Selectable :
          req' = [req EXCEPT ![c] =
                    IF Selectable \ locked = {} THEN Idle
                    ELSE [@ EXCEPT !.phase = "selected", !.addr = Min(Selectable \ locked)]]
    BY <1>3 DEF SelectAddress
  <2>2. Selectable \ locked \in SUBSET Nat
    BY DEF Selectable
  <2>3. Selectable \ locked # {} => Min(Selectable \ locked) \in Pool
    BY <2>2, MinIsMember DEF Selectable
  <2>4. Selectable \ locked # {} =>
          [req[c] EXCEPT !.phase = "selected", !.addr = Min(Selectable \ locked)] \in Handler
    BY <1>0, <2>3 DEF Handler
  <2>5. req' \in [Clients -> Handler]
    BY <2>1, <2>4, IdleType
  <2>6. QED
    BY <1>3, <2>5 DEF SelectAddress
<1>4. ASSUME NEW c \in Clients, InsertAllocation(c) PROVE TypeOK'
  <2>1. CASE \E r \in alloc : r.env = req[c].env \/ r.addr = req[c].addr
    BY <1>4, <2>1, IdleType DEF InsertAllocation
  <2>2. CASE ~\E r \in alloc : r.env = req[c].env \/ r.addr = req[c].addr
    <3>1. NewRow(c) \in Row
      BY <1>0, <1>4 DEF NewRow, Row, InsertAllocation, PhaseInv, Handler
    <3>0. PICK n \in Nat : n = allocs + 1
      OBVIOUS
    <3>a. [req[c] EXCEPT !.phase = "changed", !.id = n] \in Handler
      BY <1>0 DEF Handler
    <3>2. [req[c] EXCEPT !.phase = "changed", !.id = allocs + 1] \in Handler
      BY <3>0, <3>a
    <3>3. req' = [req EXCEPT ![c] = [req[c] EXCEPT !.phase = "changed", !.id = allocs + 1]]
      BY <1>4, <2>2 DEF InsertAllocation, Inserted
    <3>4. req' \in [Clients -> Handler]
      BY <3>2, <3>3
    <3>5. QED
      BY <1>4, <2>2, <3>1, <3>4 DEF InsertAllocation, Inserted
  <2>3. QED
    BY <2>1, <2>2
<1>5. ASSUME NEW c \in Clients, ReleaseAllocation(c) PROVE TypeOK'
  <2>1. \A r \in alloc : [r EXCEPT !.state = "cooling"] \in Row
    BY <1>0 DEF Row
  <2>2. alloc' \subseteq Row
    BY <1>0, <1>5, <2>1 DEF ReleaseAllocation
  <2>3. [req[c] EXCEPT !.phase = "changed"] \in Handler
    BY <1>0 DEF Handler
  <2>4. QED
    BY <1>5, <2>2, <2>3 DEF ReleaseAllocation
<1>6. ASSUME NEW c \in Clients, NumberEvent(c) PROVE TypeOK'
  <2> DEFINE n == SeqOf(req[c].env) + 1
  <2>1. n \in Nat
    <3>1. IsFiniteSet(1 .. Len(log))
      BY FS_Interval
    <3>2. IsFiniteSet({i \in 1 .. Len(log) : log[i].env = req[c].env})
      BY <3>1, FS_Subset
    <3>3. QED
      BY <3>2, FS_CardinalityType DEF SeqOf
  <2> HIDE DEF n
  <2>2. [req[c] EXCEPT !.phase = "numbered", !.seq = n] \in Handler
    BY <1>0, <2>1 DEF Handler
  <2>3. req' = [req EXCEPT ![c] = [req[c] EXCEPT !.phase = "numbered", !.seq = n]]
    BY <1>6 DEF NumberEvent, n
  <2>4. QED
    BY <1>6, <2>2, <2>3 DEF NumberEvent
<1>7. ASSUME NEW c \in Clients, AppendEvent(c) PROVE TypeOK'
  <2>1. EventOf(c) \in Event
    BY <1>0 DEF EventOf, Event, Handler
  <2>2. log' \in Seq(Event) /\ Len(log') = Len(log) + 1
    BY <1>7, <2>1, AppendFacts DEF AppendEvent
  <2>3. [req[c] EXCEPT !.phase = "waiting"] \in Handler
    BY <1>0 DEF Handler
  <2>4. req' \in [Clients -> Handler]
    BY <1>7, <2>3 DEF AppendEvent
  <2>5. QED
    BY <1>7, <2>2, <2>4 DEF AppendEvent
<1>8. ASSUME NEW c \in Clients, AppendConflict(c) \/ Answer(c) \/ Abort(c) PROVE TypeOK'
  <2>1. req[c].env \in Envs
    BY <1>0 DEF Handler
  <2>2. QED
    BY <1>8, <2>1, IdleType DEF AppendConflict, Answer, Abort
<1>9. ASSUME NEW e \in Envs, OtherEvent(e) PROVE TypeOK'
  <2> DEFINE ev == [env |-> e, kind |-> "other", addr |-> 0, id |-> 0]
  <2>1. ev \in Event
    BY DEF Event
  <2>2. log' = Append(log, ev) /\ Len(log) < MaxEvents
    BY <1>9 DEF OtherEvent
  <2> HIDE DEF ev
  <2>3. log' \in Seq(Event) /\ Len(log') = Len(log) + 1
    BY <2>1, <2>2, AppendFacts
  <2>4. QED
    BY <1>9, <2>2, <2>3 DEF OtherEvent
<1>10. ASSUME Project PROVE TypeOK'
  <2> DEFINE ev == log[applied + 1]
  <2>1. ev \in Event
    BY <1>10 DEF Project
  <2>2. net' = [net EXCEPT ![ev.env] = NetRowAfter(@, ev)]
    BY <1>10 DEF Project
  <2> HIDE DEF ev
  <2>3. ASSUME NEW row \in NetRow PROVE NetRowAfter(row, ev) \in NetRow
    BY <2>1 DEF NetRowAfter, NetRow, Event
  <2>4. net' \in [Envs -> NetRow]
    BY <2>1, <2>2, <2>3 DEF Event
  <2>5. QED
    BY <1>10, <2>4 DEF Project
<1>11. ASSUME NEW r \in alloc, CooldownEnds(r) \/ CleanupCooldown(r) PROVE TypeOK'
  <2>1. [r EXCEPT !.state = "expired"] \in Row
    BY <1>0 DEF Row
  <2>2. QED
    BY <1>11, <2>1 DEF CooldownEnds, CleanupCooldown
<1>12. ASSUME UNCHANGED vars PROVE TypeOK'
  BY <1>12 DEF vars
<1>13. QED
  BY <1>1, <1>2, <1>3, <1>4, <1>5, <1>6, <1>7, <1>8, <1>9, <1>10, <1>11, <1>12 DEF Next

----------------------------------------------------------------------------
\* The steps of the handlers that touch neither the rows nor the log.

\* Handler c moves on or ends.  It claims no allocation it did not claim before, except
\* one to release that is the environment's; and it leaves a half-done change behind
\* only by putting the environment into cut.
LEMMA HandlerMoves ==
    ASSUME AddonInv, TypeOK', NEW c \in Clients,
           UNCHANGED <<alloc, allocs, log, applied, net>>, cut \subseteq cut',
           \A d \in Clients \ {c} : req'[d] = req[d],
           PhaseInv',
           Enabling(c)' => /\ Enabling(c)
                           /\ req'[c].env = req[c].env /\ req'[c].id = req[c].id
                           /\ req'[c].addr = req[c].addr,
           Disabling(c)' => \/ /\ Disabling(c)
                               /\ req'[c].env = req[c].env /\ req'[c].id = req[c].id
                               /\ req'[c].phase # "read" => req[c].phase # "read"
                            \/ /\ req'[c].phase = "read"
                               /\ \E a \in Pool : OwnedBy(req'[c].env, req'[c].id, a)
                               /\ net[req'[c].env].status = "enabled",
           req[c].phase \in {"changed", "numbered"} =>
               \/ req[c].env \in cut'
               \/ req'[c].env = req[c].env /\ req'[c].phase \in {"changed", "numbered"}
    PROVE  AddonInv'
<1>1. TypeOK /\ RowInv /\ PhaseInv /\ RefInv /\ NetInv /\ EnableInv /\ DisableInv /\ RowsMatchLog
  BY DEF AddonInv
<1>2. allocs \in Nat
  BY <1>1, AddonAssumption DEF TypeOK
<1>3. \A e \in Envs, i \in Nat, a \in {0} \cup Pool : OwnedBy(e, i, a) => OwnedBy(e, i, a)'
  BY DEF OwnedBy
<1>4. \A d \in Clients \ {c} : (Enabling(d)' <=> Enabling(d)) /\ (Disabling(d)' <=> Disabling(d))
  BY DEF Enabling, Disabling
<1>5. \A e \in Envs : Announced(e)' = Announced(e) /\ \A k : IsLatest(e, k)' <=> IsLatest(e, k)
  BY DEF Announced, IsLatest
<1>6. RowInv'
  BY <1>1 DEF RowInv
<1>7. RefInv'
  <2>1. \A e \in Envs : (net[e].status = "enabled" => OwnedBy(e, net[e].id, net[e].addr))'
    <3> SUFFICES ASSUME NEW e \in Envs, net'[e].status = "enabled"
                 PROVE  OwnedBy(e, net[e].id, net[e].addr)'
      OBVIOUS
    <3>1. OwnedBy(e, net[e].id, net[e].addr)
      BY <1>1 DEF RefInv
    <3>2. QED
      BY <3>1 DEF OwnedBy
  <2>2. (\A k \in applied + 1 .. Len(log) :
           log[k].kind = "enabled" => OwnedBy(log[k].env, log[k].id, log[k].addr))'
    <3> SUFFICES ASSUME NEW k \in applied + 1 .. Len(log), log[k].kind = "enabled"
                 PROVE  OwnedBy(log[k].env, log[k].id, log[k].addr)'
      OBVIOUS
    <3>1. OwnedBy(log[k].env, log[k].id, log[k].addr)
      BY <1>1 DEF RefInv
    <3>2. QED
      BY <3>1 DEF OwnedBy
  <2>3. \A d \in Clients : (Enabling(d) => OwnedBy(req[d].env, req[d].id, req[d].addr))'
    <3> SUFFICES ASSUME NEW d \in Clients, Enabling(d)'
                 PROVE  OwnedBy(req[d].env, req[d].id, req[d].addr)'
      OBVIOUS
    <3>1. /\ OwnedBy(req[d].env, req[d].id, req[d].addr)
          /\ req'[d].env = req[d].env /\ req'[d].id = req[d].id /\ req'[d].addr = req[d].addr
      BY <1>1, <1>4 DEF RefInv
    <3>2. QED
      BY <3>1 DEF OwnedBy
  <2>4. \A d \in Clients : (Disabling(d) => \E a \in Pool : OwnedBy(req[d].env, req[d].id, a))'
    <3> SUFFICES ASSUME NEW d \in Clients, Disabling(d)'
                 PROVE  (\E a \in Pool : OwnedBy(req[d].env, req[d].id, a))'
      OBVIOUS
    <3>1. \E a \in Pool : OwnedBy(req'[d].env, req'[d].id, a)
      BY <1>1, <1>4 DEF RefInv
    <3>2. PICK a \in Pool : OwnedBy(req'[d].env, req'[d].id, a)
      BY <3>1
    <3>3. OwnedBy(req[d].env, req[d].id, a)'
      BY <3>2 DEF OwnedBy
    <3>4. QED
      BY <3>3
  <2>5. QED
    BY <2>1, <2>2, <2>3, <2>4 DEF RefInv
<1>8. NetInv'
  BY <1>1, <1>5 DEF NetInv
<1>9. EnableInv'
  <2> SUFFICES ASSUME NEW d \in Clients, NEW e \in Envs \ cut', Enabling(d)', req'[d].env = e
               PROVE  /\ \E r \in alloc : r.id = req'[d].id /\ r.state = "active"
                      /\ \A b \in Clients \ {d} : (Enabling(b) \/ Disabling(b))' => req'[b].env # e
                      /\ net[e].status # "enabled"
                      /\ \A k \in applied + 1 .. Len(log) :
                           log[k].env = e => log[k].kind # "enabled"
                      /\ Announced(e)' = {}
    BY DEF EnableInv
  <2>1. Enabling(d) /\ req[d].env = e /\ req'[d].id = req[d].id /\ e \notin cut
    BY <1>4
  <2>2. /\ \E r \in alloc : r.id = req[d].id /\ r.state = "active"
        /\ \A b \in Clients \ {d} : Enabling(b) \/ Disabling(b) => req[b].env # e
        /\ net[e].status # "enabled"
        /\ \A k \in applied + 1 .. Len(log) : log[k].env = e => log[k].kind # "enabled"
        /\ Announced(e) = {}
    BY <1>1, <2>1 DEF EnableInv
  <2>3. ASSUME NEW b \in Clients \ {d}, (Enabling(b) \/ Disabling(b))'
        PROVE  req'[b].env # e
    <3>1. CASE b # c
      BY <1>4, <2>2, <2>3, <3>1
    <3>2. CASE b = c
      BY <2>1, <2>2, <2>3, <3>2
    <3>3. QED
      BY <3>1, <3>2
  <2>4. QED
    BY <1>5, <2>1, <2>2, <2>3
<1>10. DisableInv'
  <2> SUFFICES ASSUME NEW d \in Clients, Disabling(d)', req'[d].phase # "read",
                      req'[d].env \notin cut'
               PROVE  \A r \in alloc : r.env = req'[d].env => r.state # "active"
    BY DEF DisableInv
  <2>1. Disabling(d) /\ req'[d].env = req[d].env /\ req[d].phase # "read" /\ req[d].env \notin cut
    BY <1>4
  <2>2. QED
    BY <1>1, <2>1 DEF DisableInv
<1>11. RowsMatchLog'
  <2> SUFFICES ASSUME NEW e \in Envs, ~InFlight(e)', e \notin cut'
               PROVE  {r.id : r \in {s \in alloc : s.env = e /\ s.state = "active"}} = Announced(e)
    BY <1>5 DEF RowsMatchLog
  <2>1. ~InFlight(e)
    BY DEF InFlight
  <2>2. QED
    BY <1>1, <2>1 DEF RowsMatchLog
<1>12. QED
  BY <1>6, <1>7, <1>8, <1>9, <1>10, <1>11 DEF AddonInv

LEMMA HandlerSteps ==
    ASSUME AddonInv, TypeOK', NEW c \in Clients,
           \/ \E e \in Envs : EnableCheck(c, e) \/ DisableRead(c, e)
           \/ SelectAddress(c) \/ NumberEvent(c) \/ AppendConflict(c) \/ Answer(c) \/ Abort(c)
    PROVE  AddonInv'
<1>1. TypeOK /\ RowInv /\ PhaseInv /\ RefInv
  BY DEF AddonInv
<1>2. req \in [Clients -> Handler] /\ Idle \in Handler /\ Idle.phase = "idle" /\ Idle.op = "enable"
  BY <1>1, IdleType DEF TypeOK
<1>3. ASSUME NEW e \in Envs, EnableCheck(c, e) PROVE AddonInv'
  <2>1. /\ \A d \in Clients \ {c} : req'[d] = req[d]
        /\ req'[c].phase = "checked" /\ req'[c].op = "enable"
        /\ req[c].phase = "idle"
        /\ UNCHANGED <<alloc, allocs, log, applied, net, cut>>
    BY <1>2, <1>3 DEF EnableCheck, Handler
  <2>2. PhaseInv'
    BY <1>1, <2>1 DEF PhaseInv
  <2>3. ~Enabling(c)' /\ ~Disabling(c)'
    BY <2>1 DEF Enabling, Disabling
  <2>4. QED
    BY <2>1, <2>2, <2>3, HandlerMoves
<1>4. ASSUME NEW e \in Envs, DisableRead(c, e) PROVE AddonInv'
  <2>1. /\ \A d \in Clients \ {c} : req'[d] = req[d]
        /\ req'[c].phase = "read" /\ req'[c].op = "disable"
        /\ req'[c].env = e /\ req'[c].id = net[e].id
        /\ req[c].phase = "idle" /\ net[e].status = "enabled"
        /\ UNCHANGED <<alloc, allocs, log, applied, net, cut>>
    BY <1>2, <1>4 DEF DisableRead, Handler
  <2>2. PhaseInv'
    BY <1>1, <2>1 DEF PhaseInv
  <2>3. ~Enabling(c)'
    BY <2>1 DEF Enabling
  <2>4. OwnedBy(e, net[e].id, net[e].addr)
    BY <1>1, <2>1 DEF RefInv
  <2>5. \E a \in Pool : OwnedBy(req'[c].env, req'[c].id, a)
    BY <2>1, <2>4 DEF OwnedBy
  <2>6. QED
    BY <2>1, <2>2, <2>3, <2>5, HandlerMoves
<1>5. ASSUME SelectAddress(c) PROVE AddonInv'
  <2>1. PICK locked \in SUBSET Selectable :
          req' = [req EXCEPT ![c] =
                    IF Selectable \ locked = {} THEN Idle
                    ELSE [@ EXCEPT !.phase = "selected", !.addr = Min(Selectable \ locked)]]
    BY <1>5 DEF SelectAddress
  <2>2. Selectable \ locked \in SUBSET Nat
    BY AddonAssumption DEF Selectable
  <2>3. Selectable \ locked # {} => Min(Selectable \ locked) \in Pool
    BY <2>2, MinIsMember DEF Selectable
  <2>4. /\ \A d \in Clients \ {c} : req'[d] = req[d]
        /\ req[c].phase = "checked" /\ req[c].op = "enable"
        /\ \/ req'[c].phase = "idle"
           \/ req'[c].phase = "selected" /\ req'[c].op = "enable" /\ req'[c].addr \in Pool
        /\ UNCHANGED <<alloc, allocs, log, applied, net, cut>>
    BY <1>1, <1>2, <1>5, <2>1, <2>3 DEF SelectAddress, Handler, PhaseInv
  <2>5. PhaseInv'
    BY <1>1, <2>4 DEF PhaseInv
  <2>6. ~Enabling(c)' /\ ~Disabling(c)'
    BY <2>4 DEF Enabling, Disabling
  <2>7. QED
    BY <2>4, <2>5, <2>6, HandlerMoves
<1>6. ASSUME NumberEvent(c) PROVE AddonInv'
  <2>1. /\ \A d \in Clients \ {c} : req'[d] = req[d]
        /\ req[c].phase = "changed" /\ req'[c].phase = "numbered"
        /\ req'[c].op = req[c].op /\ req'[c].env = req[c].env
        /\ req'[c].id = req[c].id /\ req'[c].addr = req[c].addr
        /\ UNCHANGED <<alloc, allocs, log, applied, net, cut>>
    BY <1>2, <1>6 DEF NumberEvent, Handler
  <2>2. PhaseInv'
    BY <1>1, <2>1 DEF PhaseInv
  <2>3. (Enabling(c)' => Enabling(c)) /\ (Disabling(c)' => Disabling(c))
    BY <2>1 DEF Enabling, Disabling
  <2>4. QED
    BY <2>1, <2>2, <2>3, HandlerMoves
<1>7. ASSUME AppendConflict(c) \/ Answer(c) \/ Abort(c) PROVE AddonInv'
  <2>1. /\ \A d \in Clients \ {c} : req'[d] = req[d]
        /\ req'[c].phase = "idle"
        /\ req[c].phase \in {"changed", "numbered"} => req[c].env \in cut'
        /\ cut \subseteq cut'
        /\ UNCHANGED <<alloc, allocs, log, applied, net>>
    BY <1>2, <1>7 DEF AppendConflict, Answer, Abort
  <2>2. PhaseInv'
    BY <1>1, <2>1 DEF PhaseInv
  <2>3. ~Enabling(c)' /\ ~Disabling(c)'
    BY <2>1 DEF Enabling, Disabling
  <2>4. QED
    BY <2>1, <2>2, <2>3, HandlerMoves
<1>8. QED
  BY <1>3, <1>4, <1>5, <1>6, <1>7

----------------------------------------------------------------------------
\* The steps that change the rows.

\* Every reference stays good when every row that is named and may be needed is kept.
LEMMA RefsKept ==
    ASSUME TypeOK, RefInv, TypeOK', allocs <= allocs', UNCHANGED <<log, applied, net, cut>>,
           \A s \in alloc' : s.id <= allocs =>
               \E r \in alloc : r.id = s.id /\ r.env = s.env /\ r.addr = s.addr,
           \A e \in Envs \ cut, r \in alloc : r.env = e /\ r.state # "expired" =>
               \E s \in alloc' : /\ s.id = r.id /\ s.env = r.env /\ s.addr = r.addr
                                 /\ s.state # "expired"
    PROVE  /\ \A e \in Envs, i \in Nat, a \in Pool : OwnedBy(e, i, a) => OwnedBy(e, i, a)'
           /\ \A e \in Envs : (net[e].status = "enabled" => OwnedBy(e, net[e].id, net[e].addr))'
           /\ (\A k \in applied + 1 .. Len(log) :
                 log[k].kind = "enabled" => OwnedBy(log[k].env, log[k].id, log[k].addr))'
<1>1. allocs \in Nat /\ allocs' \in Nat
  BY AddonAssumption DEF TypeOK
<1>2. ASSUME NEW e \in Envs, NEW i \in Nat, NEW a \in Pool, OwnedBy(e, i, a)
      PROVE  OwnedBy(e, i, a)'
  <2>1. i \in 1 .. allocs /\ \A r \in alloc : r.id = i => r.env = e /\ r.addr = a
    BY <1>2 DEF OwnedBy
  <2>2. (i \in 1 .. allocs)'
    BY <1>1, <2>1
  <2>3. \A s \in alloc' : s.id = i => s.env = e /\ s.addr = a
    BY <1>1, <2>1
  <2>4. ASSUME e \notin cut'
        PROVE  \E s \in alloc' : s.id = i /\ s.env = e /\ s.addr = a /\ s.state # "expired"
    <3>1. PICK r \in alloc : r.id = i /\ r.env = e /\ r.addr = a /\ r.state # "expired"
      BY <1>2, <2>4 DEF OwnedBy
    <3>2. QED
      BY <2>4, <3>1
  <2>5. QED
    BY <2>2, <2>3, <2>4 DEF OwnedBy
<1>3. ASSUME NEW e \in Envs, (net[e].status = "enabled")'
      PROVE  OwnedBy(e, net[e].id, net[e].addr)'
  <2>1. PICK i, a : i = net[e].id /\ a = net[e].addr
    OBVIOUS
  <2>2. OwnedBy(e, i, a) /\ i \in Nat /\ a \in Pool
    BY <1>3, <2>1 DEF RefInv, OwnedBy, TypeOK, NetRow
  <2>3. OwnedBy(e, i, a)'
    BY <1>2, <2>2
  <2>4. QED
    BY <2>1, <2>3 DEF OwnedBy
<1>4. ASSUME NEW k \in applied + 1 .. Len(log), log[k].kind = "enabled"
      PROVE  OwnedBy(log[k].env, log[k].id, log[k].addr)'
  <2>1. PICK e, i, a : e = log[k].env /\ i = log[k].id /\ a = log[k].addr
    OBVIOUS
  <2>0. log[k] \in Event
    BY DEF TypeOK
  <2>2. OwnedBy(e, i, a) /\ e \in Envs /\ i \in Nat /\ a \in Pool
    BY <1>4, <2>0, <2>1 DEF RefInv, OwnedBy, Event
  <2>3. OwnedBy(e, i, a)'
    BY <1>2, <2>2
  <2>4. QED
    BY <2>1, <2>3 DEF OwnedBy
<1>5. QED
  BY <1>2, <1>3, <1>4

\* INSERT: the environment had no row, so nothing could have named one.
LEMMA InsertStep ==
    ASSUME AddonInv, TypeOK', NEW c \in Clients, InsertAllocation(c)
    PROVE  AddonInv'
<1>1. TypeOK /\ RowInv /\ PhaseInv /\ RefInv /\ NetInv /\ EnableInv /\ DisableInv /\ RowsMatchLog
  BY DEF AddonInv
<1>2. /\ req \in [Clients -> Handler] /\ Idle \in Handler /\ Idle.phase = "idle"
      /\ allocs \in Nat /\ \A r \in alloc : r \in Row
  BY <1>1, IdleType, AddonAssumption DEF TypeOK
<1>3. CASE \E r \in alloc : r.env = req[c].env \/ r.addr = req[c].addr
  <2>1. /\ \A d \in Clients \ {c} : req'[d] = req[d]
        /\ req'[c].phase = "idle" /\ req[c].phase = "selected"
        /\ UNCHANGED <<alloc, allocs, log, applied, net, cut>>
    BY <1>2, <1>3 DEF InsertAllocation
  <2>2. PhaseInv'
    BY <1>1, <2>1 DEF PhaseInv
  <2>3. ~Enabling(c)' /\ ~Disabling(c)'
    BY <2>1 DEF Enabling, Disabling
  <2>4. QED
    BY <2>1, <2>2, <2>3, HandlerMoves
<1>4. CASE ~\E r \in alloc : r.env = req[c].env \/ r.addr = req[c].addr
  <2>0. PICK f \in Envs, x \in Pool, n \in Nat :
          f = req[c].env /\ x = req[c].addr /\ n = allocs + 1
    BY <1>1, <1>2 DEF Handler, PhaseInv, InsertAllocation
  <2>1. /\ \A d \in Clients \ {c} : req'[d] = req[d]
        /\ req[c].phase = "selected" /\ req[c].op = "enable"
        /\ req'[c].phase = "changed" /\ req'[c].op = "enable"
        /\ req'[c].env = f /\ req'[c].addr = x /\ req'[c].id = n
        /\ allocs' = n
        /\ UNCHANGED <<log, applied, net, cut>>
    BY <1>1, <1>2, <1>4, <2>0 DEF InsertAllocation, Inserted, Handler, PhaseInv
  <2>2. PICK w \in Row : /\ w.id = n /\ w.env = f /\ w.addr = x /\ w.state = "active"
                         /\ alloc' = alloc \cup {w}
    <3>1. PICK w : w = NewRow(c)
      OBVIOUS
    <3>2. w.id = n /\ w.env = f /\ w.addr = x /\ w.state = "active"
      BY <2>0, <3>1 DEF NewRow
    <3>3. alloc' = alloc \cup {w}
      BY <1>4, <3>1 DEF InsertAllocation, Inserted
    <3>4. w \in Row
      BY <3>3 DEF TypeOK
    <3>5. QED
      BY <3>2, <3>3, <3>4
  <2>3. \A r \in alloc : r.env # f /\ r.addr # x /\ r.id < n /\ r.id \in Nat
    BY <1>1, <1>2, <1>4, <2>0 DEF RowInv, Row
  <2>4. RowInv'
    <3>1. \A r \in alloc' : r.id <= allocs'
      BY <2>1, <2>2, <2>3
    <3>2. \A r, s \in alloc : r.id = s.id \/ r.env = s.env \/ r.addr = s.addr => r = s
      BY <1>1 DEF RowInv
    <3>3. \A r \in alloc : r.id # w.id /\ r.env # w.env /\ r.addr # w.addr
      BY <2>2, <2>3
    <3>4. \A r, s \in alloc' : r.id = s.id \/ r.env = s.env \/ r.addr = s.addr => r = s
      BY <2>2, <3>2, <3>3
    <3>5. QED
      BY <3>1, <3>4 DEF RowInv
  <2>5. PhaseInv'
    BY <1>1, <2>1 DEF PhaseInv
  <2>6. /\ \A e \in Envs, i \in Nat, a \in Pool : OwnedBy(e, i, a) => OwnedBy(e, i, a)'
        /\ \A e \in Envs : (net[e].status = "enabled" => OwnedBy(e, net[e].id, net[e].addr))'
        /\ (\A k \in applied + 1 .. Len(log) :
              log[k].kind = "enabled" => OwnedBy(log[k].env, log[k].id, log[k].addr))'
    <3>1. allocs <= allocs'
      BY <1>2, <2>0, <2>1
    <3>2. \A s \in alloc' : s.id <= allocs => s \in alloc
      BY <1>2, <2>0, <2>2
    <3>3. QED
      BY <1>1, <2>1, <2>2, <3>1, <3>2, RefsKept
  <2>7. \A d \in Clients \ {c} : (Enabling(d)' <=> Enabling(d)) /\ (Disabling(d)' <=> Disabling(d))
    BY <2>1 DEF Enabling, Disabling
  <2>8. Enabling(c)' /\ ~Disabling(c)' /\ ~Enabling(c) /\ ~Disabling(c)
    BY <2>1 DEF Enabling, Disabling
  <2>9. OwnedBy(f, n, x)'
    <3>1. n \in 1 .. allocs'
      BY <1>2, <2>0, <2>1
    <3>2. \A r \in alloc' : r.id = n => r = w
      BY <2>2, <2>3
    <3>3. QED
      BY <2>2, <3>1, <3>2 DEF OwnedBy
  <2>10. RefInv'
    <3>1. ASSUME NEW d \in Clients, Enabling(d)'
          PROVE  OwnedBy(req[d].env, req[d].id, req[d].addr)'
      <4>1. CASE d = c
        BY <2>1, <2>9, <4>1 DEF OwnedBy
      <4>2. CASE d # c
        <5>1. PICK e, i, a : e = req[d].env /\ i = req[d].id /\ a = req[d].addr
          OBVIOUS
        <5>2. OwnedBy(e, i, a) /\ e \in Envs /\ i \in Nat /\ a \in Pool
          BY <1>1, <1>2, <2>7, <3>1, <4>2, <5>1 DEF RefInv, OwnedBy, Handler
        <5>3. OwnedBy(e, i, a)'
          BY <2>6, <5>2
        <5>4. req'[d].env = e /\ req'[d].id = i /\ req'[d].addr = a
          BY <2>1, <4>2, <5>1
        <5>5. QED
          BY <5>3, <5>4 DEF OwnedBy
      <4>3. QED
        BY <4>1, <4>2
    <3>2. ASSUME NEW d \in Clients, Disabling(d)'
          PROVE  (\E a \in Pool : OwnedBy(req[d].env, req[d].id, a))'
      <4>1. d # c
        BY <2>8, <3>2
      <4>2. PICK e, i : e = req[d].env /\ i = req[d].id
        OBVIOUS
      <4>3. PICK a \in Pool : OwnedBy(e, i, a)
        BY <1>1, <2>7, <3>2, <4>1, <4>2 DEF RefInv
      <4>4. e \in Envs /\ i \in Nat
        BY <1>2, <4>2 DEF Handler
      <4>5. OwnedBy(e, i, a)'
        BY <2>6, <4>3, <4>4
      <4>6. req'[d].env = e /\ req'[d].id = i
        BY <2>1, <4>1, <4>2
      <4>7. OwnedBy(req[d].env, req[d].id, a)'
        BY <4>5, <4>6 DEF OwnedBy
      <4>8. QED
        BY <4>7
    <3>3. QED
      BY <2>6, <3>1, <3>2 DEF RefInv
  <2>11. \A e \in Envs : Announced(e)' = Announced(e) /\ \A k : IsLatest(e, k)' <=> IsLatest(e, k)
    BY <2>1 DEF Announced, IsLatest
  <2>12. NetInv'
    BY <1>1, <2>1, <2>11 DEF NetInv
  <2>13. ASSUME NEW d \in Clients, Enabling(d) \/ Disabling(d), req[d].env \notin cut
         PROVE  req[d].env # f
    <3>1. \E r \in alloc : r.env = req[d].env
      BY <1>1, <2>13 DEF RefInv, OwnedBy
    <3>2. QED
      BY <2>3, <3>1
  <2>14. ASSUME f \notin cut
         PROVE  /\ net[f].status # "enabled"
                /\ \A k \in applied + 1 .. Len(log) : log[k].env = f => log[k].kind # "enabled"
                /\ Announced(f) = {}
    <3>1. net[f].status # "enabled"
      BY <1>1, <2>3, <2>14 DEF RefInv, OwnedBy
    <3>2. \A k \in applied + 1 .. Len(log) : log[k].env = f => log[k].kind # "enabled"
      BY <1>1, <2>3, <2>14 DEF RefInv, OwnedBy
    <3>3. ~InFlight(f)
      <4>1. \A d \in Clients : req[d].phase \in {"changed", "numbered"} => Enabling(d) \/ Disabling(d)
        BY <1>2 DEF Enabling, Disabling, Handler
      <4>2. QED
        BY <2>13, <2>14, <4>1 DEF InFlight
    <3>4. {r.id : r \in {s \in alloc : s.env = f /\ s.state = "active"}} = {}
      BY <2>3
    <3>5. QED
      BY <1>1, <2>14, <3>1, <3>2, <3>3, <3>4 DEF RowsMatchLog
  <2>15. EnableInv'
    <3> SUFFICES ASSUME NEW d \in Clients, NEW e \in Envs \ cut', Enabling(d)', req'[d].env = e
                 PROVE  /\ \E r \in alloc' : r.id = req'[d].id /\ r.state = "active"
                        /\ \A b \in Clients \ {d} : (Enabling(b) \/ Disabling(b))' => req'[b].env # e
                        /\ net'[e].status # "enabled"
                        /\ (\A k \in applied + 1 .. Len(log) :
                             log[k].env = e => log[k].kind # "enabled")'
                        /\ Announced(e)' = {}
      BY DEF EnableInv
    <3>0. e \notin cut
      BY <2>1
    <3>1. CASE d = c
      <4>1. e = f
        BY <2>1, <3>1
      <4>2. \E r \in alloc' : r.id = req'[d].id /\ r.state = "active"
        BY <2>1, <2>2, <3>1
      <4>3. \A b \in Clients \ {d} : (Enabling(b) \/ Disabling(b))' => req'[b].env # e
        BY <2>1, <2>7, <2>13, <3>0, <3>1, <4>1
      <4>4. QED
        BY <2>1, <2>11, <2>14, <3>0, <4>1, <4>2, <4>3
    <3>2. CASE d # c
      <4>1. Enabling(d) /\ req[d].env = e /\ req'[d].id = req[d].id
        BY <2>1, <2>7, <3>2
      <4>2. e # f
        BY <2>13, <3>0, <4>1
      <4>3. /\ \E r \in alloc : r.id = req[d].id /\ r.state = "active"
            /\ \A b \in Clients \ {d} : Enabling(b) \/ Disabling(b) => req[b].env # e
            /\ net[e].status # "enabled"
            /\ \A k \in applied + 1 .. Len(log) : log[k].env = e => log[k].kind # "enabled"
            /\ Announced(e) = {}
        BY <1>1, <3>0, <4>1 DEF EnableInv
      <4>4. \A b \in Clients \ {d} : (Enabling(b) \/ Disabling(b))' => req'[b].env # e
        BY <2>1, <2>7, <4>2, <4>3
      <4>5. QED
        BY <2>1, <2>2, <2>11, <4>1, <4>3, <4>4
    <3>3. QED
      BY <3>1, <3>2
  <2>16. DisableInv'
    <3> SUFFICES ASSUME NEW d \in Clients, Disabling(d)', req'[d].phase # "read",
                        req'[d].env \notin cut'
                 PROVE  \A r \in alloc' : r.env = req'[d].env => r.state # "active"
      BY DEF DisableInv
    <3>1. d # c /\ req'[d] = req[d] /\ Disabling(d) /\ req[d].env \notin cut
      BY <2>1, <2>7, <2>8
    <3>2. req[d].env # f
      BY <2>13, <3>1
    <3>3. \A r \in alloc : r.env = req[d].env => r.state # "active"
      BY <1>1, <3>1 DEF DisableInv
    <3>4. QED
      BY <2>2, <3>1, <3>2, <3>3
  <2>17. RowsMatchLog'
    <3> SUFFICES ASSUME NEW e \in Envs, ~InFlight(e)', e \notin cut'
                 PROVE  {r.id : r \in {s \in alloc' : s.env = e /\ s.state = "active"}} = Announced(e)
      BY <2>11 DEF RowsMatchLog
    <3>1. e # f
      BY <2>1 DEF InFlight
    <3>2. ~InFlight(e)
      BY <2>1 DEF InFlight
    <3>3. {s \in alloc' : s.env = e /\ s.state = "active"} = {s \in alloc : s.env = e /\ s.state = "active"}
      BY <2>2, <3>1
    <3>4. QED
      BY <1>1, <2>1, <3>2, <3>3 DEF RowsMatchLog
  <2>18. QED
    BY <2>4, <2>5, <2>10, <2>12, <2>15, <2>16, <2>17 DEF AddonInv
<1>5. QED
  BY <1>3, <1>4

\* UPDATE: the row that is released is the environment's only row.
LEMMA ReleaseStep ==
    ASSUME AddonInv, TypeOK', NEW c \in Clients, ReleaseAllocation(c)
    PROVE  AddonInv'
<1>1. TypeOK /\ RowInv /\ PhaseInv /\ RefInv /\ NetInv /\ EnableInv /\ DisableInv /\ RowsMatchLog
  BY DEF AddonInv
<1>2. req \in [Clients -> Handler] /\ allocs \in Nat /\ \A r \in alloc : r \in Row
  BY <1>1, AddonAssumption DEF TypeOK
<1>3. PICK f \in Envs, n \in Nat : f = req[c].env /\ n = req[c].id
  BY <1>2 DEF Handler
<1>4. /\ \A d \in Clients \ {c} : req'[d] = req[d]
      /\ req[c].phase = "read" /\ req[c].op = "disable"
      /\ req'[c].phase = "changed" /\ req'[c].op = "disable"
      /\ req'[c].env = f /\ req'[c].id = n
      /\ UNCHANGED <<allocs, log, applied, net, cut>>
  BY <1>1, <1>2, <1>3 DEF ReleaseAllocation, Handler, PhaseInv
<1>5. Disabling(c) /\ Disabling(c)' /\ ~Enabling(c)' /\ ~Enabling(c)
  BY <1>4 DEF Enabling, Disabling
<1> DEFINE Released(r) ==
        IF r.id = n /\ r.state = "active" THEN [r EXCEPT !.state = "cooling"] ELSE r
<1>6. alloc' = {Released(r) : r \in alloc}
  BY <1>3 DEF ReleaseAllocation
<1>7. \A r \in alloc :
        /\ Released(r).id = r.id /\ Released(r).env = r.env /\ Released(r).addr = r.addr
        /\ r.id = n => Released(r).state # "active"
        /\ Released(r).state = "active" => Released(r) = r
        /\ r.id # n => Released(r) = r
        /\ r.state # "expired" => Released(r).state # "expired"
  BY <1>2 DEF Row
<1> HIDE DEF Released
<1>8. RowInv'
  BY <1>1, <1>4, <1>6, <1>7 DEF RowInv
<1>9. PhaseInv'
  BY <1>1, <1>4 DEF PhaseInv
<1>10. /\ \A e \in Envs, i \in Nat, a \in Pool : OwnedBy(e, i, a) => OwnedBy(e, i, a)'
       /\ \A e \in Envs : (net[e].status = "enabled" => OwnedBy(e, net[e].id, net[e].addr))'
       /\ (\A k \in applied + 1 .. Len(log) :
             log[k].kind = "enabled" => OwnedBy(log[k].env, log[k].id, log[k].addr))'
  <2>1. \A s \in alloc' : \E r \in alloc : r.id = s.id /\ r.env = s.env /\ r.addr = s.addr
    BY <1>6, <1>7
  <2>2. \A r \in alloc : r.state # "expired" =>
          \E s \in alloc' : /\ s.id = r.id /\ s.env = r.env /\ s.addr = r.addr
                            /\ s.state # "expired"
    BY <1>6, <1>7
  <2>3. allocs <= allocs'
    BY <1>2, <1>4
  <2>4. QED
    BY <1>1, <1>4, <2>1, <2>2, <2>3, RefsKept
<1>11. \A d \in Clients : (Enabling(d)' <=> Enabling(d)) /\ (Disabling(d)' <=> Disabling(d))
  BY <1>4, <1>5 DEF Enabling, Disabling
<1>12. \A d \in Clients : req'[d].env = req[d].env /\ req'[d].id = req[d].id
  BY <1>3, <1>4
<1>13. RefInv'
  <2>1. ASSUME NEW d \in Clients, Enabling(d)'
        PROVE  OwnedBy(req[d].env, req[d].id, req[d].addr)'
    <3>0. d # c
      BY <1>5, <2>1
    <3>1. PICK e, i, a : e = req[d].env /\ i = req[d].id /\ a = req[d].addr
      OBVIOUS
    <3>2. OwnedBy(e, i, a) /\ e \in Envs /\ i \in Nat /\ a \in Pool
      BY <1>1, <1>2, <1>11, <2>1, <3>1 DEF RefInv, OwnedBy, Handler
    <3>3. OwnedBy(e, i, a)'
      BY <1>10, <3>2
    <3>4. req'[d].env = e /\ req'[d].id = i /\ req'[d].addr = a
      BY <1>4, <3>0, <3>1
    <3>5. QED
      BY <3>3, <3>4 DEF OwnedBy
  <2>2. ASSUME NEW d \in Clients, Disabling(d)'
        PROVE  (\E a \in Pool : OwnedBy(req[d].env, req[d].id, a))'
    <3>1. PICK e, i : e = req[d].env /\ i = req[d].id
      OBVIOUS
    <3>2. PICK a \in Pool : OwnedBy(e, i, a)
      BY <1>1, <1>11, <2>2, <3>1 DEF RefInv
    <3>3. e \in Envs /\ i \in Nat
      BY <1>2, <3>1 DEF Handler
    <3>4. OwnedBy(e, i, a)'
      BY <1>10, <3>2, <3>3
    <3>5. req'[d].env = e /\ req'[d].id = i
      BY <1>12, <3>1
    <3>6. OwnedBy(req[d].env, req[d].id, a)'
      BY <3>4, <3>5 DEF OwnedBy
    <3>7. QED
      BY <3>6
  <2>3. QED
    BY <1>10, <2>1, <2>2 DEF RefInv
<1>14. \A e \in Envs : Announced(e)' = Announced(e) /\ \A k : IsLatest(e, k)' <=> IsLatest(e, k)
  BY <1>4 DEF Announced, IsLatest
<1>15. NetInv'
  BY <1>1, <1>4, <1>14 DEF NetInv
<1>16. \A r \in alloc : r.id = n => r.env = f
  BY <1>1, <1>3, <1>5 DEF RefInv, OwnedBy
<1>17. EnableInv'
  <2> SUFFICES ASSUME NEW d \in Clients, NEW e \in Envs \ cut', Enabling(d)', req'[d].env = e
               PROVE  /\ \E r \in alloc' : r.id = req'[d].id /\ r.state = "active"
                      /\ \A b \in Clients \ {d} : (Enabling(b) \/ Disabling(b))' => req'[b].env # e
                      /\ net'[e].status # "enabled"
                      /\ (\A k \in applied + 1 .. Len(log) :
                           log[k].env = e => log[k].kind # "enabled")'
                      /\ Announced(e)' = {}
    BY DEF EnableInv
  <2>1. Enabling(d) /\ req[d].env = e /\ e \notin cut /\ d # c
    BY <1>4, <1>5, <1>11, <1>12
  <2>2. /\ \E r \in alloc : r.id = req[d].id /\ r.state = "active"
        /\ \A b \in Clients \ {d} : Enabling(b) \/ Disabling(b) => req[b].env # e
        /\ net[e].status # "enabled"
        /\ \A k \in applied + 1 .. Len(log) : log[k].env = e => log[k].kind # "enabled"
        /\ Announced(e) = {}
    BY <1>1, <2>1 DEF EnableInv
  <2>3. PICK r \in alloc : r.id = req[d].id /\ r.state = "active"
    BY <2>2
  <2>4. r.env = e /\ e # f
    BY <1>1, <1>3, <1>5, <2>1, <2>2, <2>3 DEF RefInv, OwnedBy
  <2>5. r \in alloc'
    BY <1>6, <1>7, <1>16, <2>4
  <2>6. QED
    BY <1>4, <1>11, <1>12, <1>14, <2>2, <2>3, <2>5
<1>18. DisableInv'
  <2> SUFFICES ASSUME NEW d \in Clients, Disabling(d)', req'[d].phase # "read",
                      req'[d].env \notin cut', NEW s \in alloc', s.env = req'[d].env,
                      s.state = "active"
               PROVE  FALSE
    BY DEF DisableInv
  <2>1. s \in alloc /\ s.id # n
    BY <1>6, <1>7
  <2>2. CASE d # c
    BY <1>1, <1>4, <2>1, <2>2 DEF DisableInv, Disabling
  <2>3. CASE d = c
    <3>1. s.env = f /\ f \notin cut
      BY <1>4, <2>3
    <3>2. \E r \in alloc : r.id = n /\ r.env = f
      BY <1>1, <1>3, <1>5, <3>1 DEF RefInv, OwnedBy
    <3>3. QED
      BY <1>1, <2>1, <3>1, <3>2 DEF RowInv
  <2>4. QED
    BY <2>2, <2>3
<1>19. RowsMatchLog'
  <2> SUFFICES ASSUME NEW e \in Envs, ~InFlight(e)', e \notin cut'
               PROVE  {r.id : r \in {s \in alloc' : s.env = e /\ s.state = "active"}} = Announced(e)
    BY <1>14 DEF RowsMatchLog
  <2>1. e # f
    BY <1>4 DEF InFlight
  <2>2. ~InFlight(e)
    BY <1>4, <1>12, <2>1 DEF InFlight
  <2>3. \A s \in alloc' : s.state = "active" => s \in alloc
    BY <1>6, <1>7
  <2>4. \A s \in alloc : s.env = e => s \in alloc'
    BY <1>6, <1>7, <1>16, <2>1
  <2>5. {s \in alloc' : s.env = e /\ s.state = "active"} = {s \in alloc : s.env = e /\ s.state = "active"}
    BY <2>3, <2>4
  <2>6. QED
    BY <1>1, <1>4, <2>2, <2>5 DEF RowsMatchLog
<1>20. QED
  BY <1>8, <1>9, <1>13, <1>15, <1>17, <1>18, <1>19 DEF AddonInv

\* DELETE of a row whose cooldown is over: nothing that counts names it any more.
LEMMA CleanupStep ==
    ASSUME AddonInv, TypeOK', NEW w \in alloc, CleanupCooldown(w)
    PROVE  AddonInv'
<1>1. TypeOK /\ RowInv /\ PhaseInv /\ RefInv /\ NetInv /\ EnableInv /\ DisableInv /\ RowsMatchLog
  BY DEF AddonInv
<1>2. allocs \in Nat /\ req \in [Clients -> Handler]
  BY <1>1, AddonAssumption DEF TypeOK
<1>3. /\ w.state = "expired" /\ alloc' = alloc \ {w}
      /\ UNCHANGED <<allocs, log, applied, net, req, cut>>
  BY DEF CleanupCooldown
<1>4. /\ \A e \in Envs, i \in Nat, a \in Pool : OwnedBy(e, i, a) => OwnedBy(e, i, a)'
      /\ \A e \in Envs : (net[e].status = "enabled" => OwnedBy(e, net[e].id, net[e].addr))'
      /\ (\A k \in applied + 1 .. Len(log) :
            log[k].kind = "enabled" => OwnedBy(log[k].env, log[k].id, log[k].addr))'
  <2>1. allocs <= allocs'
    BY <1>2, <1>3
  <2>2. \A s \in alloc' : s \in alloc
    BY <1>3
  <2>3. \A r \in alloc : r.state # "expired" => r \in alloc'
    BY <1>3
  <2>4. QED
    BY <1>1, <1>3, <2>1, <2>2, <2>3, RefsKept
<1>5. \A d \in Clients : (Enabling(d)' <=> Enabling(d)) /\ (Disabling(d)' <=> Disabling(d))
  BY <1>3 DEF Enabling, Disabling
<1>6. RefInv'
  <2>1. ASSUME NEW d \in Clients, Enabling(d)'
        PROVE  OwnedBy(req[d].env, req[d].id, req[d].addr)'
    <3>1. PICK e, i, a : e = req[d].env /\ i = req[d].id /\ a = req[d].addr
      OBVIOUS
    <3>2. OwnedBy(e, i, a) /\ e \in Envs /\ i \in Nat /\ a \in Pool
      BY <1>1, <1>2, <1>5, <2>1, <3>1 DEF RefInv, OwnedBy, Handler
    <3>3. OwnedBy(e, i, a)'
      BY <1>4, <3>2
    <3>4. QED
      BY <1>3, <3>1, <3>3 DEF OwnedBy
  <2>2. ASSUME NEW d \in Clients, Disabling(d)'
        PROVE  (\E a \in Pool : OwnedBy(req[d].env, req[d].id, a))'
    <3>1. PICK e, i : e = req[d].env /\ i = req[d].id
      OBVIOUS
    <3>2. PICK a \in Pool : OwnedBy(e, i, a)
      BY <1>1, <1>5, <2>2, <3>1 DEF RefInv
    <3>3. e \in Envs /\ i \in Nat
      BY <1>2, <3>1 DEF Handler
    <3>4. OwnedBy(e, i, a)'
      BY <1>4, <3>2, <3>3
    <3>5. OwnedBy(req[d].env, req[d].id, a)'
      BY <1>3, <3>1, <3>4 DEF OwnedBy
    <3>6. QED
      BY <3>5
  <2>3. QED
    BY <1>4, <2>1, <2>2 DEF RefInv
<1>7. \A e \in Envs : Announced(e)' = Announced(e) /\ \A k : IsLatest(e, k)' <=> IsLatest(e, k)
  BY <1>3 DEF Announced, IsLatest
<1>8. RowInv' /\ PhaseInv' /\ DisableInv'
  BY <1>1, <1>3, <1>5 DEF RowInv, PhaseInv, DisableInv
<1>9. NetInv'
  BY <1>1, <1>3, <1>7 DEF NetInv
<1>10. EnableInv'
  BY <1>1, <1>3, <1>5, <1>7 DEF EnableInv
<1>11. RowsMatchLog'
  <2>1. \A e \in Envs : {s \in alloc' : s.env = e /\ s.state = "active"}
                        = {s \in alloc : s.env = e /\ s.state = "active"}
    BY <1>3
  <2>2. \A e \in Envs : InFlight(e)' <=> InFlight(e)
    BY <1>3 DEF InFlight
  <2>3. QED
    BY <1>1, <1>3, <1>7, <2>1, <2>2 DEF RowsMatchLog
<1>12. QED
  BY <1>6, <1>8, <1>9, <1>10, <1>11 DEF AddonInv

\* A cooldown ends with no request running and the view up to date: the view then names
\* only allocations whose rows are unreleased, so not this one.
LEMMA CooldownStep ==
    ASSUME AddonInv, TypeOK', NEW w \in alloc, CooldownEnds(w)
    PROVE  AddonInv'
<1>1. TypeOK /\ RowInv /\ PhaseInv /\ RefInv /\ NetInv /\ EnableInv /\ DisableInv /\ RowsMatchLog
  BY DEF AddonInv
<1>2. /\ w.state = "cooling" /\ applied = Len(log) /\ \A c \in Clients : req[c].phase = "idle"
      /\ UNCHANGED <<allocs, log, applied, net, req, cut>>
  BY DEF CooldownEnds
<1>3. PICK x : /\ alloc' = (alloc \ {w}) \cup {x}
               /\ x.id = w.id /\ x.env = w.env /\ x.addr = w.addr /\ x.state = "expired"
  <2>1. PICK x : x = [w EXCEPT !.state = "expired"]
    OBVIOUS
  <2>2. w \in Row
    BY <1>1 DEF TypeOK
  <2>3. x.id = w.id /\ x.env = w.env /\ x.addr = w.addr /\ x.state = "expired"
    BY <2>1, <2>2 DEF Row
  <2>4. QED
    BY <2>1, <2>3 DEF CooldownEnds
<1>4. \A d \in Clients : ~Enabling(d)' /\ ~Disabling(d)'
  BY <1>2 DEF Enabling, Disabling
<1>5. \A e \in Envs : ~InFlight(e) /\ ~InFlight(e)'
  BY <1>2 DEF InFlight
<1>6. \A e \in Envs : Announced(e)' = Announced(e) /\ \A k : IsLatest(e, k)' <=> IsLatest(e, k)
  BY <1>2 DEF Announced, IsLatest
<1>7. RowInv'
  <2>1. \A r, s \in alloc : r.id = s.id \/ r.env = s.env \/ r.addr = s.addr => r = s
    BY <1>1 DEF RowInv
  <2>2. \A r \in alloc \ {w} : r.id # x.id /\ r.env # x.env /\ r.addr # x.addr
    BY <1>3, <2>1
  <2>3. \A r, s \in alloc' : r.id = s.id \/ r.env = s.env \/ r.addr = s.addr => r = s
    BY <1>3, <2>1, <2>2
  <2>4. \A r \in alloc' : r.id <= allocs'
    BY <1>1, <1>2, <1>3 DEF RowInv
  <2>5. QED
    BY <2>3, <2>4 DEF RowInv
<1>8. ASSUME NEW e \in Envs, net[e].status = "enabled", e \notin cut
      PROVE  \E r \in alloc : r.id = net[e].id /\ r.state = "active"
  <2>1. PICK k \in 1 .. applied :
          /\ log[k].env = e /\ log[k].kind = "enabled" /\ log[k].id = net[e].id
          /\ \A j \in k + 1 .. applied : log[j].env = e => log[j].kind = "other"
    BY <1>1, <1>8 DEF NetInv
  <2>2. IsLatest(e, k)
    BY <1>2, <2>1 DEF IsLatest
  <2>3. net[e].id \in Announced(e)
    BY <1>2, <2>1, <2>2 DEF Announced
  <2>4. QED
    BY <1>1, <1>5, <1>8, <2>3 DEF RowsMatchLog
<1>9. RefInv'
  <2>1. ASSUME NEW e \in Envs, (net[e].status = "enabled")'
        PROVE  OwnedBy(e, net[e].id, net[e].addr)'
    <3>1. OwnedBy(e, net[e].id, net[e].addr)
      BY <1>1, <1>2, <2>1 DEF RefInv
    <3>2. PICK i, a : i = net[e].id /\ a = net[e].addr
      OBVIOUS
    <3>3. \A r \in alloc' : r.id = i => r.env = e /\ r.addr = a
      BY <1>3, <3>1, <3>2 DEF OwnedBy
    <3>4. ASSUME e \notin cut
          PROVE  \E r \in alloc' : r.id = i /\ r.env = e /\ r.addr = a /\ r.state # "expired"
      <4>1. PICK r \in alloc : r.id = i /\ r.state = "active"
        BY <1>2, <1>8, <2>1, <3>2, <3>4
      <4>2. r \in alloc'
        BY <1>2, <1>3, <4>1
      <4>3. QED
        BY <3>3, <4>1, <4>2
    <3>5. i \in 1 .. allocs' /\ a \in Pool
      BY <1>2, <3>1, <3>2 DEF OwnedBy
    <3>6. OwnedBy(e, i, a)'
      BY <1>2, <3>3, <3>4, <3>5 DEF OwnedBy
    <3>7. QED
      BY <1>2, <3>2, <3>6 DEF OwnedBy
  <2>2. (\A k \in applied + 1 .. Len(log) :
           log[k].kind = "enabled" => OwnedBy(log[k].env, log[k].id, log[k].addr))'
    <3>1. \A k \in (applied + 1 .. Len(log))' : FALSE
      BY <1>1, <1>2 DEF TypeOK
    <3>2. QED
      BY <3>1
  <2>3. QED
    BY <1>4, <2>1, <2>2 DEF RefInv
<1>10. PhaseInv'
  BY <1>1, <1>2 DEF PhaseInv
<1>11. NetInv'
  BY <1>1, <1>2, <1>6 DEF NetInv
<1>12. EnableInv' /\ DisableInv'
  BY <1>4 DEF EnableInv, DisableInv
<1>13. RowsMatchLog'
  <2>1. \A e \in Envs : {s \in alloc' : s.env = e /\ s.state = "active"}
                        = {s \in alloc : s.env = e /\ s.state = "active"}
    BY <1>2, <1>3
  <2>2. QED
    BY <1>1, <1>2, <1>5, <1>6, <2>1 DEF RowsMatchLog
<1>14. QED
  BY <1>7, <1>9, <1>10, <1>11, <1>12, <1>13 DEF AddonInv

----------------------------------------------------------------------------
\* The steps that change the log or the view.

\* NetInv after a step that leaves the view alone.
LEMMA NetInvStays ==
    ASSUME applied' = applied, net' = net,
           \A e \in Envs, k \in 1 .. applied :
               IsLatest(e, k)' /\ (log[k].kind = "enabled")' =>
                   net[e].status = "enabled" /\ net[e].id = log'[k].id,
           \A e \in Envs : net[e].status = "enabled" => \E k \in 1 .. applied :
               /\ log'[k].env = e /\ log'[k].kind = "enabled" /\ log'[k].id = net[e].id
               /\ \A j \in k + 1 .. applied : log'[j].env = e => log'[j].kind = "other"
    PROVE  NetInv'
  BY DEF NetInv

\* An event joins the log.  If it enables the add-on it names the environment's allocation,
\* and no other request is between inserting a row for that environment and announcing it.
LEMMA AddonLogGrows ==
    ASSUME AddonInv, TypeOK', NEW ev \in Event, log' = Append(log, ev),
           UNCHANGED <<alloc, allocs, applied, net, cut>>, PhaseInv',
           \A d \in Clients :
               /\ req'[d].env = req[d].env /\ req'[d].id = req[d].id /\ req'[d].addr = req[d].addr
               /\ req'[d].phase = req[d].phase \/ req'[d].phase = "waiting"
               /\ req'[d].op = req[d].op,
           ev.kind = "enabled" =>
               /\ OwnedBy(ev.env, ev.id, ev.addr)
               /\ ev.env \notin cut => \A d \in Clients : Enabling(d)' => req[d].env # ev.env
    PROVE  RowInv' /\ RefInv' /\ NetInv' /\ EnableInv' /\ DisableInv'
<1>1. TypeOK /\ RowInv /\ PhaseInv /\ RefInv /\ NetInv /\ EnableInv /\ DisableInv
  BY DEF AddonInv
<1>2. req \in [Clients -> Handler] /\ applied \in Nat
  BY <1>1 DEF TypeOK
<1>3. PICK n \in Nat : n = Len(log)
  BY <1>1 DEF TypeOK
<1>4. /\ applied <= n /\ Len(log') = n + 1
      /\ \A i \in 1 .. n : log'[i] = log[i]
      /\ log'[n + 1] = ev
  BY <1>1, <1>3, AppendFacts DEF TypeOK
<1>5. \A d \in Clients : (Enabling(d)' => Enabling(d)) /\ (Disabling(d)' => Disabling(d))
  BY DEF Enabling, Disabling
<1>6. \A k \in (applied + 1 .. Len(log))' :
        (k \in applied + 1 .. Len(log) /\ log'[k] = log[k]) \/ log'[k] = ev
  BY <1>2, <1>3, <1>4
<1>7. RowInv'
  BY <1>1 DEF RowInv
<1>8. RefInv'
  <2>0. \A e, i, a : OwnedBy(e, i, a) => OwnedBy(e, i, a)'
    BY DEF OwnedBy
  <2>1. ASSUME NEW e \in Envs, (net[e].status = "enabled")'
        PROVE  OwnedBy(e, net[e].id, net[e].addr)'
    <3>1. OwnedBy(e, net[e].id, net[e].addr)
      BY <1>1, <2>1 DEF RefInv
    <3>2. QED
      BY <3>1 DEF OwnedBy
  <2>2. ASSUME NEW k \in (applied + 1 .. Len(log))', (log[k].kind = "enabled")'
        PROVE  OwnedBy(log[k].env, log[k].id, log[k].addr)'
    <3>1. PICK e, i, a : e = log'[k].env /\ i = log'[k].id /\ a = log'[k].addr
      OBVIOUS
    <3>2. OwnedBy(e, i, a)
      BY <1>1, <1>6, <2>2, <3>1 DEF RefInv
    <3>3. OwnedBy(e, i, a)'
      BY <2>0, <3>2
    <3>4. QED
      BY <3>1, <3>3 DEF OwnedBy
  <2>3. ASSUME NEW d \in Clients, Enabling(d)'
        PROVE  OwnedBy(req[d].env, req[d].id, req[d].addr)'
    <3>1. OwnedBy(req[d].env, req[d].id, req[d].addr)
      BY <1>1, <1>5, <2>3 DEF RefInv
    <3>2. QED
      BY <3>1 DEF OwnedBy
  <2>4. ASSUME NEW d \in Clients, Disabling(d)'
        PROVE  (\E a \in Pool : OwnedBy(req[d].env, req[d].id, a))'
    <3>1. PICK a \in Pool : OwnedBy(req[d].env, req[d].id, a)
      BY <1>1, <1>5, <2>4 DEF RefInv
    <3>2. OwnedBy(req[d].env, req[d].id, a)'
      BY <3>1 DEF OwnedBy
    <3>3. QED
      BY <3>2
  <2>5. QED
    BY <2>1, <2>2, <2>3, <2>4 DEF RefInv
<1>9. \A e \in Envs, k \in 1 .. n : IsLatest(e, k)' => IsLatest(e, k)
  BY <1>1, <1>3, AnnouncedKept, AnnouncedNow
<1>10. NetInv'
  <2>1. ASSUME NEW e \in Envs, NEW k \in 1 .. applied, IsLatest(e, k)', (log[k].kind = "enabled")'
        PROVE  net[e].status = "enabled" /\ net[e].id = log'[k].id
    <3>1. k \in 1 .. n /\ log'[k] = log[k]
      BY <1>2, <1>4
    <3>2. QED
      BY <1>1, <1>9, <2>1, <3>1 DEF NetInv
  <2>2. ASSUME NEW e \in Envs, net[e].status = "enabled"
        PROVE  \E k \in 1 .. applied :
                 /\ log'[k].env = e /\ log'[k].kind = "enabled" /\ log'[k].id = net[e].id
                 /\ \A j \in k + 1 .. applied : log'[j].env = e => log'[j].kind = "other"
    <3>1. PICK k \in 1 .. applied :
             /\ log[k].env = e /\ log[k].kind = "enabled" /\ log[k].id = net[e].id
             /\ \A j \in k + 1 .. applied : log[j].env = e => log[j].kind = "other"
      BY <1>1, <2>2 DEF NetInv
    <3>2. log'[k] = log[k] /\ \A j \in k + 1 .. applied : log'[j] = log[j]
      BY <1>2, <1>4
    <3>3. QED
      BY <3>1, <3>2, ZenonT(60)
  <2>3. applied' = applied /\ net' = net
    OBVIOUS
  <2>4. \A e \in Envs, k \in 1 .. applied :
          IsLatest(e, k)' /\ (log[k].kind = "enabled")' =>
            net[e].status = "enabled" /\ net[e].id = log'[k].id
    BY <2>1
  <2>5. QED
    BY <2>2, <2>3, <2>4, NetInvStays
<1>11. EnableInv'
  <2> SUFFICES ASSUME NEW d \in Clients, NEW e \in Envs \ cut', Enabling(d)', req'[d].env = e
               PROVE  /\ \E r \in alloc' : r.id = req'[d].id /\ r.state = "active"
                      /\ \A b \in Clients \ {d} : (Enabling(b) \/ Disabling(b))' => req'[b].env # e
                      /\ net'[e].status # "enabled"
                      /\ (\A k \in applied + 1 .. Len(log) :
                           log[k].env = e => log[k].kind # "enabled")'
                      /\ Announced(e)' = {}
    BY DEF EnableInv
  <2>1. Enabling(d) /\ req[d].env = e /\ e \notin cut
    BY <1>5
  <2>2. /\ \E r \in alloc : r.id = req[d].id /\ r.state = "active"
        /\ \A b \in Clients \ {d} : Enabling(b) \/ Disabling(b) => req[b].env # e
        /\ net[e].status # "enabled"
        /\ \A k \in applied + 1 .. Len(log) : log[k].env = e => log[k].kind # "enabled"
        /\ Announced(e) = {}
    BY <1>1, <2>1 DEF EnableInv
  <2>3. ev.env = e => ev.kind # "enabled"
    BY <2>1
  <2>4. Announced(e)' = {}
    <3>1. CASE ev.env # e \/ ev.kind = "other"
      BY <1>1, <2>2, <3>1, AnnouncedKept
    <3>2. CASE ev.env = e /\ ev.kind # "other"
      BY <1>1, <2>3, <3>2, AnnouncedNow
    <3>3. QED
      BY <3>1, <3>2
  <2>5. (\A k \in applied + 1 .. Len(log) : log[k].env = e => log[k].kind # "enabled")'
    BY <1>6, <2>2, <2>3
  <2>6. QED
    BY <1>5, <2>2, <2>4, <2>5
<1>12. DisableInv'
  <2>1. \A d \in Clients : Disabling(d)' => req'[d].phase = req[d].phase
    BY DEF Disabling
  <2>2. QED
    BY <1>1, <1>5, <2>1 DEF DisableInv
<1>13. QED
  BY <1>7, <1>8, <1>10, <1>11, <1>12

LEMMA AppendStep ==
    ASSUME AddonInv, TypeOK', NEW c \in Clients, AppendEvent(c)
    PROVE  AddonInv'
<1>1. TypeOK /\ RowInv /\ PhaseInv /\ RefInv /\ EnableInv /\ DisableInv /\ RowsMatchLog
  BY DEF AddonInv
<1>2. req \in [Clients -> Handler]
  BY <1>1 DEF TypeOK
<1>3. PICK ev : ev = EventOf(c)
  OBVIOUS
<1>4. /\ ev \in Event /\ ev.env = req[c].env /\ ev.id = req[c].id /\ ev.addr = req[c].addr
      /\ ev.kind = IF req[c].op = "enable" THEN "enabled" ELSE "disabled"
  BY <1>2, <1>3 DEF EventOf, Event, Handler
<1>5. /\ log' = Append(log, ev)
      /\ \A d \in Clients \ {c} : req'[d] = req[d]
      /\ req'[c].env = req[c].env /\ req'[c].id = req[c].id /\ req'[c].addr = req[c].addr
      /\ req'[c].op = req[c].op /\ req'[c].phase = "waiting" /\ req[c].phase = "numbered"
      /\ UNCHANGED <<alloc, allocs, applied, net, cut>>
  BY <1>2, <1>3 DEF AppendEvent, Handler
<1>6. PhaseInv'
  BY <1>1, <1>5 DEF PhaseInv
<1>7. \A d \in Clients \ {c} : (Enabling(d)' <=> Enabling(d)) /\ (Disabling(d)' <=> Disabling(d))
  BY <1>5 DEF Enabling, Disabling
<1>8. /\ ~Enabling(c)' /\ ~Disabling(c)'
      /\ ev.kind = "enabled" => Enabling(c)
      /\ ev.kind = "disabled" => Disabling(c)
      /\ ev.kind = "enabled" \/ ev.kind = "disabled"
  BY <1>2, <1>4, <1>5 DEF Enabling, Disabling, Handler
<1>9. PICK f \in Envs : f = ev.env /\ f = req[c].env
  BY <1>4 DEF Event
<1>10. ASSUME ev.kind = "enabled"
       PROVE  /\ OwnedBy(ev.env, ev.id, ev.addr)
              /\ f \notin cut => \A d \in Clients : Enabling(d)' => req[d].env # f
  <2>1. OwnedBy(ev.env, ev.id, ev.addr)
    BY <1>1, <1>4, <1>8, <1>10 DEF RefInv
  <2>2. ASSUME f \notin cut, NEW d \in Clients, Enabling(d)'
        PROVE  req[d].env # f
    BY <1>1, <1>7, <1>8, <1>9, <1>10, <2>2 DEF EnableInv
  <2>3. QED
    BY <2>1, <2>2
<1>11. RowInv' /\ RefInv' /\ NetInv' /\ EnableInv' /\ DisableInv'
  <2>1. \A d \in Clients :
           /\ req'[d].env = req[d].env /\ req'[d].id = req[d].id /\ req'[d].addr = req[d].addr
           /\ req'[d].phase = req[d].phase \/ req'[d].phase = "waiting"
           /\ req'[d].op = req[d].op
    BY <1>5
  <2>2. QED
    BY <1>4, <1>5, <1>6, <1>9, <1>10, <2>1, AddonLogGrows
<1>12. RowsMatchLog'
  <2> SUFFICES ASSUME NEW e \in Envs, ~InFlight(e)', e \notin cut
               PROVE  {r.id : r \in {s \in alloc : s.env = e /\ s.state = "active"}} = Announced(e)'
    BY <1>5 DEF RowsMatchLog
  <2>1. CASE e # f
    <3>1. ~InFlight(e)
      BY <1>5, <1>9, <2>1 DEF InFlight
    <3>2. Announced(e)' = Announced(e)
      BY <1>1, <1>4, <1>5, <1>9, <2>1, AnnouncedKept
    <3>3. QED
      BY <1>1, <3>1, <3>2 DEF RowsMatchLog
  <2>2. CASE e = f /\ ev.kind = "enabled"
    <3>1. Announced(e)' = {ev.id}
      BY <1>1, <1>4, <1>5, <1>9, <2>2, AnnouncedNow
    <3>2. PICK r \in alloc : r.id = req[c].id /\ r.state = "active"
      BY <1>1, <1>8, <1>9, <2>2 DEF EnableInv
    <3>3. r.env = e
      BY <1>1, <1>8, <1>9, <2>2, <3>2 DEF RefInv, OwnedBy
    <3>4. {s \in alloc : s.env = e /\ s.state = "active"} = {r}
      BY <1>1, <3>2, <3>3 DEF RowInv
    <3>5. QED
      BY <1>4, <3>1, <3>2, <3>4
  <2>3. CASE e = f /\ ev.kind = "disabled"
    <3>1. Announced(e)' = {}
      BY <1>1, <1>4, <1>5, <1>9, <2>3, AnnouncedNow
    <3>2. \A r \in alloc : r.env = e => r.state # "active"
      BY <1>1, <1>5, <1>8, <1>9, <2>3 DEF DisableInv
    <3>3. QED
      BY <3>1, <3>2
  <2>4. QED
    BY <1>8, <2>1, <2>2, <2>3
<1>13. QED
  BY <1>6, <1>11, <1>12 DEF AddonInv

LEMMA OtherStep ==
    ASSUME AddonInv, TypeOK', NEW e \in Envs, OtherEvent(e)
    PROVE  AddonInv'
<1>1. TypeOK /\ PhaseInv /\ RowsMatchLog
  BY DEF AddonInv
<1>2. PICK ev \in Event : ev.kind = "other" /\ log' = Append(log, ev)
  <2>1. [env |-> e, kind |-> "other", addr |-> 0, id |-> 0] \in Event
    BY DEF Event
  <2>2. QED
    BY <2>1 DEF OtherEvent
<1>3. UNCHANGED <<alloc, allocs, applied, net, req, cut>>
  BY DEF OtherEvent
<1>4. PhaseInv'
  BY <1>1, <1>3 DEF PhaseInv
<1>5. RowInv' /\ RefInv' /\ NetInv' /\ EnableInv' /\ DisableInv'
  BY <1>2, <1>3, <1>4, AddonLogGrows
<1>6. \A f \in Envs : Announced(f)' = Announced(f)
  BY <1>1, <1>2, AnnouncedKept
<1>7. \A f \in Envs : InFlight(f)' <=> InFlight(f)
  BY <1>3 DEF InFlight
<1>8. RowsMatchLog'
  BY <1>1, <1>3, <1>6, <1>7 DEF RowsMatchLog
<1>9. QED
  BY <1>4, <1>5, <1>8 DEF AddonInv

\* The projection applies the next event: the view takes over what the event names.
LEMMA ProjectStep ==
    ASSUME AddonInv, TypeOK', Project
    PROVE  AddonInv'
<1>1. TypeOK /\ RowInv /\ PhaseInv /\ RefInv /\ NetInv /\ EnableInv /\ DisableInv /\ RowsMatchLog
  BY DEF AddonInv
<1>2. PICK ev, n : ev = log[applied + 1] /\ n = applied + 1
  OBVIOUS
<1>3. /\ n = applied + 1 /\ applied \in Nat /\ n \in Nat /\ applied' = n /\ n <= Len(log)
      /\ Len(log) \in Nat /\ log[n] = ev /\ ev \in Event /\ ev.env \in Envs
      /\ UNCHANGED <<alloc, allocs, log, req, cut>>
  <2>1. applied \in Nat /\ Len(log) \in Nat /\ applied + 1 \in 1 .. Len(log)
    BY <1>1 DEF Project, TypeOK
  <2>2. log[applied + 1] \in Event
    BY <1>1, <2>1 DEF TypeOK
  <2>3. UNCHANGED <<alloc, allocs, log, req, cut>> /\ applied' = applied + 1
    BY DEF Project
  <2>4. ev.env \in Envs
    BY <1>2, <2>2 DEF Event
  <2>5. QED
    BY <1>2, <2>1, <2>2, <2>3, <2>4
<1>4. /\ \A e \in Envs : ev.env # e \/ ev.kind = "other" => net'[e] = net[e]
      /\ ev.kind = "enabled" =>
           /\ net'[ev.env].status = "enabled"
           /\ net'[ev.env].id = ev.id /\ net'[ev.env].addr = ev.addr
      /\ ev.kind = "disabled" => net'[ev.env].status # "enabled"
  <2>1. net' = [net EXCEPT ![ev.env] = NetRowAfter(@, ev)]
    BY <1>2 DEF Project
  <2>2. net \in [Envs -> NetRow]
    BY <1>1 DEF TypeOK
  <2>3. QED
    BY <1>3, <2>1, <2>2 DEF NetRowAfter, NetRow
<1>5. ev.kind \in {"enabled", "disabled", "other"}
  BY <1>3 DEF Event
<1>6. \A d \in Clients : (Enabling(d)' <=> Enabling(d)) /\ (Disabling(d)' <=> Disabling(d))
  BY <1>3 DEF Enabling, Disabling
<1>7. \A e \in Envs : Announced(e)' = Announced(e) /\ \A k : IsLatest(e, k)' <=> IsLatest(e, k)
  BY <1>3 DEF Announced, IsLatest
<1>8. RowInv' /\ PhaseInv' /\ DisableInv'
  BY <1>1, <1>3, <1>6 DEF RowInv, PhaseInv, DisableInv
<1>9. RefInv'
  <2>1. ASSUME NEW e \in Envs, (net[e].status = "enabled")'
        PROVE  OwnedBy(e, net[e].id, net[e].addr)'
    <3>1. PICK i, a : i = net'[e].id /\ a = net'[e].addr
      OBVIOUS
    <3>2. OwnedBy(e, i, a)
      <4>1. CASE ev.env = e /\ ev.kind = "enabled"
        <5>1. n \in applied + 1 .. Len(log)
          BY <1>3
        <5>2. OwnedBy(ev.env, ev.id, ev.addr)
          BY <1>1, <1>3, <4>1, <5>1 DEF RefInv
        <5>3. QED
          BY <1>4, <3>1, <4>1, <5>2
      <4>2. CASE ev.env # e \/ ev.kind = "other"
        BY <1>1, <1>4, <2>1, <3>1, <4>2 DEF RefInv
      <4>3. QED
        BY <1>4, <1>5, <2>1, <4>1, <4>2
    <3>3. QED
      BY <1>3, <3>1, <3>2 DEF OwnedBy
  <2>2. ASSUME NEW k \in (applied + 1 .. Len(log))', (log[k].kind = "enabled")'
        PROVE  OwnedBy(log[k].env, log[k].id, log[k].addr)'
    <3>1. k \in applied + 1 .. Len(log)
      BY <1>3
    <3>2. OwnedBy(log[k].env, log[k].id, log[k].addr)
      BY <1>1, <1>3, <2>2, <3>1 DEF RefInv
    <3>3. QED
      BY <1>3, <3>2 DEF OwnedBy
  <2>3. ASSUME NEW d \in Clients, Enabling(d)'
        PROVE  OwnedBy(req[d].env, req[d].id, req[d].addr)'
    <3>1. OwnedBy(req[d].env, req[d].id, req[d].addr)
      BY <1>1, <1>6, <2>3 DEF RefInv
    <3>2. QED
      BY <1>3, <3>1 DEF OwnedBy
  <2>4. ASSUME NEW d \in Clients, Disabling(d)'
        PROVE  (\E a \in Pool : OwnedBy(req[d].env, req[d].id, a))'
    <3>1. PICK a \in Pool : OwnedBy(req[d].env, req[d].id, a)
      BY <1>1, <1>6, <2>4 DEF RefInv
    <3>2. OwnedBy(req[d].env, req[d].id, a)'
      BY <1>3, <3>1 DEF OwnedBy
    <3>3. QED
      BY <3>2
  <2>5. QED
    BY <2>1, <2>2, <2>3, <2>4 DEF RefInv
<1>10. NetInv'
  <2>1. ASSUME NEW e \in Envs, NEW k \in 1 .. n, IsLatest(e, k), log[k].kind = "enabled"
        PROVE  net'[e].status = "enabled" /\ net'[e].id = log[k].id
    <3>1. CASE k = n
      BY <1>3, <1>4, <2>1, <3>1 DEF IsLatest
    <3>2. CASE k # n
      <4>1. k \in 1 .. applied /\ n \in k + 1 .. Len(log)
        BY <1>3, <3>2
      <4>2. ev.env # e \/ ev.kind = "other"
        BY <1>3, <2>1, <4>1 DEF IsLatest
      <4>3. QED
        BY <1>1, <1>4, <2>1, <4>1, <4>2 DEF NetInv
    <3>3. QED
      BY <3>1, <3>2
  <2>2. ASSUME NEW e \in Envs, net'[e].status = "enabled"
        PROVE  \E k \in 1 .. n :
                 /\ log[k].env = e /\ log[k].kind = "enabled" /\ log[k].id = net'[e].id
                 /\ \A j \in k + 1 .. n : log[j].env = e => log[j].kind = "other"
    <3>1. CASE ev.env = e /\ ev.kind = "enabled"
      <4>1. n \in 1 .. n /\ \A j \in n + 1 .. n : FALSE
        BY <1>3
      <4>2. log[n].env = e /\ log[n].kind = "enabled" /\ log[n].id = net'[e].id
        BY <1>3, <1>4, <3>1
      <4>3. QED
        BY <4>1, <4>2
    <3>2. CASE ev.env # e \/ ev.kind = "other"
      <4>1. net'[e] = net[e]
        BY <1>4, <3>2
      <4>2. PICK k \in 1 .. applied :
               /\ log[k].env = e /\ log[k].kind = "enabled" /\ log[k].id = net[e].id
               /\ \A j \in k + 1 .. applied : log[j].env = e => log[j].kind = "other"
        BY <1>1, <2>2, <4>1 DEF NetInv
      <4>3. k \in 1 .. n /\ \A j \in k + 1 .. n : j \in k + 1 .. applied \/ j = n
        BY <1>3
      <4>4. QED
        BY <1>3, <3>2, <4>1, <4>2, <4>3
    <3>3. QED
      BY <1>4, <1>5, <2>2, <3>1, <3>2
  <2>3. QED
    BY <1>3, <1>7, <2>1, <2>2 DEF NetInv
<1>11. EnableInv'
  <2> SUFFICES ASSUME NEW d \in Clients, NEW e \in Envs \ cut, Enabling(d), req[d].env = e
               PROVE  /\ \E r \in alloc : r.id = req[d].id /\ r.state = "active"
                      /\ \A b \in Clients \ {d} : Enabling(b) \/ Disabling(b) => req[b].env # e
                      /\ net'[e].status # "enabled"
                      /\ \A k \in n + 1 .. Len(log) : log[k].env = e => log[k].kind # "enabled"
                      /\ Announced(e) = {}
    BY <1>3, <1>6, <1>7, ZenonT(60) DEF EnableInv
  <2>1. /\ \E r \in alloc : r.id = req[d].id /\ r.state = "active"
        /\ \A b \in Clients \ {d} : Enabling(b) \/ Disabling(b) => req[b].env # e
        /\ net[e].status # "enabled"
        /\ \A k \in applied + 1 .. Len(log) : log[k].env = e => log[k].kind # "enabled"
        /\ Announced(e) = {}
    BY <1>1 DEF EnableInv
  <2>2. n \in applied + 1 .. Len(log) /\ \A k \in n + 1 .. Len(log) : k \in applied + 1 .. Len(log)
    BY <1>3
  <2>3. net'[e].status # "enabled"
    BY <1>3, <1>4, <1>5, <2>1, <2>2
  <2>4. QED
    BY <2>1, <2>2, <2>3
<1>12. RowsMatchLog'
  <2>1. \A f \in Envs : InFlight(f)' <=> InFlight(f)
    BY <1>3 DEF InFlight
  <2>2. QED
    BY <1>1, <1>3, <1>7, <2>1 DEF RowsMatchLog
<1>13. QED
  BY <1>8, <1>9, <1>10, <1>11, <1>12 DEF AddonInv

----------------------------------------------------------------------------

LEMMA AddonInvInit == Init => AddonInv
<1> SUFFICES ASSUME Init PROVE AddonInv
  OBVIOUS
<1>1. /\ alloc = {} /\ allocs = 0 /\ log = <<>> /\ applied = 0 /\ cut = {} /\ Len(log) = 0
      /\ \A e \in Envs : net[e].status = "absent"
      /\ \A c \in Clients : req[c].phase = "idle"
  BY IdleType DEF Init
<1>2. \A c \in Clients : ~Enabling(c) /\ ~Disabling(c)
  BY <1>1 DEF Enabling, Disabling
<1>3. \A e \in Envs : Announced(e) = {}
  BY <1>1 DEF Announced
<1>4. RowInv /\ PhaseInv /\ RefInv /\ NetInv /\ EnableInv /\ DisableInv
  BY <1>1, <1>2 DEF RowInv, PhaseInv, RefInv, NetInv, EnableInv, DisableInv
<1>5. RowsMatchLog
  BY <1>1, <1>3 DEF RowsMatchLog
<1>6. QED
  BY <1>4, <1>5, AddonTypeInit DEF AddonInv

LEMMA AddonInvStep == AddonInv /\ [Next]_vars => AddonInv'
<1> SUFFICES ASSUME AddonInv, [Next]_vars PROVE AddonInv'
  OBVIOUS
<1>1. TypeOK'
  BY AddonTypeStep DEF AddonInv
<1>2. ASSUME UNCHANGED vars PROVE AddonInv'
  <2>1. RowInv' /\ PhaseInv' /\ DisableInv'
    BY <1>2 DEF vars, AddonInv, RowInv, PhaseInv, DisableInv, Disabling
  <2>2. RefInv'
    BY <1>2 DEF vars, AddonInv, RefInv, OwnedBy, Enabling, Disabling
  <2>3. NetInv'
    BY <1>2 DEF vars, AddonInv, NetInv, IsLatest
  <2>4. \A e \in Envs : Announced(e)' = Announced(e) /\ (InFlight(e)' <=> InFlight(e))
    BY <1>2 DEF vars, Announced, IsLatest, InFlight
  <2>5. EnableInv'
    BY <1>2, <2>4 DEF vars, AddonInv, EnableInv, Enabling, Disabling
  <2>6. RowsMatchLog'
    BY <1>2, <2>4 DEF vars, AddonInv, RowsMatchLog
  <2>7. QED
    BY <1>1, <2>1, <2>2, <2>3, <2>5, <2>6 DEF AddonInv
<1>3. QED
  BY <1>1, <1>2, HandlerSteps, InsertStep, ReleaseStep, AppendStep, OtherStep, ProjectStep,
     CooldownStep, CleanupStep
  DEF Next

\* The invariant holds in every state, whatever the overlap of enable_ipv4 and disable_ipv4
\* requests and wherever they are cut short.
THEOREM AddonInvariant == Spec => []AddonInv
<1>1. QED
  BY AddonInvInit, AddonInvStep, PTL DEF Spec

\* The rows, the view and the handlers' variables keep their types: a handler inserts only an
\* address of the pool, whichever ones FOR UPDATE SKIP LOCKED skips.
THEOREM AddonTypeCorrect == Spec => []TypeOK
<1>1. AddonInv => TypeOK
  BY DEF AddonInv
<1>2. QED
  BY <1>1, AddonInvariant, PTL

\* enable_ipv4 and disable_ipv4 keep the IPAM rows and the event log in agreement: outside a
\* request, and unless one was cut short in between, an environment holds an unreleased row
\* exactly when its last add-on event announced that allocation.
THEOREM AllocationsMatchEvents == Spec => []RowsMatchLog
<1>1. AddonInv => RowsMatchLog
  BY DEF AddonInv
<1>2. QED
  BY <1>1, AddonInvariant, PTL

\* env_networking_view never shows one address enabled for two environments, unless a
\* request of one of them was cut short between its row and its event.
THEOREM AddressesAreExclusive == Spec => []ExclusiveUnlessCut
<1>1. AddonInv => ExclusiveUnlessCut
  <2> SUFFICES ASSUME AddonInv, NEW e \in Envs \ cut, NEW f \in Envs \ cut,
                      net[e].status = "enabled", net[f].status = "enabled",
                      net[e].addr = net[f].addr
               PROVE  e = f
    BY DEF ExclusiveUnlessCut
  <2>1. PICK r \in alloc : r.env = e /\ r.addr = net[e].addr
    BY DEF AddonInv, RefInv, OwnedBy
  <2>2. PICK s \in alloc : s.env = f /\ s.addr = net[f].addr
    BY DEF AddonInv, RefInv, OwnedBy
  <2>3. r = s
    BY <2>1, <2>2 DEF AddonInv, RowInv
  <2>4. QED
    BY <2>1, <2>2, <2>3
<1>2. QED
  BY <1>1, AddonInvariant, PTL

============================================================================
