----------------------- MODULE ProjectionWorker_proofs -----------------------
(***************************************************************************)
(* TLAPS proofs about the event log, for any number of writers, aggregates *)
(* and events, and about the projection worker running against it, for any *)
(* number of projections and faults.                                       *)
(*                                                                         *)
(* The event log.  The inductive invariant adds to the three promises what *)
(* an open transaction knows: its ids were drawn for it alone, and once it *)
(* has a row in the index it owns the head of its aggregate's history.     *)
(*                                                                         *)
(* The worker.  The inductive invariant says what the in-memory            *)
(* checkpoints and the rest of the batch mean: every punctual event a      *)
(* projection handles is in its view, or still ahead of its checkpoint     *)
(* and, if the batch reaches beyond it, in the batch.                      *)
(***************************************************************************)
EXTENDS ProjectionWorker, FiniteSetTheorems, TLAPS

Seqs(R, a) == {e.seq : e \in {f \in R : f.agg = a}}

\* Every id in use, or reserved by an insert in progress, was drawn and is used once.
IdInv ==
    /\ \A e \in events : e.id < nextId
    /\ \A w \in Writers : \A e \in tx[w].rows : e.id < nextId
    /\ \A w \in Writers : tx[w].phase = "inserting" => tx[w].id \in 1 .. nextId - 1
    /\ \A e, f \in events : e.id = f.id => e = f
    /\ \A w \in Writers : \A e \in tx[w].rows, f \in events : e.id # f.id
    /\ \A v, w \in Writers : \A e \in tx[v].rows, f \in tx[w].rows : e.id = f.id => e = f /\ v = w
    /\ \A w \in Writers : tx[w].phase = "inserting" => \A e \in events : e.id # tx[w].id
    /\ \A v, w \in Writers : tx[w].phase = "inserting" => \A e \in tx[v].rows : e.id # tx[w].id
    /\ \A v, w \in Writers :
          tx[v].phase = "inserting" /\ tx[w].phase = "inserting" /\ v # w => tx[v].id # tx[w].id

\* The committed history of an aggregate is 1 .. LatestSeq, one event each.
HistoryInv ==
    \A a \in Aggregates :
        /\ LatestSeq(a) \in Nat
        /\ Seqs(events, a) = 1 .. LatestSeq(a)
        /\ \A e, f \in EventsOf(a) : e.seq = f.seq => e = f

\* A transaction with rows continues the committed history without a hole; one without
\* rows starts at or below its end.
RowInv ==
    \A w \in Writers :
        /\ tx[w].phase = "idle" => tx[w].rows = {}
        /\ tx[w].phase = "inserting" => tx[w].left > 0
        /\ tx[w].rows = {} => tx[w].seq <= LatestSeq(tx[w].agg) + 1
        /\ \A e \in tx[w].rows : e.agg = tx[w].agg
        /\ tx[w].rows # {} =>
              {e.seq : e \in tx[w].rows} = LatestSeq(tx[w].agg) + 1 .. tx[w].seq - 1
        /\ \A e, f \in tx[w].rows : e.seq = f.seq => e = f

\* At most one open transaction has rows of an aggregate.
OwnerInv ==
    \A v, w \in Writers :
        v # w /\ tx[v].rows # {} /\ tx[w].rows # {} => tx[v].agg # tx[w].agg

\* Ids grow with the sequence numbers, in the log, in a transaction and for the row
\* that is being inserted.
OrderInv ==
    /\ \A e, f \in events : e.agg = f.agg /\ e.seq < f.seq => e.id < f.id
    /\ \A w \in Writers : \A e \in events, f \in tx[w].rows : e.agg = f.agg => e.id < f.id
    /\ \A w \in Writers : \A e, f \in tx[w].rows : e.seq < f.seq => e.id < f.id
    /\ \A w \in Writers : tx[w].phase = "inserting" =>
          \A e \in events : e.agg = tx[w].agg /\ e.seq < tx[w].seq => e.id < tx[w].id
    /\ \A w \in Writers : tx[w].phase = "inserting" =>
          \A e \in tx[w].rows : e.id < tx[w].id

StoreInv == StoreTypeOK /\ IdInv /\ HistoryInv /\ RowInv /\ OwnerInv /\ OrderInv

----------------------------------------------------------------------------

\* The largest of 0 and 1 .. n is n.
LEMMA MaxUpTo ==
    ASSUME NEW n \in Nat
    PROVE  Max({0} \cup (1 .. n)) = n
<1> DEFINE S == {0} \cup (1 .. n)
<1>1. n \in S /\ \A y \in S : n >= y
  OBVIOUS
<1>2. \A x \in S : (\A y \in S : x >= y) => x = n
  BY <1>1
<1> QED
  BY <1>1, <1>2 DEF Max

\* Two sequence-number sets that agree give the same latest number.
LEMMA LatestSeqIs ==
    ASSUME NEW a, NEW n \in Nat, Seqs(events, a) = 1 .. n
    PROVE  LatestSeq(a) = n
<1>1. {e.seq : e \in EventsOf(a)} = 1 .. n
  BY DEF Seqs, EventsOf
<1> QED
  BY <1>1, MaxUpTo DEF LatestSeq

LEMMA StoreInitInv == StoreInit => StoreInv
<1> SUFFICES ASSUME StoreInit PROVE StoreInv
  OBVIOUS
<1> USE StoreAssumption DEF StoreInit, Idle
<1>1. \A a \in Aggregates : LatestSeq(a) = 0
  <2> TAKE a \in Aggregates
  <2>1. Seqs(events, a) = 1 .. 0
    BY DEF Seqs
  <2> QED
    BY <2>1, LatestSeqIs
<1>2. StoreTypeOK
  BY DEF StoreTypeOK, Connection
<1>3. IdInv
  BY DEF IdInv
<1>4. HistoryInv
  BY <1>1 DEF HistoryInv, Seqs, EventsOf
<1>5. RowInv
  BY <1>1, <1>2 DEF RowInv, StoreTypeOK, Connection
<1>6. OwnerInv
  BY DEF OwnerInv
<1>7. OrderInv
  BY DEF OrderInv
<1> QED
  BY <1>2, <1>3, <1>4, <1>5, <1>6, <1>7 DEF StoreInv

----------------------------------------------------------------------------
(* One lemma per action.  Only a commit changes the history; the others keep *)
(* events, hence LatestSeq, and move one connection.                         *)

LEMMA PreparedInv ==
    ASSUME StoreInv, NEW w \in Writers, NEW a \in Aggregates, NEW k \in Kinds,
           NEW s \in Nat \ {0}, NEW n \in Nat, s <= LatestSeq(a) + 1,
           Prepared(w, a, k, s, n)
    PROVE  StoreInv'
<1> USE DEF StoreInv, Prepared
<1>0. /\ events' = events
      /\ nextId' = nextId
      /\ \A b : LatestSeq(b)' = LatestSeq(b)
  BY DEF LatestSeq, EventsOf
<1>1. StoreTypeOK'
  BY DEF StoreTypeOK, Connection
<1>t. /\ tx'[w].phase = "ready" /\ tx'[w].rows = {} /\ tx'[w].agg = a /\ tx'[w].seq = s
      /\ \A v \in Writers \ {w} : tx'[v] = tx[v]
  BY DEF StoreTypeOK
<1>2. IdInv'
  BY <1>0, <1>t DEF IdInv
<1>3. HistoryInv'
  BY <1>0 DEF HistoryInv, Seqs, EventsOf
<1>4. RowInv'
  BY <1>0, <1>t DEF RowInv
<1>5. OwnerInv'
  BY <1>t DEF OwnerInv
<1>6. OrderInv'
  BY <1>0, <1>t DEF OrderInv
<1> QED
  BY <1>1, <1>2, <1>3, <1>4, <1>5, <1>6

LEMMA DrawIdInv ==
    ASSUME StoreInv, NEW w \in Writers, DrawId(w)
    PROVE  StoreInv'
<1> USE DEF StoreInv
<1>0. /\ events' = events
      /\ nextId' = nextId + 1
      /\ \A b : LatestSeq(b)' = LatestSeq(b)
  BY DEF LatestSeq, EventsOf, DrawId
<1>c. tx' = [tx EXCEPT ![w] = [tx[w] EXCEPT !.phase = "inserting", !.id = nextId]]
  BY DEF DrawId, StoreTypeOK
<1>t. /\ tx'[w].phase = "inserting" /\ tx'[w].id = nextId
      /\ tx'[w].rows = tx[w].rows /\ tx'[w].agg = tx[w].agg /\ tx'[w].seq = tx[w].seq
      /\ tx'[w].left = tx[w].left /\ tx[w].left > 0
      /\ \A v \in Writers \ {w} : tx'[v] = tx[v]
  BY <1>c DEF StoreTypeOK, Connection, DrawId
<1>1. StoreTypeOK'
  <2>1. [tx[w] EXCEPT !.phase = "inserting", !.id = nextId] \in Connection
    BY DEF StoreTypeOK, Connection
  <2> QED
    BY <1>0, <1>c, <2>1 DEF StoreTypeOK
<1>2. IdInv'
  BY <1>0, <1>t DEF IdInv, StoreTypeOK, Connection, Event
<1>3. HistoryInv'
  BY <1>0 DEF HistoryInv, Seqs, EventsOf
<1>4. RowInv'
  <2> SUFFICES ASSUME NEW v \in Writers PROVE RowInv!(v)'
    BY DEF RowInv
  <2> QED
    BY <1>0, <1>t DEF RowInv
<1>5. OwnerInv'
  BY <1>t DEF OwnerInv
<1>6. OrderInv'
  BY <1>0, <1>t DEF OrderInv, IdInv
<1> QED
  BY <1>1, <1>2, <1>3, <1>4, <1>5, <1>6

\* A transaction that ends without committing leaves the others as they were.
LEMMA RollbackInv ==
    ASSUME StoreInv, NEW w \in Writers,
           tx' = [tx EXCEPT ![w] = Idle], UNCHANGED <<nextId, events>>
    PROVE  StoreInv'
<1> USE DEF StoreInv
<1>0. /\ events' = events
      /\ nextId' = nextId
      /\ \A b : LatestSeq(b)' = LatestSeq(b)
  BY DEF LatestSeq, EventsOf
<1>i. Idle \in Connection
  BY StoreAssumption DEF Idle, Connection
<1>1. StoreTypeOK'
  BY <1>i DEF StoreTypeOK
<1>t. /\ tx'[w].phase = "idle" /\ tx'[w].rows = {} /\ tx'[w].agg \in Aggregates /\ tx'[w].seq = 1
      /\ \A v \in Writers \ {w} : tx'[v] = tx[v]
  BY <1>i DEF StoreTypeOK, Idle, Connection
<1>2. IdInv'
  BY <1>0, <1>t DEF IdInv
<1>3. HistoryInv'
  BY <1>0 DEF HistoryInv, Seqs, EventsOf
<1>4. RowInv'
  <2>1. 1 <= LatestSeq(tx'[w].agg) + 1
    BY <1>t DEF HistoryInv
  <2> QED
    BY <1>0, <1>t, <2>1 DEF RowInv
<1>5. OwnerInv'
  BY <1>t DEF OwnerInv
<1>6. OrderInv'
  BY <1>0, <1>t DEF OrderInv
<1> QED
  BY <1>1, <1>2, <1>3, <1>4, <1>5, <1>6

LEMMA InsertRowInv ==
    ASSUME StoreInv, NEW w \in Writers, InsertRow(w)
    PROVE  StoreInv'
<1> USE DEF StoreInv
<1> DEFINE r == RowOf(w)
           a == tx[w].agg
           c == [tx[w] EXCEPT !.phase = "ready", !.id = 0, !.seq = @ + 1,
                              !.left = @ - 1, !.rows = @ \cup {r}]
<1>0. /\ events' = events
      /\ nextId' = nextId
      /\ \A b : LatestSeq(b)' = LatestSeq(b)
  BY DEF LatestSeq, EventsOf, InsertRow
<1>w. tx[w] \in Connection /\ tx[w].phase = "inserting" /\ a \in Aggregates
  BY DEF StoreTypeOK, Connection, InsertRow
<1>r. /\ r \in Event
      /\ r.id = tx[w].id /\ r.agg = a /\ r.seq = tx[w].seq
  BY <1>w DEF RowOf, IdInv, Event, Connection
<1>c. tx' = [tx EXCEPT ![w] = c]
  BY DEF InsertRow, StoreTypeOK
<1>t. /\ tx'[w].phase = "ready" /\ tx'[w].agg = a
      /\ tx'[w].seq = tx[w].seq + 1 /\ tx'[w].rows = tx[w].rows \cup {r}
      /\ \A v \in Writers \ {w} : tx'[v] = tx[v]
  BY <1>c, <1>w DEF StoreTypeOK, Connection
<1> HIDE DEF r, c
<1>1. StoreTypeOK'
  <2>1. /\ tx[w].left - 1 \in Nat
        /\ tx[w].seq + 1 \in Nat \ {0}
        /\ tx[w].rows \cup {r} \subseteq Event
    BY <1>w, <1>r DEF Connection, RowInv
  <2>2. c \in Connection
    BY <1>w, <2>1 DEF c, Connection
  <2> QED
    BY <1>0, <1>c, <2>2 DEF StoreTypeOK
<1>2. IdInv'
  <2>1. \A v \in Writers : \A e \in tx'[v].rows : e \in tx[v].rows \/ (v = w /\ e = r)
    BY <1>t
  <2>2. \A v \in Writers : tx'[v].phase = "inserting" => v # w /\ tx'[v] = tx[v]
    BY <1>t
  <2>3. r.id < nextId /\ (\A e \in events : e.id # r.id)
    BY <1>w, <1>r DEF IdInv, StoreTypeOK
  <2>4. \A v \in Writers : \A e \in tx[v].rows : e.id # r.id
    BY <1>w, <1>r DEF IdInv
  <2>5. \A v \in Writers : tx'[v].phase = "inserting" => tx'[v].id # r.id
    BY <1>w, <1>r, <2>2 DEF IdInv
  <2>6. \A v \in Writers : \A e \in tx'[v].rows : e.id < nextId
    BY <2>1, <2>3 DEF IdInv
  <2>7. \A v \in Writers : \A e \in tx'[v].rows, f \in events : e.id # f.id
    BY <2>1, <2>3 DEF IdInv
  <2>8. \A u, v \in Writers : \A e \in tx'[u].rows, f \in tx'[v].rows :
           e.id = f.id => e = f /\ u = v
    BY <2>1, <2>4 DEF IdInv
  <2>9. \A u, v \in Writers : tx'[v].phase = "inserting" =>
           \A e \in tx'[u].rows : e.id # tx'[v].id
    BY <2>1, <2>2, <2>5 DEF IdInv
  <2> QED
    BY <1>0, <2>2, <2>6, <2>7, <2>8, <2>9 DEF IdInv
<1>3. HistoryInv'
  BY <1>0 DEF HistoryInv, Seqs, EventsOf
\* The slot is free, so the row extends the history or the rows by exactly one.
<1>4. tx[w].rows = {} => tx[w].seq = LatestSeq(a) + 1
  <2> SUFFICES ASSUME tx[w].rows = {} PROVE tx[w].seq = LatestSeq(a) + 1
    OBVIOUS
  <2>1. tx[w].seq <= LatestSeq(a) + 1 /\ tx[w].seq \in Nat \ {0} /\ LatestSeq(a) \in Nat
    BY <1>w DEF RowInv, HistoryInv, Connection
  <2>2. tx[w].seq \notin 1 .. LatestSeq(a)
    <3>1. ~SlotTaken(w)
      BY DEF InsertRow
    <3>2. tx[w].seq \notin Seqs(events, a)
      BY <3>1, <1>r DEF SlotTaken, SameSlot, Seqs, r
    <3> QED
      BY <3>2, <1>w DEF HistoryInv
  <2> QED
    BY <2>1, <2>2
<1>5. tx[w].seq >= LatestSeq(a) + 1 /\ LatestSeq(a) \in Nat /\ tx[w].seq \in Nat
  <2>1. tx[w].rows # {} => tx[w].seq >= LatestSeq(a) + 1
    <3> SUFFICES ASSUME NEW e \in tx[w].rows PROVE tx[w].seq >= LatestSeq(a) + 1
      OBVIOUS
    <3>1. e.seq \in LatestSeq(a) + 1 .. tx[w].seq - 1
      BY DEF RowInv
    <3> QED
      BY <3>1, <1>w DEF HistoryInv, Connection
  <2> QED
    BY <1>4, <2>1, <1>w DEF HistoryInv, Connection
<1>6. RowInv'
  <2>1. {e.seq : e \in tx[w].rows \cup {r}} = LatestSeq(a) + 1 .. tx[w].seq
    <3>1. {e.seq : e \in tx[w].rows \cup {r}} = {e.seq : e \in tx[w].rows} \cup {tx[w].seq}
      BY <1>r
    <3>2. CASE tx[w].rows = {}
      BY <3>1, <3>2, <1>4, <1>5
    <3>3. CASE tx[w].rows # {}
      BY <3>1, <3>3, <1>5 DEF RowInv
    <3> QED
      BY <3>2, <3>3
  <2>2. \A e \in tx[w].rows : e.seq # tx[w].seq
    <3>1. \A e \in tx[w].rows : e.seq \in LatestSeq(a) + 1 .. tx[w].seq - 1
      BY DEF RowInv
    <3> QED
      BY <3>1, <1>5
  <2> SUFFICES ASSUME NEW v \in Writers PROVE RowInv!(v)'
    BY DEF RowInv
  <2>3. CASE v = w
    BY <1>0, <1>t, <1>r, <1>5, <2>1, <2>2, <2>3 DEF RowInv
  <2>4. CASE v # w
    BY <1>0, <1>t, <2>4 DEF RowInv
  <2> QED
    BY <2>3, <2>4
<1>7. OwnerInv'
  <2>1. \A v \in Writers \ {w} : tx[v].rows # {} => tx[v].agg # a
    <3> SUFFICES ASSUME NEW v \in Writers \ {w}, tx[v].rows # {}, tx[v].agg = a
                 PROVE  FALSE
      OBVIOUS
    <3>1. tx[w].rows = {}
      BY DEF OwnerInv
    <3>2. tx[w].seq \in {e.seq : e \in tx[v].rows}
      <4>1. {e.seq : e \in tx[v].rows} = LatestSeq(a) + 1 .. tx[v].seq - 1
        BY DEF RowInv
      <4>2. PICK g \in tx[v].rows : TRUE
        OBVIOUS
      <4>3. g.seq \in LatestSeq(a) + 1 .. tx[v].seq - 1
        BY <4>1
      <4> QED
        BY <4>1, <4>3, <1>4, <1>5, <3>1 DEF StoreTypeOK, Connection
    <3>3. \E e \in tx[v].rows : SameSlot(e, r)
      BY <3>2, <1>r DEF SameSlot, RowInv
    <3>4. ~SlotHeld(w)
      BY DEF InsertRow
    <3> QED
      BY <3>3, <3>4 DEF SlotHeld, r
  <2> QED
    BY <1>t, <2>1 DEF OwnerInv
<1>8. OrderInv'
  <2>1. \A e \in events : e.agg = a => e.id < r.id
    <3> SUFFICES ASSUME NEW e \in events, e.agg = a PROVE e.id < r.id
      OBVIOUS
    <3>1. e.seq \in 1 .. LatestSeq(a)
      <4>1. e.seq \in Seqs(events, a)
        BY DEF Seqs
      <4> QED
        BY <4>1, <1>w DEF HistoryInv
    <3>2. e.seq < tx[w].seq
      BY <3>1, <1>5
    <3> QED
      BY <3>2, <1>w, <1>r DEF OrderInv
  <2>2. \A e \in tx[w].rows : e.id < r.id /\ e.seq < r.seq
    <3>1. \A e \in tx[w].rows : e.seq \in LatestSeq(a) + 1 .. tx[w].seq - 1
      BY DEF RowInv
    <3> QED
      BY <3>1, <1>5, <1>w, <1>r DEF OrderInv
  <2>3. \A e, f \in tx[w].rows \cup {r} : e.seq < f.seq => e.id < f.id
    <3> SUFFICES ASSUME NEW e \in tx[w].rows \cup {r}, NEW f \in tx[w].rows \cup {r},
                        e.seq < f.seq
                 PROVE  e.id < f.id
      OBVIOUS
    <3>1. e.seq \in Nat /\ f.seq \in Nat
      BY <1>r, <1>w DEF Connection, Event
    <3>2. CASE f = r
      BY <2>2, <3>1, <3>2
    <3>3. CASE e = r /\ f # r
      BY <2>2, <3>1, <3>3
    <3>4. CASE e # r /\ f # r
      BY <3>4 DEF OrderInv
    <3> QED
      BY <3>2, <3>3, <3>4
  <2>4. \A v \in Writers : \A e \in events, f \in tx'[v].rows : e.agg = f.agg => e.id < f.id
    BY <1>t, <1>r, <2>1 DEF OrderInv
  <2>5. \A v \in Writers : \A e, f \in tx'[v].rows : e.seq < f.seq => e.id < f.id
    BY <1>t, <2>3 DEF OrderInv
  <2>6. \A v \in Writers : tx'[v].phase = "inserting" => v # w
    BY <1>t
  <2> QED
    BY <1>0, <1>t, <2>4, <2>5, <2>6 DEF OrderInv
<1> QED
  BY <1>1, <1>2, <1>3, <1>6, <1>7, <1>8

LEMMA CommitRowsInv ==
    ASSUME StoreInv, NEW w \in Writers, CommitRows(w)
    PROVE  StoreInv'
<1> USE DEF StoreInv
<1> DEFINE R == tx[w].rows
<1>a. PICK a \in Aggregates : a = tx[w].agg
  BY DEF StoreTypeOK, Connection
<1>0. /\ events' = events \cup R
      /\ nextId' = nextId
      /\ tx' = [tx EXCEPT ![w] = Idle]
  BY DEF CommitRows
<1>i. Idle \in Connection
  BY StoreAssumption DEF Idle, Connection
<1>w. tx[w] \in Connection /\ a \in Aggregates /\ R \subseteq Event /\ a = tx[w].agg
  BY <1>a DEF StoreTypeOK, Connection
<1>t. /\ tx'[w].phase = "idle" /\ tx'[w].rows = {} /\ tx'[w].agg \in Aggregates /\ tx'[w].seq = 1
      /\ \A v \in Writers \ {w} : tx'[v] = tx[v]
  BY <1>0, <1>i DEF StoreTypeOK, Idle, Connection
<1>r. \A e \in R : e.agg = a
  BY <1>a DEF RowInv
<1>1. StoreTypeOK'
  BY <1>0, <1>i, <1>w DEF StoreTypeOK
<1>2. IdInv'
  BY <1>0, <1>t DEF IdInv
\* The other aggregates keep their history; this one grows by the rows.
<1>3. \A b \in Aggregates \ {a} : EventsOf(b)' = EventsOf(b) /\ LatestSeq(b)' = LatestSeq(b)
  <2> TAKE b \in Aggregates \ {a}
  <2>1. EventsOf(b)' = EventsOf(b)
    BY <1>0, <1>r DEF EventsOf
  <2> QED
    BY <2>1 DEF LatestSeq
<1> DEFINE n == IF R = {} THEN LatestSeq(a) ELSE tx[w].seq - 1
<1>4. /\ n \in Nat /\ n >= LatestSeq(a)
      /\ \A e \in R : e.seq \in LatestSeq(a) + 1 .. n
      /\ Seqs(events', a) = 1 .. n
  <2>1. Seqs(events', a) = Seqs(events, a) \cup {e.seq : e \in R}
    BY <1>0, <1>r DEF Seqs
  <2>2. LatestSeq(a) \in Nat /\ Seqs(events, a) = 1 .. LatestSeq(a) /\ tx[w].seq \in Nat
    BY <1>w DEF HistoryInv, Connection
  <2>3. CASE R = {}
    BY <2>1, <2>2, <2>3
  <2>4. CASE R # {}
    <3>1. {e.seq : e \in R} = LatestSeq(a) + 1 .. tx[w].seq - 1
      BY <2>4, <1>a DEF RowInv
    <3>2. PICK g \in R : TRUE
      BY <2>4
    <3>3. g.seq \in LatestSeq(a) + 1 .. tx[w].seq - 1
      BY <3>1
    <3>4. n = tx[w].seq - 1 /\ n \in Nat /\ n >= LatestSeq(a)
      BY <2>2, <2>4, <3>3
    <3>5. {e.seq : e \in R} = LatestSeq(a) + 1 .. n
      BY <3>1, <3>4
    <3>6. (1 .. LatestSeq(a)) \cup (LatestSeq(a) + 1 .. n) = 1 .. n
      BY <2>2, <3>4
    <3>7. \A f \in R : f.seq \in LatestSeq(a) + 1 .. n
      BY <3>5
    <3> QED
      BY <2>1, <2>2, <3>4, <3>5, <3>6, <3>7
  <2> QED
    BY <2>3, <2>4
<1>5. LatestSeq(a)' = n
  <2>1. {e.seq : e \in EventsOf(a)}' = 1 .. n
    BY <1>4 DEF Seqs, EventsOf
  <2> QED
    BY <2>1, <1>4, MaxUpTo DEF LatestSeq
<1> HIDE DEF n
<1>6. \A e \in events : e.agg = a => e.seq \in 1 .. LatestSeq(a)
  <2> TAKE e \in events
  <2> HAVE e.agg = a
  <2>1. e.seq \in Seqs(events, a)
    BY DEF Seqs
  <2> QED
    BY <2>1, <1>w DEF HistoryInv
<1>7. \A e \in events, f \in R : e.agg = f.agg => e.seq < f.seq /\ e.id < f.id
  <2> TAKE e \in events, f \in R
  <2> HAVE e.agg = f.agg
  <2>1. e.seq \in 1 .. LatestSeq(a) /\ f.seq \in LatestSeq(a) + 1 .. n
    BY <1>4, <1>6, <1>r
  <2>2. LatestSeq(a) \in Nat
    BY <1>w DEF HistoryInv
  <2>3. e.id < f.id
    BY DEF OrderInv
  <2> QED
    BY <2>1, <2>2, <2>3, <1>4
<1>8. HistoryInv'
  <2> SUFFICES ASSUME NEW b \in Aggregates PROVE HistoryInv!(b)'
    BY DEF HistoryInv
  <2>1. CASE b = a
    <3>1. \A e, f \in events' : e.agg = a /\ f.agg = a /\ e.seq = f.seq => e = f
      <4> SUFFICES ASSUME NEW e \in events \cup R, NEW f \in events \cup R,
                          e.agg = a, f.agg = a, e.seq = f.seq
                   PROVE  e = f
        BY <1>0
      <4>1. e.seq \in Nat /\ f.seq \in Nat
        BY <1>w DEF StoreTypeOK, Event
      <4>2. CASE e \in events /\ f \in events
        BY <4>2, <1>w DEF HistoryInv, EventsOf
      <4>3. CASE e \in R /\ f \in R
        BY <4>3 DEF RowInv
      <4>4. CASE (e \in events /\ f \in R) \/ (e \in R /\ f \in events)
        BY <4>1, <4>4, <1>7
      <4> QED
        BY <4>2, <4>3, <4>4
    <3> QED
      BY <2>1, <1>4, <1>5, <3>1 DEF EventsOf
  <2>2. CASE b # a
    <3>1. Seqs(events', b) = Seqs(events, b)
      BY <2>2, <1>0, <1>r DEF Seqs
    <3> QED
      BY <2>2, <1>3, <3>1 DEF HistoryInv
  <2> QED
    BY <2>1, <2>2
<1>9. RowInv'
  <2> SUFFICES ASSUME NEW v \in Writers PROVE RowInv!(v)'
    BY DEF RowInv
  <2>1. CASE v = w
    <3>1. PICK b \in Aggregates : b = tx'[w].agg
      BY <1>t
    <3>2. LatestSeq(b)' \in Nat
      BY <1>8 DEF HistoryInv
    <3>3. LatestSeq(tx[w].agg)' = LatestSeq(b)'
      BY <3>1
    <3> QED
      BY <2>1, <1>t, <3>2, <3>3
  <2>2. CASE v # w /\ tx[v].agg = a
    <3>1. tx[v].rows # {} => R = {}
      BY <2>2, <1>a DEF OwnerInv
    <3>2. tx[v].rows # {} => LatestSeq(a)' = LatestSeq(a)
      BY <3>1, <1>5 DEF n
    <3>3. tx[v].seq \in Nat /\ LatestSeq(a) \in Nat
      BY <1>w DEF HistoryInv, StoreTypeOK, Connection
    <3>4. tx'[v] = tx[v] /\ LatestSeq(tx[v].agg)' = LatestSeq(a)'
      BY <2>2, <1>t
    <3>5. LatestSeq(a)' \in Nat /\ LatestSeq(a)' >= LatestSeq(a)
      BY <1>4, <1>5
    <3>6. tx[v].rows = {} => tx[v].seq <= LatestSeq(a)' + 1
      <4>1. tx[v].rows = {} => tx[v].seq <= LatestSeq(a) + 1
        BY <2>2 DEF RowInv
      <4> QED
        BY <4>1, <3>3, <3>5
    <3> QED
      BY <2>2, <3>2, <3>4, <3>6 DEF RowInv
  <2>3. CASE v # w /\ tx[v].agg # a
    <3>1. tx[v].agg \in Aggregates \ {a}
      BY <2>3 DEF StoreTypeOK, Connection
    <3> QED
      BY <2>3, <3>1, <1>t, <1>3 DEF RowInv
  <2> QED
    BY <2>1, <2>2, <2>3
<1>10. OwnerInv'
  BY <1>t DEF OwnerInv
<1>11. OrderInv'
  <2>1. \A e, f \in events \cup R : e.agg = f.agg /\ e.seq < f.seq => e.id < f.id
    <3> SUFFICES ASSUME NEW e \in events \cup R, NEW f \in events \cup R,
                        e.agg = f.agg, e.seq < f.seq
                 PROVE  e.id < f.id
      OBVIOUS
    <3>1. e.seq \in Nat /\ f.seq \in Nat
      BY <1>w DEF StoreTypeOK, Event
    <3>2. CASE e \in events /\ f \in events
      BY <3>2 DEF OrderInv
    <3>3. CASE e \in R /\ f \in R
      BY <3>3 DEF OrderInv
    <3>4. CASE e \in events /\ f \in R
      BY <3>4, <1>7
    <3>5. CASE e \in R /\ f \in events
      BY <3>1, <3>5, <1>7
    <3> QED
      BY <3>2, <3>3, <3>4, <3>5
  <2>2. \A v \in Writers : \A e \in events', f \in tx'[v].rows : e.agg = f.agg => e.id < f.id
    <3> SUFFICES ASSUME NEW v \in Writers, NEW e \in events \cup R, NEW f \in tx'[v].rows,
                        e.agg = f.agg
                 PROVE  e.id < f.id
      BY <1>0
    <3>1. v # w /\ f \in tx[v].rows
      BY <1>t
    <3>2. e \notin R
      BY <3>1, <1>r DEF OwnerInv, RowInv
    <3> QED
      BY <3>1, <3>2 DEF OrderInv
  <2>3. \A v \in Writers : tx'[v].phase = "inserting" =>
           \A e \in events' : e.agg = tx'[v].agg /\ e.seq < tx'[v].seq => e.id < tx'[v].id
    <3> SUFFICES ASSUME NEW v \in Writers, tx'[v].phase = "inserting",
                        NEW e \in events \cup R, e.agg = tx'[v].agg, e.seq < tx'[v].seq
                 PROVE  e.id < tx'[v].id
      BY <1>0
    <3>1. v # w /\ tx'[v] = tx[v]
      BY <1>t
    <3>2. CASE e \in events
      BY <3>1, <3>2 DEF OrderInv
    <3>3. CASE e \in R
      <4>1. tx[v].agg = a /\ tx[v].rows = {}
        BY <3>1, <3>3, <1>r, <1>a DEF OwnerInv
      <4>2. tx[v].seq <= LatestSeq(a) + 1 /\ tx[v].seq \in Nat /\ LatestSeq(a) \in Nat
        BY <4>1, <1>w DEF RowInv, HistoryInv, StoreTypeOK, Connection
      <4>3. e.seq >= LatestSeq(a) + 1 /\ e.seq \in Nat
        BY <3>3, <4>2, <1>4
      <4> QED
        BY <3>1, <4>2, <4>3
    <3> QED
      BY <3>2, <3>3
  <2>4. \A v \in Writers : \A e, f \in tx'[v].rows : e.seq < f.seq => e.id < f.id
    BY <1>t DEF OrderInv
  <2>5. \A v \in Writers : tx'[v].phase = "inserting" => \A e \in tx'[v].rows : e.id < tx'[v].id
    BY <1>t DEF OrderInv
  <2> QED
    BY <1>0, <2>1, <2>2, <2>3, <2>4, <2>5 DEF OrderInv
<1> QED
  BY <1>1, <1>2, <1>8, <1>9, <1>10, <1>11

----------------------------------------------------------------------------

\* Every step of the store, or none, keeps the inductive invariant.
LEMMA StoreStep ==
    ASSUME StoreInv, [StoreNext]_storeVars
    PROVE  StoreInv'
<1>1. CASE UNCHANGED storeVars
  <2>1. \A b : LatestSeq(b)' = LatestSeq(b)
    BY <1>1 DEF storeVars, LatestSeq, EventsOf
  <2>2. StoreTypeOK' /\ IdInv' /\ OwnerInv' /\ OrderInv'
    BY <1>1 DEF StoreInv, StoreTypeOK, IdInv, OwnerInv, OrderInv, storeVars
  <2>3. HistoryInv'
    BY <1>1, <2>1 DEF StoreInv, HistoryInv, storeVars, EventsOf, Seqs
  <2>4. RowInv'
    BY <1>1, <2>1 DEF StoreInv, RowInv, storeVars
  <2> QED
    BY <2>2, <2>3, <2>4 DEF StoreInv
<1>2. ASSUME NEW w \in Writers, NEW a \in Aggregates, NEW k \in Kinds, NEW n \in 1 .. MaxRows,
             ReadSeq(w, a, k, n)
      PROVE  StoreInv'
  <2>1. LatestSeq(a) \in Nat /\ n \in Nat
    BY StoreAssumption DEF StoreInv, HistoryInv
  <2> QED
    BY <1>2, <2>1, PreparedInv DEF ReadSeq
<1>3. ASSUME NEW w \in Writers, NEW a \in Aggregates, NEW k \in Kinds, NEW v \in 1 .. MaxId,
             ReadVersion(w, a, k, v)
      PROVE  StoreInv'
  <2>1. LatestSeq(a) \in Nat /\ v \in Nat /\ v + 1 \in Nat \ {0}
    BY StoreAssumption DEF StoreInv, HistoryInv
  <2>2. v + 1 <= LatestSeq(a) + 1 /\ Prepared(w, a, k, v + 1, 1)
    BY <1>3, <2>1 DEF ReadVersion
  <2> QED
    BY <2>1, <2>2, PreparedInv
<1>4. ASSUME NEW w \in Writers, SequenceConflict(w) \/ Rollback(w)
      PROVE  StoreInv'
  BY <1>4, RollbackInv DEF SequenceConflict, Rollback
<1> QED
  BY <1>1, <1>2, <1>3, <1>4, DrawIdInv, InsertRowInv, CommitRowsInv DEF StoreNext

\* The inductive invariant holds in every behaviour of the event store.
THEOREM StoreInvariant == StoreSpec => []StoreInv
<1>1. StoreInit => StoreInv
  BY StoreInitInv
<1>2. StoreInv /\ [StoreNext]_storeVars => StoreInv'
  BY StoreStep
<1> QED
  BY <1>1, <1>2, PTL DEF StoreSpec

\* The log and every writer's connection always have their types.
THEOREM StoreTypes == StoreSpec => []StoreTypeOK
<1>1. StoreInv => StoreTypeOK
  BY DEF StoreInv
<1> QED
  BY <1>1, StoreInvariant, PTL

\* append and append_batch never give two committed events the same event_id.
THEOREM EventIdsUnique == StoreSpec => []UniqueIds
<1>1. StoreInv => UniqueIds
  BY DEF StoreInv, IdInv, UniqueIds
<1> QED
  BY <1>1, StoreInvariant, PTL

\* With any number of racing writers the history of an aggregate has neither holes nor
\* forks: aggregate_seq runs through 1 .. n and each value occurs once.
THEOREM HistoryDense == StoreSpec => []DenseHistory
<1>1. StoreInv => DenseHistory
  BY DEF StoreInv, HistoryInv, DenseHistory, Seqs, EventsOf
<1> QED
  BY <1>1, StoreInvariant, PTL

\* Although ids may become visible out of order, two events of one aggregate never do
\* so: a consumer that sorts by event_id replays every aggregate in its own order.
THEOREM AggregateReplayOrder == StoreSpec => []AggregateOrder
<1>1. StoreInv => AggregateOrder
  BY DEF StoreInv, OrderInv, AggregateOrder
<1> QED
  BY <1>1, StoreInvariant, PTL

\* The three together: what append and append_batch promise every consumer of the log.
THEOREM LogIsSound == StoreSpec => []LogSound
<1>1. UniqueIds /\ DenseHistory /\ AggregateOrder => LogSound
  BY DEF LogSound
<1> QED
  BY <1>1, EventIdsUnique, HistoryDense, AggregateReplayOrder, PTL


----------------------------------------------------------------------------
(* The projection worker.                                                  *)

FiniteInv ==
    /\ IsFiniteSet(events)
    /\ \A w \in Writers : IsFiniteSet(tx[w].rows)

\* Which parts of the worker's state are in use in each phase.
PhaseInv ==
    /\ worker \in {"down", "failed"} => mem = [p \in Projections |-> 0]
    /\ worker \in {"down", "failed", "polling"} => batch = {}
    /\ worker # "applying" => todo = {} /\ done = {}
    /\ worker = "applying" => \E e \in batch : IsCurrent(e)

\* Checkpoints are 0 or the id of a committed event.
CommittedId(i) == i = 0 \/ \E e \in events : e.id = i

CursorInv == \A p \in Projections : CommittedId(cp[p]) /\ CommittedId(mem[p])

\* The events that p must not miss.
Due(p) == {e \in events \ late : e.kind \in Handles[p]}

\* What an in-memory checkpoint has passed is applied, at the latest by the open transaction.
MemInv ==
    \A p \in Projections : \A e \in Due(p) :
        e.id <= mem[p] =>
            \/ e.id \in Applied(p)
            \/ worker = "applying" /\ p \in done /\ IsCurrent(e)

\* The batch has no hole below any of its events.
BatchInv ==
    \A p \in Projections : \A e \in Due(p), f \in batch :
        e.id < f.id /\ mem[p] < e.id => e \in batch

\* The open transaction: who has applied the current event and who is going to.
ApplyInv ==
    worker = "applying" => \A e \in batch : IsCurrent(e) =>
        /\ \A p \in todo : mem[p] < e.id /\ e.kind \in Handles[p]
        /\ \A p \in done : mem[p] = e.id /\ cp[p] < e.id /\ e.kind \in Handles[p]
        /\ \A p \in Projections \ (todo \cup done) : e.kind \in Handles[p] => mem[p] >= e.id

\* A running worker is never behind the durable checkpoints.
AheadInv == worker \in {"polling", "walking", "applying"} =>
               \A p \in Projections : cp[p] <= mem[p]

WorkerInv ==
    /\ StoreInv /\ FiniteInv
    /\ TypeOK /\ PhaseInv /\ CursorInv /\ MemInv /\ BatchInv /\ ApplyInv /\ AheadInv
    /\ CheckpointCovers /\ AppliedOnceInOrder /\ CheckpointIsLastApplied

----------------------------------------------------------------------------

LEMMA AppendFacts ==
    ASSUME NEW s \in Seq(Nat), NEW x \in Nat
    PROVE  /\ Append(s, x) \in Seq(Nat)
           /\ Len(Append(s, x)) = Len(s) + 1
           /\ Len(s) \in Nat
           /\ \A i \in 1 .. Len(s) : Append(s, x)[i] = s[i]
           /\ Append(s, x)[Len(s) + 1] = x
           /\ Append(s, x) # << >>
  OBVIOUS

LEMMA WorkerInitInv == Init => WorkerInv
<1> SUFFICES ASSUME Init PROVE WorkerInv
  OBVIOUS
<1> USE WorkerAssumption DEF Init
<1>1. StoreInv
  BY StoreInitInv
<1>2. FiniteInv
  BY FS_EmptySet DEF FiniteInv, StoreInit, Idle
<1>3. TypeOK
  BY <1>1 DEF TypeOK, StoreInv
<1>4. PhaseInv /\ CursorInv /\ ApplyInv /\ AheadInv
  BY DEF PhaseInv, CursorInv, CommittedId, ApplyInv, AheadInv
<1>5. MemInv /\ BatchInv /\ CheckpointCovers
  BY DEF MemInv, BatchInv, CheckpointCovers, Due, StoreInit
<1>6. AppliedOnceInOrder /\ CheckpointIsLastApplied
  BY DEF AppliedOnceInOrder, CheckpointIsLastApplied
<1> QED
  BY <1>1, <1>2, <1>3, <1>4, <1>5, <1>6 DEF WorkerInv

\* A step of the worker leaves the log alone.
LEMMA StoreKept ==
    ASSUME WorkerInv, UNCHANGED <<storeVars, late>>
    PROVE  /\ StoreInv' /\ FiniteInv'
           /\ events' = events /\ late' = late
           /\ \A p \in Projections : Due(p)' = Due(p)
           /\ \A i : CommittedId(i)' = CommittedId(i)
<1>1. StoreInv'
  BY StoreStep DEF WorkerInv
<1>2. FiniteInv'
  BY DEF WorkerInv, FiniteInv, storeVars
<1> QED
  BY <1>1, <1>2 DEF storeVars, Due, CommittedId

\* Invariants about durable state that a step which does not touch it keeps.
LEMMA DurableKept ==
    ASSUME WorkerInv, UNCHANGED <<cp, views>>, events' = events, late' = late
    PROVE  /\ CheckpointCovers' /\ AppliedOnceInOrder' /\ CheckpointIsLastApplied'
           /\ \A p \in Projections : Applied(p)' = Applied(p)
  BY DEF WorkerInv, CheckpointCovers, AppliedOnceInOrder, CheckpointIsLastApplied, Applied

----------------------------------------------------------------------------
(* One lemma per action.                                                   *)

LEMMA LogStepInv ==
    ASSUME WorkerInv, LogStep
    PROVE  WorkerInv'
<1> USE DEF WorkerInv
<1>1. StoreInv'
  BY StoreStep DEF LogStep
<1>u. UNCHANGED <<cp, views, worker, mem, batch, todo, done, faults>>
  BY DEF LogStep, workerVars
<1>e. events \subseteq events' /\ late' = late \cup {e \in events' \ events : \E f \in events : f.id > e.id}
  BY DEF LogStep, StoreNext, ReadSeq, ReadVersion, Prepared, DrawId, InsertRow,
         SequenceConflict, CommitRows, Rollback
<1>2. FiniteInv'
  <2>1. StoreNext
    BY DEF LogStep
  <2>2. ASSUME NEW w \in Writers, CommitRows(w) PROVE FiniteInv'
    BY <2>2, FS_Union, FS_EmptySet DEF FiniteInv, CommitRows, Idle, StoreInv, StoreTypeOK
  <2>3. ASSUME NEW w \in Writers, InsertRow(w) PROVE FiniteInv'
    <3>1. tx'[w].rows = tx[w].rows \cup {RowOf(w)} /\ \A v \in Writers \ {w} : tx'[v] = tx[v]
      BY <2>3 DEF InsertRow, StoreInv, StoreTypeOK, Connection
    <3> QED
      BY <2>3, <3>1, FS_AddElement DEF FiniteInv, InsertRow
  <2>4. ASSUME NEW w \in Writers, DrawId(w) PROVE FiniteInv'
    BY <2>4 DEF FiniteInv, DrawId, StoreInv, StoreTypeOK, Connection
  <2>5. ASSUME NEW w \in Writers, SequenceConflict(w) \/ Rollback(w) PROVE FiniteInv'
    <3>1. events' = events /\ tx' = [tx EXCEPT ![w] = Idle]
      BY <2>5 DEF SequenceConflict, Rollback
    <3> QED
      BY <3>1, FS_EmptySet DEF FiniteInv, Idle, StoreInv, StoreTypeOK
  <2>6. ASSUME NEW w \in Writers, NEW a, NEW k, NEW s, NEW n, Prepared(w, a, k, s, n)
        PROVE  FiniteInv'
    BY <2>6, FS_EmptySet DEF FiniteInv, Prepared, StoreInv, StoreTypeOK
  <2> QED
    BY <2>1, <2>2, <2>3, <2>4, <2>5, <2>6 DEF StoreNext, ReadSeq, ReadVersion
<1>3. TypeOK'
  BY <1>1, <1>u, <1>e DEF TypeOK, StoreInv
\* A new event that is not late is beyond every id in the log.
<1>4. \A p \in Projections : \A e \in Due(p)' :
         \/ e \in Due(p)
         \/ e \notin events /\ \A f \in events : f.id < e.id
  <2> SUFFICES ASSUME NEW p \in Projections, NEW e \in Due(p)', e \notin events,
                      NEW f \in events
               PROVE  f.id < e.id
    BY <1>e DEF Due
  <2>1. e \in events' /\ f \in events' /\ e # f /\ ~(f.id > e.id)
    BY <1>e DEF Due
  <2>2. e.id # f.id
    BY <1>1, <2>1 DEF StoreInv, IdInv
  <2>3. e.id \in Nat /\ f.id \in Nat
    BY <1>1, <2>1 DEF StoreInv, StoreTypeOK, Event
  <2> QED
    BY <2>1, <2>2, <2>3
<1>5. \A p \in Projections : \A e \in Due(p)' : e \notin Due(p) =>
         /\ cp[p] < e.id /\ mem[p] < e.id
         /\ \A f \in batch : f.id < e.id
  <2> SUFFICES ASSUME NEW p \in Projections, NEW e \in Due(p)', e \notin Due(p)
               PROVE  /\ cp[p] < e.id /\ mem[p] < e.id
                      /\ \A f \in batch : f.id < e.id
    OBVIOUS
  <2>1. e.id \in Nat \ {0}
    BY <1>1 DEF Due, StoreInv, StoreTypeOK, Event
  <2>2. \A f \in events : f.id < e.id
    BY <1>4
  <2> QED
    <3>1. cp[p] < e.id
      BY <2>1, <2>2 DEF CursorInv, CommittedId
    <3>2. mem[p] < e.id
      BY <2>1, <2>2 DEF CursorInv, CommittedId
    <3> QED
      BY <2>2, <3>1, <3>2 DEF TypeOK
<1>6. PhaseInv' /\ ApplyInv' /\ AheadInv' /\ CheckpointIsLastApplied'
  BY <1>u DEF PhaseInv, ApplyInv, AheadInv, CheckpointIsLastApplied, IsCurrent
<1>7. CursorInv' /\ AppliedOnceInOrder'
  BY <1>u, <1>e DEF CursorInv, CommittedId, AppliedOnceInOrder
<1>8. \A p \in Projections : Applied(p)' = Applied(p)
  BY <1>u DEF Applied
<1>t. \A p \in Projections : \A e \in Due(p)' : e.id \in Nat /\ mem[p] \in Nat /\ cp[p] \in Nat
  BY <1>1 DEF Due, StoreInv, StoreTypeOK, Event, TypeOK
<1>9. MemInv'
  <2> SUFFICES ASSUME NEW p \in Projections, NEW e \in Due(p)', e.id <= mem[p]
               PROVE  \/ e.id \in Applied(p)
                      \/ worker = "applying" /\ p \in done /\ IsCurrent(e)
    BY <1>u, <1>8 DEF MemInv, IsCurrent
  <2>1. e \in Due(p)
    BY <1>5, <1>t
  <2> QED
    BY <2>1 DEF MemInv
<1>10. BatchInv'
  <2> SUFFICES ASSUME NEW p \in Projections, NEW e \in Due(p)', NEW f \in batch,
                      e.id < f.id, mem[p] < e.id
               PROVE  e \in batch
    BY <1>u DEF BatchInv
  <2>1. f.id \in Nat
    BY DEF TypeOK, StoreTypeOK, Event
  <2>2. e \in Due(p)
    BY <1>5, <1>t, <2>1
  <2> QED
    BY <2>2 DEF BatchInv
<1>11. CheckpointCovers'
  <2> SUFFICES ASSUME NEW p \in Projections, NEW e \in Due(p)', e.id <= cp[p]
               PROVE  e.id \in Applied(p)
    BY <1>u, <1>8 DEF CheckpointCovers, Due
  <2>1. e \in Due(p)
    BY <1>5, <1>t
  <2> QED
    BY <2>1 DEF CheckpointCovers, Due
<1> QED
  BY <1>1, <1>2, <1>3, <1>6, <1>7, <1>9, <1>10, <1>11

LEMMA StartInv ==
    ASSUME WorkerInv, Start, UNCHANGED <<storeVars, late>>
    PROVE  WorkerInv'
<1> USE DEF WorkerInv, Start
<1>1. /\ StoreInv' /\ FiniteInv' /\ events' = events /\ late' = late
      /\ \A p \in Projections : Due(p)' = Due(p)
      /\ \A i : CommittedId(i)' = CommittedId(i)
  BY StoreKept
<1>2. /\ CheckpointCovers' /\ AppliedOnceInOrder' /\ CheckpointIsLastApplied'
      /\ \A p \in Projections : Applied(p)' = Applied(p)
  BY <1>1, DurableKept
<1>3. TypeOK' /\ CursorInv' /\ PhaseInv' /\ ApplyInv' /\ AheadInv' /\ BatchInv'
  BY <1>1 DEF TypeOK, StoreInv, CursorInv, PhaseInv, ApplyInv, AheadInv, BatchInv
<1>4. MemInv'
  BY <1>1, <1>2 DEF MemInv, CheckpointCovers, Due
<1> QED
  BY <1>1, <1>2, <1>3, <1>4

LEMMA FetchInv ==
    ASSUME WorkerInv, Fetch, UNCHANGED <<storeVars, late>>
    PROVE  WorkerInv'
<1> USE DEF WorkerInv
<1>1. /\ StoreInv' /\ FiniteInv' /\ events' = events /\ late' = late
      /\ \A p \in Projections : Due(p)' = Due(p)
      /\ \A i : CommittedId(i)' = CommittedId(i)
  BY StoreKept
<1>f. /\ worker = "polling" /\ worker' = "walking" /\ batch' # {}
      /\ UNCHANGED <<cp, views, mem, todo, done, faults>>
  BY DEF Fetch
<1>2. /\ CheckpointCovers' /\ AppliedOnceInOrder' /\ CheckpointIsLastApplied'
      /\ \A p \in Projections : Applied(p)' = Applied(p)
  BY <1>1, <1>f, DurableKept
<1>q. PICK q \in Projections :
         /\ \A p \in Projections : mem[q] <= mem[p]
         /\ batch' = QueryAfterCursor(mem[q], BatchSize)
  BY DEF Fetch, IsMinCheckpoint
<1>3. TypeOK'
  BY <1>1, <1>f, <1>q DEF TypeOK, StoreInv, QueryAfterCursor, After
<1>4. CursorInv' /\ PhaseInv' /\ ApplyInv' /\ AheadInv'
  BY <1>1, <1>f DEF CursorInv, PhaseInv, ApplyInv, AheadInv
<1>5. MemInv'
  BY <1>1, <1>2, <1>f DEF MemInv
<1>6. BatchInv'
  <2> SUFFICES ASSUME NEW p \in Projections, NEW e \in Due(p), NEW f \in batch',
                      e.id < f.id, mem[p] < e.id
               PROVE  e \in batch'
    BY <1>1, <1>f DEF BatchInv
  <2> DEFINE A == After(mem[q])
             Below(x) == {g \in A : g.id < x.id}
  <2>1. /\ e \in events /\ f \in events /\ e.id \in Nat /\ f.id \in Nat
        /\ mem[p] \in Nat /\ mem[q] \in Nat /\ mem[q] <= mem[p]
    BY <1>3, <1>1, <1>q DEF Due, TypeOK, StoreTypeOK, Event
  <2>2. e \in A
    BY <2>1 DEF After
  <2>3. f \in A /\ Cardinality(Below(f)) < BatchSize
    BY <1>q DEF QueryAfterCursor
  <2>4. Below(e) \subseteq Below(f)
    BY <2>1 DEF After, TypeOK, StoreTypeOK, Event
  <2>5. IsFiniteSet(Below(f))
    BY FS_Subset DEF After, FiniteInv
  <2>6. /\ Cardinality(Below(e)) <= Cardinality(Below(f))
        /\ Cardinality(Below(e)) \in Nat /\ Cardinality(Below(f)) \in Nat
    BY <2>4, <2>5, FS_Subset, FS_CardinalityType
  <2>7. Cardinality(Below(e)) < BatchSize
    BY <2>3, <2>6, WorkerAssumption
  <2> QED
    BY <2>2, <2>7, <1>q DEF QueryAfterCursor
<1> QED
  BY <1>1, <1>2, <1>3, <1>4, <1>5, <1>6

\* Walking on removes the least event and enters "polling" or "walking".
LEMMA WalkedFacts ==
    ASSUME NEW e, Walked(e)
    PROVE  /\ batch' = batch \ {e}
           /\ worker' \in {"polling", "walking"}
           /\ worker' = "polling" => batch' = {}
  BY DEF Walked

LEMMA SkipEventInv ==
    ASSUME WorkerInv, NEW e \in batch, SkipEvent(e), UNCHANGED <<storeVars, late>>
    PROVE  WorkerInv'
<1> USE DEF WorkerInv
<1>1. /\ StoreInv' /\ FiniteInv' /\ events' = events /\ late' = late
      /\ \A p \in Projections : Due(p)' = Due(p)
      /\ \A i : CommittedId(i)' = CommittedId(i)
  BY StoreKept
<1>f. /\ worker = "walking" /\ IsCurrent(e) /\ Needing(e) = {}
      /\ mem' = [p \in Projections |-> IF mem[p] < e.id THEN e.id ELSE mem[p]]
      /\ UNCHANGED <<cp, views, todo, done, faults>>
      /\ batch' = batch \ {e}
      /\ worker' \in {"polling", "walking"}
      /\ worker' = "polling" => batch' = {}
  BY WalkedFacts DEF SkipEvent
<1>2. /\ CheckpointCovers' /\ AppliedOnceInOrder' /\ CheckpointIsLastApplied'
      /\ \A p \in Projections : Applied(p)' = Applied(p)
  BY <1>1, <1>f, DurableKept
<1>t. /\ e \in events /\ e.id \in Nat
      /\ \A p \in Projections : mem[p] \in Nat /\ mem'[p] \in Nat /\ mem'[p] >= mem[p]
                                 /\ (mem'[p] = mem[p] \/ mem'[p] = e.id)
  BY <1>f DEF TypeOK, StoreTypeOK, Event
<1>3. TypeOK'
  <2>1. mem' \in [Projections -> Nat]
    BY <1>f, <1>t
  <2> QED
    BY <1>1, <1>f, <2>1 DEF TypeOK, StoreInv
<1>4. CursorInv'
  BY <1>1, <1>f, <1>t DEF CursorInv, CommittedId
<1>5. PhaseInv' /\ ApplyInv'
  BY <1>f DEF PhaseInv, ApplyInv
<1>6. AheadInv'
  BY <1>f, <1>t DEF AheadInv, TypeOK
<1>7. MemInv'
  <2> SUFFICES ASSUME NEW p \in Projections, NEW d \in Due(p), d.id <= mem'[p]
               PROVE  d.id \in Applied(p)
    BY <1>1, <1>2 DEF MemInv
  <2>1. d \in events /\ d.id \in Nat /\ d.kind \in Handles[p]
    BY DEF Due, TypeOK, StoreTypeOK, Event
  <2>2. CASE d.id <= mem[p]
    BY <2>2, <1>f DEF MemInv
  <2>3. CASE mem[p] < d.id /\ d.id < e.id
    BY <2>1, <2>3, <1>f, <1>t DEF BatchInv, IsCurrent
  <2>4. CASE mem[p] < d.id /\ d.id = e.id
    <3>1. d = e
      BY <2>1, <2>4, <1>t DEF StoreInv, IdInv
    <3> QED
      BY <2>1, <2>4, <3>1, <1>f DEF Needing
  <2>5. mem[p] < d.id => d.id <= e.id
    BY <2>1, <1>t, <1>f
  <2> QED
    BY <2>1, <2>2, <2>3, <2>4, <2>5, <1>t
<1>8. BatchInv'
  <2> SUFFICES ASSUME NEW p \in Projections, NEW d \in Due(p), NEW f \in batch \ {e},
                      d.id < f.id, mem'[p] < d.id
               PROVE  d \in batch \ {e}
    BY <1>1, <1>f DEF BatchInv
  <2>1. d.id \in Nat
    BY DEF Due, TypeOK, StoreTypeOK, Event
  <2>2. d \in batch
    BY <2>1, <1>t DEF BatchInv
  <2>3. d # e
    BY <1>f, <1>t
  <2> QED
    BY <2>2, <2>3
<1> QED
  BY <1>1, <1>2, <1>3, <1>4, <1>5, <1>6, <1>7, <1>8

LEMMA BeginApplyInv ==
    ASSUME WorkerInv, NEW e \in batch, BeginApply(e), UNCHANGED <<storeVars, late>>
    PROVE  WorkerInv'
<1> USE DEF WorkerInv, BeginApply
<1>1. /\ StoreInv' /\ FiniteInv' /\ events' = events /\ late' = late
      /\ \A p \in Projections : Due(p)' = Due(p)
      /\ \A i : CommittedId(i)' = CommittedId(i)
  BY StoreKept
<1>2. /\ CheckpointCovers' /\ AppliedOnceInOrder' /\ CheckpointIsLastApplied'
      /\ \A p \in Projections : Applied(p)' = Applied(p)
  BY <1>1, DurableKept
<1>3. TypeOK'
  BY <1>1 DEF TypeOK, StoreInv, Needing
<1>4. CursorInv' /\ AheadInv' /\ BatchInv'
  BY <1>1 DEF CursorInv, AheadInv, BatchInv
<1>5. PhaseInv'
  BY DEF PhaseInv, IsCurrent
<1>6. MemInv'
  BY <1>1, <1>2 DEF MemInv
<1>7. ApplyInv'
  <2> SUFFICES ASSUME NEW d \in batch, IsCurrent(d)
               PROVE  /\ \A p \in Needing(e) : mem[p] < d.id /\ d.kind \in Handles[p]
                      /\ \A p \in Projections \ Needing(e) : d.kind \in Handles[p] => mem[p] >= d.id
    BY DEF ApplyInv, IsCurrent
  <2>1. d \in events /\ e \in events /\ d.id \in Nat /\ e.id \in Nat
    BY DEF TypeOK, StoreTypeOK, Event
  <2>2. d.id = e.id
    BY <2>1 DEF IsCurrent
  <2>3. d = e
    BY <2>1, <2>2 DEF StoreInv, IdInv
  <2>4. \A p \in Projections : mem[p] \in Nat
    BY DEF TypeOK
  <2> QED
    BY <2>1, <2>3, <2>4 DEF Needing
<1> QED
  BY <1>1, <1>2, <1>3, <1>4, <1>5, <1>6, <1>7

\* The event at which the worker is, is unique.
LEMMA CurrentUnique ==
    ASSUME WorkerInv, NEW e \in batch, NEW d \in batch, IsCurrent(e), IsCurrent(d)
    PROVE  d = e /\ e \in events /\ e.id \in Nat \ {0}
<1>1. d \in events /\ e \in events /\ d.id \in Nat /\ e.id \in Nat \ {0}
  BY DEF WorkerInv, TypeOK, StoreTypeOK, Event
<1>2. d.id = e.id
  BY <1>1 DEF IsCurrent
<1> QED
  BY <1>1, <1>2 DEF WorkerInv, StoreInv, IdInv

LEMMA ApplyHandlerInv ==
    ASSUME WorkerInv, NEW e \in batch, NEW q \in Projections, ApplyHandler(e, q),
           UNCHANGED <<storeVars, late>>
    PROVE  WorkerInv'
<1> USE DEF WorkerInv
<1>1. /\ StoreInv' /\ FiniteInv' /\ events' = events /\ late' = late
      /\ \A p \in Projections : Due(p)' = Due(p)
      /\ \A i : CommittedId(i)' = CommittedId(i)
  BY StoreKept
<1>f. /\ worker = "applying" /\ IsCurrent(e) /\ q \in todo
      /\ todo' = todo \ {q} /\ done' = done \cup {q}
      /\ mem' = [mem EXCEPT ![q] = e.id]
      /\ UNCHANGED <<cp, views, worker, batch, faults>>
  BY DEF ApplyHandler
<1>2. /\ CheckpointCovers' /\ AppliedOnceInOrder' /\ CheckpointIsLastApplied'
      /\ \A p \in Projections : Applied(p)' = Applied(p)
  BY <1>1, <1>f, DurableKept
<1>c. \A d : IsCurrent(d)' = IsCurrent(d)
  BY <1>f DEF IsCurrent
<1>e. /\ e \in events /\ e.id \in Nat \ {0}
      /\ \A d \in batch : IsCurrent(d) => d = e
  BY <1>f, CurrentUnique
<1>t. /\ mem \in [Projections -> Nat] /\ cp \in [Projections -> Nat]
      /\ mem'[q] = e.id /\ \A p \in Projections \ {q} : mem'[p] = mem[p]
  BY <1>f DEF TypeOK
<1>q. mem[q] < e.id /\ e.kind \in Handles[q] /\ cp[q] <= mem[q]
  BY <1>f DEF ApplyInv, AheadInv
<1>3. TypeOK'
  BY <1>1, <1>f, <1>e DEF TypeOK, StoreInv
<1>4. CursorInv'
  BY <1>1, <1>f, <1>t, <1>e DEF CursorInv, CommittedId
<1>5. PhaseInv'
  BY <1>f, <1>c DEF PhaseInv
<1>6. AheadInv'
  BY <1>f, <1>t, <1>q, <1>e DEF AheadInv
<1>7. ApplyInv'
  <2> SUFFICES ASSUME NEW d \in batch, IsCurrent(d)
               PROVE  /\ \A p \in todo' : mem'[p] < d.id /\ d.kind \in Handles[p]
                      /\ \A p \in done' : mem'[p] = d.id /\ cp[p] < d.id /\ d.kind \in Handles[p]
                      /\ \A p \in Projections \ (todo' \cup done') :
                            d.kind \in Handles[p] => mem'[p] >= d.id
    BY <1>f, <1>c DEF ApplyInv
  <2>1. d = e
    BY <1>e
  <2>2. /\ \A p \in todo : mem[p] < e.id /\ e.kind \in Handles[p]
        /\ \A p \in done : mem[p] = e.id /\ cp[p] < e.id /\ e.kind \in Handles[p]
        /\ \A p \in Projections \ (todo \cup done) : e.kind \in Handles[p] => mem[p] >= e.id
    BY <1>f DEF ApplyInv
  <2>3. todo \subseteq Projections /\ done \subseteq Projections
    BY DEF TypeOK
  <2>4. \A p \in todo' : mem'[p] < e.id /\ e.kind \in Handles[p]
    BY <2>2, <2>3, <1>f, <1>t
  <2>5. \A p \in done' : mem'[p] = e.id /\ cp[p] < e.id /\ e.kind \in Handles[p]
    BY <2>2, <2>3, <1>f, <1>t, <1>q, <1>e
  <2>6. \A p \in Projections \ (todo' \cup done') : e.kind \in Handles[p] => mem'[p] >= e.id
    BY <2>2, <2>3, <1>f, <1>t
  <2> QED
    BY <2>1, <2>4, <2>5, <2>6
<1>8. MemInv'
  <2> SUFFICES ASSUME NEW p \in Projections, NEW d \in Due(p), d.id <= mem'[p]
               PROVE  d.id \in Applied(p) \/ (p \in done' /\ IsCurrent(d))
    BY <1>1, <1>2, <1>f, <1>c DEF MemInv
  <2>1. d \in events /\ d.id \in Nat /\ d.kind \in Handles[p]
    BY DEF Due, TypeOK, StoreTypeOK, Event
  <2>2. CASE d.id <= mem[p]
    BY <2>2, <1>f DEF MemInv
  <2>3. CASE p = q /\ mem[p] < d.id /\ d.id < e.id
    BY <2>1, <2>3, <1>f, <1>e DEF BatchInv, IsCurrent
  <2>4. CASE p = q /\ d.id = e.id
    <3>1. d = e
      BY <2>1, <2>4, <1>e DEF StoreInv, IdInv
    <3> QED
      BY <2>4, <3>1, <1>f
  <2> QED
    BY <2>1, <2>2, <2>3, <2>4, <1>t, <1>e
<1>9. BatchInv'
  <2> SUFFICES ASSUME NEW p \in Projections, NEW d \in Due(p), NEW f \in batch,
                      d.id < f.id, mem'[p] < d.id
               PROVE  d \in batch
    BY <1>1, <1>f DEF BatchInv
  <2>1. d.id \in Nat /\ mem[p] \in Nat
    BY <1>t DEF Due, TypeOK, StoreTypeOK, Event
  <2>2. mem[p] < d.id
    BY <2>1, <1>t, <1>q, <1>e
  <2> QED
    BY <2>2 DEF BatchInv
<1> QED
  BY <1>1, <1>2, <1>3, <1>4, <1>5, <1>6, <1>7, <1>8, <1>9

\* What becoming durable does to the views and to the promises about them.
LEMMA DurableInv ==
    ASSUME WorkerInv, NEW e \in batch, worker = "applying", IsCurrent(e), todo = {},
           Durable(e), UNCHANGED <<storeVars, late>>
    PROVE  /\ cp' \in [Projections -> Nat] /\ views' \in [Projections -> Seq(Nat)]
           /\ \A p \in Projections : cp'[p] >= cp[p] /\ CommittedId(cp'[p])
           /\ \A p \in Projections : cp'[p] <= mem[p]
           /\ \A p \in Projections \ done : Applied(p)' = Applied(p)
           /\ \A p \in done : Applied(p)' = Applied(p) \cup {e.id}
           /\ CheckpointCovers' /\ AppliedOnceInOrder' /\ CheckpointIsLastApplied'
<1> USE DEF WorkerInv
<1>1. events' = events /\ late' = late
  BY StoreKept
<1>e. /\ e \in events /\ e.id \in Nat \ {0}
      /\ \A d \in batch : IsCurrent(d) => d = e
  BY CurrentUnique
<1>d. /\ done \subseteq Projections
      /\ \A p \in done : mem[p] = e.id /\ cp[p] < e.id /\ e.kind \in Handles[p]
  BY DEF TypeOK, ApplyInv
<1>t. /\ cp \in [Projections -> Nat] /\ views \in [Projections -> Seq(Nat)]
      /\ mem \in [Projections -> Nat]
  BY DEF TypeOK
<1>v. /\ \A p \in Projections \ done : cp'[p] = cp[p] /\ views'[p] = views[p]
      /\ \A p \in done : cp'[p] = e.id /\ views'[p] = Append(views[p], e.id)
  BY <1>d DEF Durable
<1>a. \A p \in done :
         /\ views[p] \in Seq(Nat) /\ views'[p] \in Seq(Nat)
         /\ Len(views[p]) \in Nat /\ Len(views'[p]) = Len(views[p]) + 1
         /\ \A i \in 1 .. Len(views[p]) : views'[p][i] = views[p][i]
         /\ views'[p][Len(views[p]) + 1] = e.id
         /\ views'[p] # << >>
  <2> TAKE p \in done
  <2>1. views[p] \in Seq(Nat) /\ e.id \in Nat /\ views'[p] = Append(views[p], e.id)
    BY <1>v, <1>t, <1>e, <1>d
  <2>2. /\ Append(views[p], e.id) \in Seq(Nat)
        /\ Len(Append(views[p], e.id)) = Len(views[p]) + 1
        /\ Len(views[p]) \in Nat
        /\ \A i \in 1 .. Len(views[p]) : Append(views[p], e.id)[i] = views[p][i]
        /\ Append(views[p], e.id)[Len(views[p]) + 1] = e.id
        /\ Append(views[p], e.id) # << >>
    BY <2>1, AppendFacts
  <2> QED
    BY <2>1, <2>2
<1>2. cp' \in [Projections -> Nat] /\ views' \in [Projections -> Seq(Nat)]
  <2>1. \A p \in Projections : cp'[p] \in Nat /\ views'[p] \in Seq(Nat)
    BY <1>v, <1>a, <1>t, <1>e
  <2> QED
    BY <2>1 DEF Durable
<1>3. \A p \in Projections : cp'[p] >= cp[p] /\ CommittedId(cp'[p])
  <2> TAKE p \in Projections
  <2>1. CASE p \in done
    BY <2>1, <1>v, <1>d, <1>e, <1>t DEF CommittedId
  <2>2. CASE p \notin done
    BY <2>2, <1>v, <1>t DEF CursorInv
  <2> QED
    BY <2>1, <2>2
<1>4. \A p \in Projections : cp'[p] <= mem[p]
  BY <1>v, <1>d, <1>e, <1>t DEF AheadInv
<1>5. \A p \in Projections \ done : Applied(p)' = Applied(p)
  BY <1>v DEF Applied
<1>6. \A p \in done : Applied(p)' = Applied(p) \cup {e.id}
  <2> TAKE p \in done
  <2> DEFINE n == Len(views[p])
  <2>1. n \in Nat /\ 1 .. Len(views'[p]) = (1 .. n) \cup {n + 1}
    BY <1>a
  <2>2. {views'[p][i] : i \in (1 .. n) \cup {n + 1}}
           = {views'[p][i] : i \in 1 .. n} \cup {views'[p][n + 1]}
    OBVIOUS
  <2>3. \A i \in 1 .. n : views'[p][i] = views[p][i]
    BY <1>a
  <2>4. {views'[p][i] : i \in 1 .. n} = {views[p][i] : i \in 1 .. n}
    BY <2>3
  <2>5. views'[p][n + 1] = e.id
    BY <1>a
  <2> QED
    BY <2>1, <2>2, <2>4, <2>5 DEF Applied
<1>7. CheckpointIsLastApplied'
  BY <1>v, <1>a DEF CheckpointIsLastApplied
<1>8. AppliedOnceInOrder'
  <2> SUFFICES ASSUME NEW p \in Projections PROVE AppliedOnceInOrder!(p)'
    BY DEF AppliedOnceInOrder
  <2>1. CASE p \notin done
    BY <2>1, <1>v, <1>1 DEF AppliedOnceInOrder
  <2>2. CASE p \in done
    <3> DEFINE n == Len(views[p])
    <3>1. n \in Nat /\ \A i \in 1 .. n : views[p][i] \in Nat
      BY <1>t
    <3>2. \A i \in 1 .. n : views[p][i] <= cp[p]
      <4> SUFFICES ASSUME NEW i \in 1 .. n PROVE views[p][i] <= cp[p]
        OBVIOUS
      <4>1. cp[p] = views[p][n]
        BY <1>t DEF CheckpointIsLastApplied
      <4>2. i < n => views[p][i] < views[p][n]
        BY <3>1 DEF AppliedOnceInOrder
      <4> QED
        BY <4>1, <4>2, <3>1
    <3>3. \A i \in 1 .. n : views[p][i] < e.id
      BY <3>1, <3>2, <2>2, <1>d, <1>e, <1>t
    <3>4. \A i, j \in 1 .. n + 1 : i < j => views'[p][i] < views'[p][j]
      <4> SUFFICES ASSUME NEW i \in 1 .. n + 1, NEW j \in 1 .. n + 1, i < j
                   PROVE  views'[p][i] < views'[p][j]
        OBVIOUS
      <4>1. i \in 1 .. n /\ (j \in 1 .. n \/ j = n + 1)
        BY <3>1
      <4>2. CASE j = n + 1
        BY <4>1, <4>2, <3>3, <2>2, <1>a
      <4>3. CASE j \in 1 .. n
        BY <4>1, <4>3, <2>2, <1>a DEF AppliedOnceInOrder
      <4> QED
        BY <4>1, <4>2, <4>3
    <3>5. \A i \in 1 .. n + 1 : \E d \in events : d.id = views'[p][i] /\ d.kind \in Handles[p]
      <4> SUFFICES ASSUME NEW i \in 1 .. n + 1
                   PROVE  \E d \in events : d.id = views'[p][i] /\ d.kind \in Handles[p]
        OBVIOUS
      <4>1. CASE i = n + 1
        BY <4>1, <2>2, <1>a, <1>d, <1>e
      <4>2. CASE i \in 1 .. n
        BY <4>2, <2>2, <1>a DEF AppliedOnceInOrder
      <4> QED
        BY <4>1, <4>2, <3>1
    <3> QED
      BY <3>4, <3>5, <2>2, <1>a, <1>1
  <2> QED
    BY <2>1, <2>2
<1>9. CheckpointCovers'
  <2> SUFFICES ASSUME NEW p \in Projections, NEW d \in Due(p), d.id <= cp'[p]
               PROVE  d.id \in Applied(p)'
    BY <1>1 DEF CheckpointCovers, Due
  <2>1. CASE p \notin done
    BY <2>1, <1>v, <1>5 DEF CheckpointCovers, Due
  <2>2. CASE p \in done
    <3>1. d.id <= mem[p]
      BY <2>2, <1>v, <1>d
    <3>2. d.id \in Applied(p) \/ IsCurrent(d)
      BY <3>1 DEF MemInv
    <3>3. d.id \in Applied(p) \/ d = e
      BY <3>2, <1>e DEF IsCurrent
    <3> QED
      BY <3>3, <2>2, <1>6
  <2> QED
    BY <2>1, <2>2
<1> QED
  BY <1>2, <1>3, <1>4, <1>5, <1>6, <1>7, <1>8, <1>9

LEMMA CommitApplyInv ==
    ASSUME WorkerInv, NEW e \in batch, CommitApply(e), UNCHANGED <<storeVars, late>>
    PROVE  WorkerInv'
<1> USE DEF WorkerInv
<1>1. /\ StoreInv' /\ FiniteInv' /\ events' = events /\ late' = late
      /\ \A p \in Projections : Due(p)' = Due(p)
      /\ \A i : CommittedId(i)' = CommittedId(i)
  BY StoreKept
<1>f. /\ worker = "applying" /\ IsCurrent(e) /\ todo = {} /\ Durable(e)
      /\ done' = {} /\ UNCHANGED <<mem, todo, faults>>
      /\ batch' = batch \ {e}
      /\ worker' \in {"polling", "walking"}
      /\ worker' = "polling" => batch' = {}
  BY WalkedFacts DEF CommitApply
<1>2. /\ cp' \in [Projections -> Nat] /\ views' \in [Projections -> Seq(Nat)]
      /\ \A p \in Projections : CommittedId(cp'[p])
      /\ \A p \in Projections : cp'[p] <= mem[p]
      /\ \A p \in Projections \ done : Applied(p)' = Applied(p)
      /\ \A p \in done : Applied(p)' = Applied(p) \cup {e.id}
      /\ CheckpointCovers' /\ AppliedOnceInOrder' /\ CheckpointIsLastApplied'
  BY <1>f, DurableInv
<1>e. /\ e \in events /\ e.id \in Nat \ {0}
      /\ \A d \in batch : IsCurrent(d) => d = e
  BY <1>f, CurrentUnique
<1>3. TypeOK'
  BY <1>1, <1>2, <1>f DEF TypeOK, StoreInv
<1>4. CursorInv'
  BY <1>1, <1>2, <1>f DEF CursorInv
<1>5. PhaseInv' /\ ApplyInv' /\ AheadInv'
  BY <1>f, <1>2 DEF PhaseInv, ApplyInv, AheadInv
<1>6. MemInv'
  <2> SUFFICES ASSUME NEW p \in Projections, NEW d \in Due(p), d.id <= mem[p]
               PROVE  d.id \in Applied(p)'
    BY <1>1, <1>f DEF MemInv
  <2>1. d.id \in Applied(p) \/ (p \in done /\ IsCurrent(d))
    BY DEF MemInv
  <2>2. d.id \in Applied(p) \/ (p \in done /\ d = e)
    BY <2>1, <1>e DEF IsCurrent
  <2> QED
    BY <2>2, <1>2
<1>7. BatchInv'
  <2> SUFFICES ASSUME NEW p \in Projections, NEW d \in Due(p), NEW f \in batch \ {e},
                      d.id < f.id, mem[p] < d.id
               PROVE  d \in batch \ {e}
    BY <1>1, <1>f DEF BatchInv
  <2>1. d \in batch
    BY DEF BatchInv
  <2>2. d # e
    <3>1. d.kind \in Handles[p] /\ d.id \in Nat /\ mem[p] \in Nat
      BY DEF Due, TypeOK, StoreTypeOK, Event
    <3>2. e.kind \in Handles[p] => mem[p] >= e.id
      <4>1. p \in done => mem[p] = e.id
        BY <1>f DEF ApplyInv
      <4>2. p \notin done /\ e.kind \in Handles[p] => mem[p] >= e.id
        BY <1>f DEF ApplyInv
      <4> QED
        BY <4>1, <4>2, <1>e
    <3> QED
      BY <3>1, <3>2
  <2> QED
    BY <2>1, <2>2
<1> QED
  BY <1>1, <1>2, <1>3, <1>4, <1>5, <1>6, <1>7

\* A worker that stops forgets its checkpoints; the durable state decides.
LEMMA StoppedInv ==
    ASSUME WorkerInv, NEW how \in {"down", "failed"}, Stopped(how),
           UNCHANGED <<storeVars, late>>, faults' \in 0 .. MaxFaults,
           cp' \in [Projections -> Nat], views' \in [Projections -> Seq(Nat)],
           \A p \in Projections : CommittedId(cp'[p]),
           CheckpointCovers', AppliedOnceInOrder', CheckpointIsLastApplied'
    PROVE  WorkerInv'
<1> USE DEF WorkerInv, Stopped
<1>1. /\ StoreInv' /\ FiniteInv' /\ events' = events /\ late' = late
      /\ \A p \in Projections : Due(p)' = Due(p)
      /\ \A i : CommittedId(i)' = CommittedId(i)
  BY StoreKept
<1>2. TypeOK'
  BY <1>1 DEF TypeOK, StoreInv
<1>3. CursorInv'
  BY <1>1 DEF CursorInv, CommittedId
<1>4. PhaseInv' /\ ApplyInv' /\ AheadInv' /\ BatchInv'
  BY DEF PhaseInv, ApplyInv, AheadInv, BatchInv
<1>5. MemInv'
  <2>1. \A p \in Projections : \A d \in Due(p) : d.id \in Nat \ {0}
    BY DEF Due, TypeOK, StoreTypeOK, Event
  <2> QED
    BY <1>1, <2>1 DEF MemInv
<1> QED
  BY <1>1, <1>2, <1>3, <1>4, <1>5

LEMMA FaultInv ==
    ASSUME WorkerInv, Fail \/ Crash, UNCHANGED <<storeVars, late>>
    PROVE  WorkerInv'
<1>1. events' = events /\ late' = late
  BY StoreKept
<1>2. /\ UNCHANGED <<cp, views>> /\ faults' \in 0 .. MaxFaults
      /\ Stopped("failed") \/ Stopped("down")
  BY WorkerAssumption DEF Fail, Crash, WorkerInv, TypeOK
<1>3. CheckpointCovers' /\ AppliedOnceInOrder' /\ CheckpointIsLastApplied'
  BY <1>1, <1>2, DurableKept
<1>4. /\ cp' \in [Projections -> Nat] /\ views' \in [Projections -> Seq(Nat)]
      /\ \A p \in Projections : CommittedId(cp'[p])
  BY <1>2 DEF WorkerInv, TypeOK, CursorInv
<1> QED
  BY <1>2, <1>3, <1>4, StoppedInv

LEMMA CommitUnacknowledgedInv ==
    ASSUME WorkerInv, NEW e \in batch, CommitUnacknowledged(e), UNCHANGED <<storeVars, late>>
    PROVE  WorkerInv'
<1>1. /\ worker = "applying" /\ IsCurrent(e) /\ todo = {} /\ Durable(e)
      /\ Stopped("failed") /\ faults' \in 0 .. MaxFaults
  BY WorkerAssumption DEF CommitUnacknowledged, WorkerInv, TypeOK
<1>2. /\ cp' \in [Projections -> Nat] /\ views' \in [Projections -> Seq(Nat)]
      /\ \A p \in Projections : CommittedId(cp'[p])
      /\ CheckpointCovers' /\ AppliedOnceInOrder' /\ CheckpointIsLastApplied'
  BY <1>1, DurableInv
<1> QED
  BY <1>1, <1>2, StoppedInv

----------------------------------------------------------------------------

LEMMA WorkerStepInv ==
    ASSUME WorkerInv, [Next]_vars
    PROVE  WorkerInv'
<1>1. CASE UNCHANGED vars
  <2>1. StoreInv' /\ FiniteInv' /\ events' = events /\ late' = late
    BY <1>1, StoreKept DEF vars
  <2>2. \A i : CommittedId(i)' = CommittedId(i)
    BY <2>1 DEF CommittedId
  <2>3. CheckpointCovers' /\ AppliedOnceInOrder' /\ CheckpointIsLastApplied'
    BY <1>1, <2>1, DurableKept DEF vars, workerVars
  <2>4. TypeOK' /\ PhaseInv' /\ CursorInv' /\ ApplyInv' /\ AheadInv'
    BY <1>1, <2>1, <2>2 DEF WorkerInv, TypeOK, StoreInv, PhaseInv, CursorInv, ApplyInv, AheadInv,
                            IsCurrent, vars, workerVars
  <2>5. MemInv' /\ BatchInv'
    BY <1>1, <2>1 DEF WorkerInv, MemInv, BatchInv, Due, Applied, IsCurrent, vars, workerVars
  <2> QED
    BY <2>1, <2>3, <2>4, <2>5 DEF WorkerInv
<1>2. CASE LogStep
  BY <1>2, LogStepInv
<1>3. CASE WorkerStep
  BY <1>3, StartInv, FetchInv, SkipEventInv, BeginApplyInv, ApplyHandlerInv, CommitApplyInv,
     CommitUnacknowledgedInv, FaultInv DEF WorkerStep, WorkerNext
<1> QED
  BY <1>1, <1>2, <1>3 DEF Next

\* The inductive invariant of the log and the worker together.
THEOREM WorkerInvariant == Spec => []WorkerInv
<1>1. Init => WorkerInv
  BY WorkerInitInv
<1>2. WorkerInv /\ [Next]_vars => WorkerInv'
  BY WorkerStepInv
<1> QED
  BY <1>1, <1>2, PTL DEF Spec

\* The state of the log and of the worker always has its type; in particular the batch
\* the worker walks only holds committed events.
THEOREM WorkerTypes == Spec => []TypeOK
<1>1. WorkerInv => TypeOK
  BY DEF WorkerInv
<1> QED
  BY <1>1, WorkerInvariant, PTL

\* wait_for_checkpoint may be trusted for every event that did not commit after a larger
\* id: once the durable checkpoint has reached it, the view has applied it, whatever
\* errors, unacknowledged commits and crashes the worker went through.
THEOREM CheckpointIsTrustworthy == Spec => []CheckpointCovers
<1>1. WorkerInv => CheckpointCovers
  BY DEF WorkerInv
<1> QED
  BY <1>1, WorkerInvariant, PTL

\* No view ever applies an event twice, out of order, or one it does not handle.
THEOREM ExactlyOnceInOrder == Spec => []AppliedOnceInOrder
<1>1. WorkerInv => AppliedOnceInOrder
  BY DEF WorkerInv
<1> QED
  BY <1>1, WorkerInvariant, PTL

\* A view and its durable checkpoint never disagree about the last applied event: the
\* transaction of the worker moves both or none, also when its commit goes unacknowledged.
THEOREM CheckpointMatchesView == Spec => []CheckpointIsLastApplied
<1>1. WorkerInv => CheckpointIsLastApplied
  BY DEF WorkerInv
<1> QED
  BY <1>1, WorkerInvariant, PTL

\* Durable checkpoints only move forward.
THEOREM CheckpointsMonotonic == Spec => CheckpointNeverRegresses
<1>1. ASSUME WorkerInv, [Next]_vars
      PROVE  [\A p \in Projections : cp'[p] >= cp[p]]_vars
  <2>t. cp \in [Projections -> Nat]
    BY <1>1 DEF WorkerInv, TypeOK
  <2>1. CASE UNCHANGED cp
    BY <2>1, <2>t
  <2>2. ASSUME NEW e \in batch, CommitApply(e) \/ CommitUnacknowledged(e),
               UNCHANGED <<storeVars, late>>
        PROVE  \A p \in Projections : cp'[p] >= cp[p]
    BY <1>1, <2>2, DurableInv DEF CommitApply, CommitUnacknowledged
  <2> QED
    BY <1>1, <2>1, <2>2 DEF Next, LogStep, WorkerStep, WorkerNext, vars, workerVars, Start, Fetch,
                            SkipEvent, BeginApply, ApplyHandler, Fail, Crash
<1> QED
  BY <1>1, WorkerInvariant, PTL DEF Spec, CheckpointNeverRegresses

----------------------------------------------------------------------------
(* The refinement.  The log is the set of committed events, the view of a    *)
(* projection the ids it has applied: a commit of a writer extends the log,  *)
(* a commit of the worker applies the next event to the views of `done`, and *)
(* everything else leaves both alone.                                        *)

\* The ids a view has applied end with its checkpoint.
LEMMA AppliedUpTo ==
    ASSUME WorkerInv, NEW p \in Projections
    PROVE  \A i \in 1 .. Len(views[p]) : views[p][i] \in Nat /\ views[p][i] <= cp[p]
<1> USE DEF WorkerInv
<1>1. views[p] \in Seq(Nat) /\ cp[p] \in Nat
  BY DEF TypeOK
<1>2. TAKE i \in 1 .. Len(views[p])
<1>3. PICK n \in Nat : n = Len(views[p]) /\ n >= 1
  BY <1>1
<1>4. views[p] # <<>>
  BY <1>1, <1>3
<1>5. cp[p] = views[p][n]
  BY <1>3, <1>4 DEF CheckpointIsLastApplied
<1>6. n \in 1 .. n /\ (i < n => views[p][i] < views[p][n])
  BY <1>3 DEF AppliedOnceInOrder
<1>7. views[p][i] \in Nat /\ views[p][n] \in Nat
  BY <1>1, <1>3
<1>8. i \in 1 .. n
  BY <1>3
<1>9. QED
  BY <1>3, <1>5, <1>6, <1>7, <1>8

\* The event of the open transaction is the next one for each view that applied it.
LEMMA AppliesNext ==
    ASSUME WorkerInv, late = {}, NEW e \in batch, worker = "applying", IsCurrent(e),
           NEW p \in done
    PROVE  Abstract!IsNext(p, e)
<1> USE DEF WorkerInv
<1>1. p \in Projections /\ e \in events
  BY DEF TypeOK
<1>2. mem[p] = e.id /\ cp[p] < e.id /\ e.kind \in Handles[p]
  BY DEF ApplyInv
<1>3. e.id \in Nat /\ cp[p] \in Nat /\ \A f \in events : f.id \in Nat
  BY <1>1 DEF TypeOK, StoreTypeOK, Event
<1>4. \A i \in 1 .. Len(views[p]) : views[p][i] # e.id
  BY <1>1, <1>2, <1>3, AppliedUpTo
<1>5. e \in Abstract!Missing(p)
  BY <1>1, <1>2, <1>4 DEF Abstract!Missing
<1>6. ASSUME NEW f \in Abstract!Missing(p) PROVE e.id <= f.id
  <2>1. f \in events /\ f.kind \in Handles[p] /\ \A i \in 1 .. Len(views[p]) : views[p][i] # f.id
    BY DEF Abstract!Missing
  <2>2. f \in Due(p) /\ f.id \notin Applied(p)
    BY <2>1 DEF Due, Applied
  <2>3. f.id <= mem[p] => IsCurrent(f)
    BY <1>1, <2>2 DEF MemInv
  <2>4. f.id <= e.id => e.id <= f.id
    BY <1>2, <2>3 DEF IsCurrent
  <2>5. QED
    BY <1>3, <2>1, <2>4
<1>7. QED
  BY <1>5, <1>6 DEF Abstract!IsNext

\* The steps of the worker.
LEMMA WorkerRefines ==
    ASSUME WorkerInv, late = {}, WorkerStep
    PROVE  [Abstract!ViewNext]_(Abstract!viewVars)
<1>1. events' = events
  BY DEF WorkerStep, storeVars
<1>2. CASE views' = views
  BY <1>1, <1>2 DEF Abstract!viewVars
<1>3. ASSUME NEW e \in batch, worker = "applying", IsCurrent(e), Durable(e)
      PROVE  Abstract!ApplyNext
  <2>1. done \in SUBSET Projections /\ e \in events
    BY DEF WorkerInv, TypeOK
  <2>2. \A p \in done : Abstract!IsNext(p, e)
    BY <1>3, AppliesNext
  <2>3. views' = [p \in Projections |->
                    IF p \in done THEN Append(views[p], e.id) ELSE views[p]]
    BY <1>3 DEF Durable
  <2>4. QED
    BY <1>1, <2>1, <2>2, <2>3 DEF Abstract!ApplyNext
<1>4. views' = views \/ \E e \in batch : worker = "applying" /\ IsCurrent(e) /\ Durable(e)
  BY DEF WorkerStep, WorkerNext, Start, Fetch, SkipEvent, BeginApply, ApplyHandler, CommitApply,
     CommitUnacknowledged, Fail, Crash
<1>5. QED
  BY <1>2, <1>3, <1>4 DEF Abstract!ViewNext

\* The steps of the writers: only a commit changes the log, and without a late event it
\* adds events that follow all others.
LEMMA WritersRefine ==
    ASSUME WorkerInv, WorkerInv', late' = {}, LogStep
    PROVE  [Abstract!ViewNext]_(Abstract!viewVars)
<1>1. views' = views
  BY DEF LogStep, workerVars
<1>2. events \subseteq events'
  BY DEF LogStep, StoreNext, ReadSeq, ReadVersion, Prepared, DrawId, InsertRow, SequenceConflict,
     CommitRows, Rollback
<1>3. ASSUME NEW e \in events' \ events, NEW f \in events PROVE f.id < e.id
  <2>1. ~(f.id > e.id)
    BY DEF LogStep
  <2>2. f.id # e.id
    BY <1>2 DEF WorkerInv, StoreInv, IdInv
  <2>3. f.id \in Nat /\ e.id \in Nat
    BY <1>2 DEF WorkerInv, StoreInv, StoreTypeOK, Event
  <2>4. QED
    BY <2>1, <2>2, <2>3
<1>4. QED
  BY <1>1, <1>2, <1>3 DEF Abstract!ViewNext, Abstract!Extend

\* As long as no event commits after a larger id, the writers, the worker, its faults and
\* its restarts together implement the ordered, exactly-once view that docs/specs/state
\* promises: every view grows by exactly the next event it handles.
THEOREM PunctualLogIsView == Spec /\ [](late = {}) => ImplementsView
<1>1. Init => Abstract!ViewInit
  BY DEF Init, StoreInit, Abstract!ViewInit
<1>2. WorkerInv /\ WorkerInv' /\ late = {} /\ (late = {})' /\ [Next]_vars
        => [Abstract!ViewNext]_(Abstract!viewVars)
  <2> SUFFICES ASSUME WorkerInv, WorkerInv', late = {}, late' = {}, [Next]_vars
               PROVE  [Abstract!ViewNext]_(Abstract!viewVars)
    OBVIOUS
  <2>1. CASE UNCHANGED vars
    BY <2>1 DEF vars, storeVars, workerVars, Abstract!viewVars
  <2>2. QED
    BY <2>1, WorkerRefines, WritersRefine DEF Next
<1>3. QED
  BY <1>1, <1>2, WorkerInvariant, PTL DEF Spec, ImplementsView, Abstract!ViewSpec

\* What a writer has drawn is newer than everything committed.
NewestInv ==
    \A w \in Writers : \A f \in events :
        /\ tx[w].phase = "inserting" => f.id < tx[w].id
        /\ \A e \in tx[w].rows : f.id < e.id

OneWriter == \A v, w \in Writers : v = w

LEMMA NewestStep ==
    ASSUME OneWriter, StoreInv, NewestInv, [StoreNext]_storeVars
    PROVE  NewestInv' /\ \A e \in events' \ events, f \in events : f.id < e.id
<1>0. StoreTypeOK /\ IdInv
  BY DEF StoreInv
<1>1. CASE UNCHANGED storeVars
  BY <1>1 DEF storeVars, NewestInv
<1>2. ASSUME NEW w \in Writers, events' = events, NEW x, tx' = [tx EXCEPT ![w] = x],
             x.phase = "inserting" => \A f \in events : f.id < x.id,
             \A e \in x.rows, f \in events : f.id < e.id
      PROVE  NewestInv' /\ \A e \in events' \ events, f \in events : f.id < e.id
  BY <1>0, <1>2 DEF NewestInv, StoreTypeOK
<1>3. ASSUME NEW w \in Writers, tx' = [tx EXCEPT ![w] = Idle], events' = events
      PROVE  NewestInv' /\ \A e \in events' \ events, f \in events : f.id < e.id
  <2>1. Idle.phase = "idle" /\ Idle.rows = {}
    BY DEF Idle
  <2>2. QED
    BY <1>2, <1>3, <2>1
<1>4. ASSUME NEW w \in Writers, NEW a, NEW k, NEW s, NEW n, Prepared(w, a, k, s, n)
      PROVE  NewestInv' /\ \A e \in events' \ events, f \in events : f.id < e.id
  <2> DEFINE x == [phase |-> "ready", agg |-> a, kind |-> k, seq |-> s, left |-> n, id |-> 0,
                   rows |-> {}]
  <2>1. tx' = [tx EXCEPT ![w] = x] /\ events' = events /\ x.phase = "ready" /\ x.rows = {}
    BY <1>4 DEF Prepared
  <2> HIDE DEF x
  <2>2. QED
    BY <1>2, <2>1
<1>5. ASSUME NEW w \in Writers, DrawId(w)
      PROVE  NewestInv' /\ \A e \in events' \ events, f \in events : f.id < e.id
  <2> DEFINE x == [tx[w] EXCEPT !.phase = "inserting", !.id = nextId]
  <2>1. tx[w] \in Connection
    BY <1>0 DEF StoreTypeOK
  <2>2. tx' = [tx EXCEPT ![w] = x] /\ events' = events
    BY <1>5 DEF DrawId
  <2>3. x.id = nextId /\ x.rows = tx[w].rows
    BY <2>1 DEF Connection
  <2> HIDE DEF x
  <2>4. (\A f \in events : f.id < x.id) /\ \A e \in x.rows, f \in events : f.id < e.id
    BY <1>0, <2>3 DEF IdInv, NewestInv
  <2>5. QED
    BY <1>2, <2>2, <2>4
<1>6. ASSUME NEW w \in Writers, InsertRow(w)
      PROVE  NewestInv' /\ \A e \in events' \ events, f \in events : f.id < e.id
  <2> DEFINE x == [tx[w] EXCEPT !.phase = "ready", !.id = 0, !.seq = @ + 1, !.left = @ - 1,
                                !.rows = @ \cup {RowOf(w)}]
  <2>1. tx[w] \in Connection /\ tx[w].phase = "inserting"
    BY <1>0, <1>6 DEF StoreTypeOK, InsertRow
  <2>2. tx' = [tx EXCEPT ![w] = x] /\ events' = events
    BY <1>6 DEF InsertRow
  <2>3. x.phase = "ready" /\ x.rows = tx[w].rows \cup {RowOf(w)} /\ RowOf(w).id = tx[w].id
    BY <2>1 DEF Connection, RowOf
  <2> HIDE DEF x
  <2>4. \A e \in x.rows, f \in events : f.id < e.id
    BY <2>1, <2>3 DEF NewestInv
  <2>5. QED
    BY <1>2, <2>2, <2>3, <2>4
<1>7. ASSUME NEW w \in Writers, CommitRows(w)
      PROVE  NewestInv' /\ \A e \in events' \ events, f \in events : f.id < e.id
  <2>1. events' = events \cup tx[w].rows /\ tx'[w] = Idle /\ Idle.phase = "idle" /\ Idle.rows = {}
    BY <1>0, <1>7 DEF CommitRows, StoreTypeOK, Idle
  <2>2. \A v \in Writers : tx'[v].phase = "idle" /\ tx'[v].rows = {}
    BY <2>1 DEF OneWriter
  <2>3. QED
    BY <2>1, <2>2 DEF NewestInv
<1>8. QED
  BY <1>1, <1>3, <1>4, <1>5, <1>6, <1>7 DEF StoreNext, ReadSeq, ReadVersion, SequenceConflict, Rollback

\* With one writer at a time no event is ever late.
LEMMA NoneLate == OneWriter /\ Spec => [](late = {})
<1> SUFFICES ASSUME OneWriter PROVE Spec => [](late = {})
  OBVIOUS
<1>1. Init => NewestInv /\ late = {}
  BY DEF Init, StoreInit, NewestInv
<1>2. WorkerInv /\ (NewestInv /\ late = {}) /\ [Next]_vars => (NewestInv /\ late = {})'
  <2> SUFFICES ASSUME WorkerInv, NewestInv, late = {}, [Next]_vars
               PROVE  NewestInv' /\ late' = {}
    OBVIOUS
  <2>1. StoreInv /\ [StoreNext]_storeVars
    BY DEF WorkerInv, Next, LogStep, WorkerStep, vars
  <2>2. NewestInv' /\ \A e \in events' \ events, f \in events : f.id < e.id
    BY <2>1, NewestStep
  <2>3. \A e \in events' \ events, f \in events : ~(f.id > e.id)
    <3>1. StoreTypeOK /\ StoreTypeOK'
      BY <2>1, StoreStep DEF StoreInv
    <3>2. QED
      BY <2>2, <3>1 DEF StoreTypeOK, Event
  <2>4. late' = {}
    <3>1. CASE UNCHANGED late
      BY <3>1
    <3>2. CASE LogStep
      BY <2>3, <3>2 DEF LogStep
    <3>3. QED
      BY <3>1, <3>2 DEF Next, WorkerStep, vars
  <2>5. QED
    BY <2>2, <2>4
<1>3. QED
  BY <1>1, <1>2, WorkerInvariant, PTL DEF Spec

\* So writers that append one at a time, with the worker, implement the ordered,
\* exactly-once view.
THEOREM SerialWritersImplementView == OneWriter /\ Spec => ImplementsView
  BY NoneLate, PunctualLogIsView, PTL

============================================================================
