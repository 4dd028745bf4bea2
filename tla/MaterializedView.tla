--------------------------- MODULE MaterializedView ---------------------------
(***************************************************************************)
(* What docs/specs/state/event-log.md and materialized-views.md promise a  *)
(* consumer of the log, with no worker, transaction or crash in sight:     *)
(* events join the log in the order of their ids, and a view grows by      *)
(* exactly the next event of the log that it handles.                      *)
(***************************************************************************)
EXTENDS Integers, Sequences

CONSTANTS Projections, Handles

VARIABLES
    log,        \* the committed events: records with an id and a kind
    view        \* the ids each view has applied

viewVars == <<log, view>>

\* The handled events that the view has not applied.
Missing(p) ==
    {e \in log : e.kind \in Handles[p] /\ \A i \in 1 .. Len(view[p]) : view[p][i] # e.id}

IsNext(p, e) == e \in Missing(p) /\ \A f \in Missing(p) : e.id <= f.id

ViewInit ==
    /\ log = {}
    /\ view = [p \in Projections |-> <<>>]

\* One transaction of a writer: all its events follow everything in the log.
Extend ==
    /\ log \subseteq log'
    /\ \A e \in log' \ log, f \in log : f.id < e.id
    /\ UNCHANGED view

\* One transaction of the worker: an event joins several views at once.
ApplyNext ==
    \E S \in SUBSET Projections, e \in log :
        /\ \A p \in S : IsNext(p, e)
        /\ view' = [p \in Projections |-> IF p \in S THEN Append(view[p], e.id) ELSE view[p]]
        /\ UNCHANGED log

ViewNext == Extend \/ ApplyNext

ViewSpec == ViewInit /\ [][ViewNext]_viewVars

============================================================================
