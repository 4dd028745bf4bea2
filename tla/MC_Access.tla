----------------------------- MODULE MC_Access -----------------------------
(***************************************************************************)
(* Who gets in: tokens, and exec sessions. They share no state but the     *)
(* control plane they are part of; a behaviour is about one of them. Two   *)
(* clients and two exec sessions of one instance; two requests with three  *)
(* tokens.                                                                 *)
(***************************************************************************)
EXTENDS ExecStream, AuthTokens

KeysOfValue == [c \in Clients |-> IF c = 1 THEN {"k"} ELSE {"k", "none"}]

VARIABLES side      \* which of the two the behaviour is about

accessvars == <<execvars, avars, side>>

AccessInit == ExecInit /\ StreamInit /\ AuthInit /\ side \in {"exec", "auth"}

AccessNext ==
    /\ UNCHANGED side
    /\ \/ side = "exec" /\ ExecNext /\ UNCHANGED avars
       \/ side = "auth" /\ AuthNext /\ UNCHANGED execvars

\* Tasks, threads and requests that have work do it, and a cache entry grows old. A program
\* need not end, what it has left need not let go of its output, and nobody need call.
Fairness ==
    /\ \A c \in Clients : WF_accessvars(side = "exec" /\ Machinery(c) /\ UNCHANGED <<avars, side>>)
    /\ \A c \in Clients : WF_accessvars(side = "exec" /\ GuestFinishes(c) /\ UNCHANGED <<avars, side>>)
    /\ \A c \in Callers : WF_accessvars(side = "auth" /\ Finish(c) /\ UNCHANGED <<execvars, side>>)
    /\ WF_accessvars(side = "auth" /\ CacheExpires /\ UNCHANGED <<execvars, side>>)

AccessSpec == AccessInit /\ [][AccessNext]_accessvars /\ Fairness

\* Bound on what is explored: a session has a terminal, or output on its way, only while no
\* other client has called.
Talks(c) ==
    /\ Streaming(c)
    /\ conns[c].tty \/ \E f \in {"out", "rest"} : f \in Range(conns[c].wire) \cup Range(conns[c].down)

Explored ==
    \A c, d \in Clients : c # d /\ (Talks(c) \/ torn # {}) => conns[c] = NoConn \/ conns[d] = NoConn

ExploredSpec == AccessInit /\ [][AccessNext /\ Explored']_accessvars /\ Fairness

=============================================================================
