---------------------------- MODULE ExecSessions ----------------------------
(***************************************************************************)
(* Exec sessions in the control plane: granting one, its single-use token, *)
(* connecting, the events of its life and the view they are projected to.  *)
(* A client asks for a grant and then connects, in one process.            *)
(***************************************************************************)
EXTENDS Integers, Sequences, FiniteSets, SequencesExt

CONSTANTS
    Clients,
    Keys,           \* idempotency keys; "none" is a request without one
    KeysOf,         \* [Clients -> the keys it may use]
    MaxSessions,    \* bound on sessions
    EnvLimit,       \* MAX_SESSIONS_PER_ENV
    InstanceLimit,  \* MAX_SESSIONS_PER_INSTANCE
    Streamed,       \* bound: the sessions whose connection carries frames
    MaxFaults       \* bound on what goes wrong from outside

ASSUME ExecAssumption ==
    /\ MaxSessions \in Nat /\ EnvLimit \in Nat /\ InstanceLimit \in Nat /\ MaxFaults \in Nat
    /\ "none" \in Keys /\ KeysOf \in [Clients -> SUBSET Keys]

Sessions == 1 .. MaxSessions
None == 0
NoCode == "none"

VARIABLES
    elog,     \* the events of exec sessions: Seq([type, sess, code])
    eseen,    \* events of elog that exec_sessions_view has
    esess,    \* sessions granted so far
    tokens,   \* exec_session_tokens: [Sessions -> "none", "fresh" or "consumed"]
    expired,  \* sessions, and tokens, past expires_at
    records,  \* idempotency records: [Keys -> session or None]
    inst,     \* the instance: "ready", "draining" or "lost" to the control plane only
    conns,    \* [Clients -> state of its request or connection]
    faults

evars == <<elog, eseen, esess, tokens, expired, records, inst>>

NoConn == [pc |-> "idle"]
Done == [pc |-> "done"]
Becomes(c, x) == conns' = [conns EXCEPT ![c] = x]
Fault == faults < MaxFaults /\ faults' = faults + 1

ExecInit ==
    /\ elog = <<>> /\ eseen = 0 /\ esess = 0
    /\ tokens = [s \in Sessions |-> "none"]
    /\ expired = {}
    /\ records = [k \in Keys |-> None]
    /\ inst = "ready"
    /\ conns = [c \in Clients |-> NoConn]
    /\ faults = 0

----------------------------------------------------------------------------
(* The log and the view.                                                   *)

Event(type, s, code) == [type |-> type, sess |-> s, code |-> code]
TypesOf(s, n) == {elog[k].type : k \in {k \in 1 .. n : elog[k].sess = s}}

\* ExecSessionsProjection, over the first n events: each sets the status it is named for
StatusAt(s, n) ==
    IF "ended" \in TypesOf(s, n) THEN "ended"
    ELSE IF "connected" \in TypesOf(s, n) THEN "connected"
    ELSE IF "granted" \in TypesOf(s, n) THEN "granted" ELSE "none"

\* get_exec_session, load_exec_session
ViewStatus(s) == StatusAt(s, eseen)

ProjectExec ==
    /\ eseen < Len(elog)
    /\ eseen' = eseen + 1
    /\ UNCHANGED <<elog, esess, tokens, expired, records, inst, conns, faults>>

SessionExpires ==
    /\ \E s \in 1 .. esess : s \notin expired /\ (\A q \in 1 .. s - 1 : q \in expired) /\ expired' = expired \cup {s}
    /\ UNCHANGED <<elog, eseen, esess, tokens, records, inst, conns, faults>>

----------------------------------------------------------------------------
(* create_exec_grant.                                                      *)

\* enforce_exec_concurrency_limits counts what the view shows as live and not past expires_at.
LiveAt(n) == {s \in Sessions \ expired : StatusAt(s, n) \in {"granted", "connected"}}

WithinLimits == Cardinality(LiveAt(eseen)) < EnvLimit /\ Cardinality(LiveAt(eseen)) < InstanceLimit

\* The idempotency record, the instance's status in the views, and the limits. A command that
\* validate_exec_command refuses is answered without a trace.
RequestGrant(c) ==
    /\ conns[c].pc = "idle" /\ esess < MaxSessions
    /\ \E k \in KeysOf[c] :
         \/ /\ records[k] # None
            /\ Becomes(c, [pc |-> "granted", sess |-> records[k]])
         \/ /\ records[k] = None /\ inst \in {"ready", "lost"} /\ WithinLimits
            /\ Becomes(c, [pc |-> "append", key |-> k])
    /\ UNCHANGED <<evars, faults>>

AppendGranted(c) ==
    /\ conns[c].pc = "append" /\ esess < MaxSessions
    /\ esess' = esess + 1
    /\ elog' = Append(elog, Event("granted", esess', NoCode))
    /\ Becomes(c, [pc |-> "store", key |-> conns[c].key, sess |-> esess', event |-> Len(elog')])
    /\ UNCHANGED <<eseen, tokens, expired, records, inst, faults>>

\* store_exec_token; when it fails the session stays granted without one.
StoreExecToken(c) ==
    /\ conns[c].pc = "store"
    /\ \/ /\ tokens' = [tokens EXCEPT ![conns[c].sess] = "fresh"]
          /\ Becomes(c, [conns[c] EXCEPT !.pc = "wait"])
          /\ UNCHANGED faults
       \/ Fault /\ Becomes(c, Done) /\ UNCHANGED tokens
    /\ UNCHANGED <<elog, eseen, esess, expired, records, inst>>

\* wait_for_checkpoint, the record (the first one stays) and the answer; or a timeout.
AnswerGrant(c) ==
    /\ conns[c].pc = "wait"
    /\ \/ /\ eseen >= conns[c].event
          /\ records' = IF conns[c].key = "none" \/ records[conns[c].key] # None THEN records
                        ELSE [records EXCEPT ![conns[c].key] = conns[c].sess]
          /\ Becomes(c, [pc |-> "granted", sess |-> conns[c].sess])
          /\ UNCHANGED faults
       \/ Fault /\ Becomes(c, Done) /\ UNCHANGED records
    /\ UNCHANGED <<elog, eseen, esess, tokens, expired, inst>>

----------------------------------------------------------------------------
(* connect_exec_session.                                                   *)

TokenValid(s) == tokens[s] = "fresh" /\ s \notin expired

\* validate_and_consume_exec_token, under the row's lock. The token is gone whatever follows.
ConsumeToken(c) ==
    /\ conns[c].pc = "granted"
    /\ IF TokenValid(conns[c].sess)
       THEN /\ tokens' = [tokens EXCEPT ![conns[c].sess] = "consumed"]
            /\ Becomes(c, [conns[c] EXCEPT !.pc = "load"])
       ELSE Becomes(c, Done) /\ UNCHANGED tokens
    /\ UNCHANGED <<elog, eseen, esess, expired, records, inst, faults>>

\* load_exec_session, load_instance_placement, load_node_address
LoadSession(c) ==
    /\ conns[c].pc = "load"
    /\ Becomes(c, IF ViewStatus(conns[c].sess) = "granted" /\ conns[c].sess \notin expired /\ inst \in {"ready", "lost"}
                  THEN [conns[c] EXCEPT !.pc = "dial"] ELSE Done)
    /\ UNCHANGED <<evars, faults>>

\* handle_exec_socket: no agent, no INIT frame
DialFails(c) ==
    /\ conns[c].pc = "dial"
    /\ Fault
    /\ elog' = Append(elog, Event("ended", conns[c].sess, NoCode))
    /\ Becomes(c, Done)
    /\ UNCHANGED <<eseen, esess, tokens, expired, records, inst>>

\* The instance drains, or its agent has lost it and the control plane does not know yet.
InstanceChanges ==
    /\ inst = "ready" /\ Fault
    /\ inst' \in {"draining", "lost"}
    /\ UNCHANGED <<elog, eseen, esess, tokens, expired, records, conns>>

=============================================================================
