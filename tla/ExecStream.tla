----------------------------- MODULE ExecStream -----------------------------
(***************************************************************************)
(* A connected exec session: the two tasks of the control plane that copy  *)
(* frames between the client and the agent, the agent's gateway with its   *)
(* reader and its loop, and the guest's program.                           *)
(***************************************************************************)
EXTENDS ExecSessions

CONSTANTS
    FrameCap  \* bound on output frames on their way when the guest sends another

ASSUME StreamAssumption == FrameCap \in Nat

VARIABLES
    exited,   \* [Sessions -> the code a program exited with, or NoCode]
    blurred,  \* sessions in which a code may be lost: see ExitCodeRecorded
    torn,     \* those of them in which a read has ended inside a frame
    cut       \* sessions whose end could not be recorded

svars == <<exited, blurred, torn, cut>>
execvars == <<evars, conns, faults, svars>>

Ok == "0"               \* exit codes, other than NoCode: a program's,
Code128 == "128"        \* what the gateway sends when it has none,
Wrong == "wrong"        \* and one that output taken for an EXIT frame happens to spell
Codeless == "codeless"  \* an end without a code: a disconnect, or an EXIT that does not parse

StreamInit ==
    /\ exited = [s \in Sessions |-> NoCode]
    /\ blurred = {} /\ torn = {} /\ cut = {}

\* to_client and to_agent; the gateway: its reader, its loop; the guest. wire holds frames of
\* the guest: "out", an EXIT (Ok, or Codeless when only a piece of it was written) and "rest",
\* what is left of an output frame after a read that ended inside it.
Stream(x, tty) ==
    [pc |-> "stream", sess |-> x.sess, ws |-> "open", tc |-> "copy", ta |-> "copy",
     end |-> "unset", emitted |-> FALSE,
     gw |-> "init", reader |-> "off", exitSent |-> FALSE, down |-> <<>>, tcp |-> "open",
     vsock |-> "none", wire |-> <<>>, tty |-> tty, prog |-> "none"]

Streaming(c) == conns[c].pc = "stream"
Blur(c) == blurred' = blurred \cup {conns[c].sess}

\* The INIT frame, and emit_exec_connected, whose failure is passed over.
OpenStream(c) ==
    /\ conns[c].pc = "dial" /\ conns[c].sess \in Streamed
    /\ \/ elog' = Append(elog, Event("connected", conns[c].sess, NoCode)) /\ UNCHANGED faults
       \/ Fault /\ UNCHANGED elog
    /\ \E tty \in BOOLEAN : Becomes(c, Stream(conns[c], tty))
    /\ UNCHANGED <<eseen, esess, tokens, expired, records, inst, svars>>

----------------------------------------------------------------------------
(* ExecGateway.                                                            *)

\* handle_connection: guest_cid_for_instance, then the guest's exec port
GatewayAccepts(c) ==
    LET x == conns[c]
    IN  /\ Streaming(c) /\ x.gw = "init"
        /\ \/ /\ inst = "lost"
              /\ Becomes(c, [x EXCEPT !.gw = "off", !.down = <<Code128>>, !.tcp = "shut"])
              /\ UNCHANGED <<faults, blurred>>
           \/ /\ inst # "lost"
              /\ Becomes(c, [x EXCEPT !.gw = "loop", !.reader = "on", !.vsock = "open"])
              /\ UNCHANGED <<faults, blurred>>
           \/ /\ inst # "lost" /\ Fault
              /\ Becomes(c, [x EXCEPT !.gw = "off", !.tcp = "shut"])
              /\ Blur(c)
        /\ UNCHANGED <<evars, exited, torn, cut>>

\* What the first byte of a read makes of it. A byte of output may be that of an EXIT frame.
TakenFor(f, whole) ==
    IF f = "rest" THEN {"out", Codeless, Wrong} ELSE IF f = Ok /\ ~whole THEN {Codeless} ELSE {f}

\* What a read that ends inside a frame leaves of it. No byte in an EXIT frame is like its first.
Remainder(f) == IF f \in {"out", "rest"} THEN "rest" ELSE "out"

\* run_exec_session's reader: one read may take several of the guest's frames and end inside
\* the last, which the buffer of 4096 bytes may be too short for; only the first byte tells
\* what they are. A write to a closed stream ends it. Bound: one read takes what is left of a
\* frame.
ReaderReads(c) ==
    LET x == conns[c]
    IN  /\ Streaming(c) /\ x.reader = "on" /\ x.wire # <<>>
        /\ \E n \in 1 .. Len(x.wire), whole \in BOOLEAN :
             LET left == SubSeq(x.wire, n + 1, Len(x.wire))
                 rest == IF whole THEN left ELSE <<Remainder(x.wire[n])>> \o left
             IN  /\ whole \/ n > 1 \/ x.wire[1] \in {"out", Ok}
                 /\ \E f \in TakenFor(x.wire[1], whole \/ n > 1) :
                      IF x.tcp = "shut" THEN Becomes(c, [x EXCEPT !.reader = "off", !.wire = rest])
                      ELSE IF f = "out"
                      THEN Becomes(c, [x EXCEPT !.down = Append(@, "out"), !.wire = rest])
                      ELSE Becomes(c, [x EXCEPT !.down = Append(@, f), !.wire = rest, !.exitSent = TRUE,
                                                !.reader = "off", !.tcp = "shut"])
                 /\ IF n > 1 \/ ~whole THEN Blur(c) ELSE UNCHANGED blurred
                 /\ torn' = IF whole THEN torn ELSE torn \cup {x.sess}
        /\ UNCHANGED <<evars, faults, exited, cut>>

ReaderEof(c) ==
    /\ Streaming(c) /\ conns[c].reader = "on" /\ conns[c].wire = <<>> /\ conns[c].vsock = "shut"
    /\ Becomes(c, [conns[c] EXCEPT !.reader = "off", !.tcp = "shut"])
    /\ UNCHANGED <<evars, faults, svars>>

\* A read from the guest that fails.
ReaderFails(c) ==
    /\ Streaming(c) /\ conns[c].reader = "on" /\ Fault
    /\ Becomes(c, [conns[c] EXCEPT !.reader = "off", !.tcp = "shut"])
    /\ Blur(c)
    /\ UNCHANGED <<evars, exited, torn, cut>>

\* Mutant: a read that times out ends the loop.
GatewayTimesOut(c) ==
    LET x == conns[c]
    IN  /\ Streaming(c) /\ x.gw = "loop"
        /\ Becomes(c, [x EXCEPT !.gw = "off", !.tcp = "shut", !.vsock = "shut",
                                !.down = IF x.exitSent \/ x.tcp = "shut" THEN @ ELSE Append(@, Code128)])
        /\ UNCHANGED <<evars, faults, svars>>

\* Its loop ends when the reader has, or the control plane has stopped writing.
GatewayEnds(c) ==
    LET x == conns[c]
    IN  /\ Streaming(c) /\ x.gw = "loop"
        /\ x.reader = "off" \/ x.tcp = "shut" \/ x.ta = "off"
        /\ Becomes(c, [x EXCEPT !.gw = "off", !.tcp = "shut", !.vsock = "shut",
                                !.down = IF x.exitSent \/ x.tcp = "shut" THEN @ ELSE Append(@, Code128)])
        /\ UNCHANGED <<evars, faults, svars>>

----------------------------------------------------------------------------
(* The guest's exec service.                                               *)

\* handle_exec_connection: one read for the request, which may not hold all of it, or the
\* program cannot be started.
GuestStarts(c) ==
    LET x == conns[c]
    IN  /\ Streaming(c) /\ x.vsock = "open" /\ x.prog = "none"
        /\ \/ /\ Becomes(c, [x EXCEPT !.prog = "runs"])
              /\ UNCHANGED <<faults, blurred>>
           \/ /\ Fault
              /\ Becomes(c, [x EXCEPT !.prog = "failed", !.vsock = "shut"])
              /\ Blur(c)
        /\ UNCHANGED <<evars, exited, torn, cut>>

\* execute_with_pty, execute_with_pipes: a frame of output, while the program runs or of what
\* it, or a process it has left, has written.
GuestSends(c) ==
    LET x == conns[c]
    IN  /\ Streaming(c) /\ x.vsock = "open" /\ x.prog \in {"runs", "exited", "held"}
        /\ Len(x.wire) + Len(x.down) < FrameCap
        /\ Becomes(c, [x EXCEPT !.wire = Append(@, "out")])
        /\ UNCHANGED <<evars, faults, svars>>

\* execute_with_pty writes to a stream that does not block, and gives up when it is full: of
\* output, with the program running, or of the EXIT frame. The connection goes.
GuestSendFails(c) ==
    LET x == conns[c]
    IN  /\ Streaming(c) /\ x.tty /\ x.vsock = "open" /\ x.prog \in {"runs", "exited"} /\ Fault
        /\ \/ Becomes(c, [x EXCEPT !.prog = IF @ = "runs" THEN "alone" ELSE "done", !.vsock = "shut"])
           \/ /\ x.prog = "exited"
              /\ Becomes(c, [x EXCEPT !.prog = "done", !.vsock = "shut", !.wire = Append(@, Codeless)])
        /\ Blur(c)
        /\ UNCHANGED <<evars, exited, torn, cut>>

\* The program exits. Without a terminal the guest reads its output until nobody holds the
\* pipes any more, and a process the program has left may ("held"). With the guest gone from
\* it ("alone") nobody is told.
ProgramExits(c) ==
    LET x == conns[c]
    IN  /\ Streaming(c) /\ x.prog \in {"runs", "alone"}
        /\ exited' = [exited EXCEPT ![x.sess] = Ok]
        /\ \E p \in IF x.prog = "alone" THEN {"done"} ELSE IF x.tty THEN {"exited"} ELSE {"exited", "held"} :
             Becomes(c, [x EXCEPT !.prog = p])
        /\ UNCHANGED <<evars, faults, blurred, torn, cut>>

\* The last process that held the program's output closes it.
OutputReleased(c) ==
    /\ Streaming(c) /\ conns[c].prog = "held"
    /\ Becomes(c, [conns[c] EXCEPT !.prog = "exited"])
    /\ UNCHANGED <<evars, faults, svars>>

\* The output is drained: send_exit, and the connection is closed. Once it is gone nobody is
\* told; the program is not ended with it.
GuestFinishes(c) ==
    LET x == conns[c]
    IN  /\ Streaming(c) /\ x.prog = "exited"
        /\ Becomes(c, IF x.vsock = "open"
                      THEN [x EXCEPT !.prog = "done", !.wire = Append(@, Ok), !.vsock = "shut"]
                      ELSE [x EXCEPT !.prog = "done"])
        /\ UNCHANGED <<evars, faults, svars>>

----------------------------------------------------------------------------
(* handle_exec_socket.                                                     *)

\* set_end_state
SetEnd(x, e) == IF x.end = "unset" THEN [x EXCEPT !.end = e] ELSE x

\* Mutant: the end of the stream is taken for an empty frame.
CopyFrames(c) ==
    LET x == conns[c]
    IN  /\ Streaming(c) /\ x.tc = "copy" /\ x.down # <<>>
        /\ LET f == Head(x.down)
               y == IF f = "out" THEN x ELSE SetEnd(x, f)
           IN  Becomes(c, [y EXCEPT !.down = Tail(@),
                                    !.tc = IF f = "out" /\ x.ws = "open" THEN "copy" ELSE "emit"])
        /\ UNCHANGED <<evars, faults, svars>>

\* to_client: a frame for the client, or the end of the stream
CopyToClient(c) ==
    LET x == conns[c]
    IN  /\ Streaming(c) /\ x.tc = "copy"
        /\ \/ /\ x.down # <<>>
              /\ LET f == Head(x.down)
                     y == IF f = "out" THEN x ELSE SetEnd(x, f)
                 IN  Becomes(c, [y EXCEPT !.down = Tail(@),
                                          !.tc = IF f = "out" /\ x.ws = "open" THEN "copy" ELSE "emit"])
           \/ /\ x.down = <<>> /\ x.tcp = "shut"
              /\ Becomes(c, [SetEnd(x, Codeless) EXCEPT !.tc = "emit"])
        /\ UNCHANGED <<evars, faults, svars>>

\* to_agent: the client closes its socket, with a message or an error, or without.
ClientLeaves(c) ==
    LET x == conns[c]
    IN  /\ Streaming(c) /\ x.ta = "copy" /\ x.ws = "open" /\ Fault
        /\ \E told \in BOOLEAN :
             Becomes(c, [(IF told THEN SetEnd(x, Codeless) ELSE x) EXCEPT !.ws = "shut", !.ta = "emit"])
        /\ Blur(c)
        /\ UNCHANGED <<evars, exited, torn, cut>>

\* ... or sends to a gateway that has closed: what it had sent may be lost, or the write fails.
ClientSends(c) ==
    LET x == conns[c]
    IN  /\ Streaming(c) /\ x.ta = "copy" /\ x.ws = "open" /\ x.tcp = "shut" /\ Fault
        /\ \/ Becomes(c, [x EXCEPT !.down = <<>>])
           \/ Becomes(c, [x EXCEPT !.ta = "emit"])
        /\ Blur(c)
        /\ UNCHANGED <<evars, exited, torn, cut>>

\* The client closes its socket after the last frame.
ClientDone(c) ==
    /\ Streaming(c) /\ conns[c].ta = "copy" /\ conns[c].tc = "off"
    /\ Becomes(c, [conns[c] EXCEPT !.ws = "shut", !.ta = "emit"])
    /\ UNCHANGED <<evars, faults, svars>>

\* Mutant: both tasks record an end.
ClaimAnyway(x, task) == [x EXCEPT ![task] = "claimed", !.emitted = TRUE]

\* emit_exec_end_from_state: the first of the two tasks,
Claim(x, task) == IF x.emitted THEN [x EXCEPT ![task] = "off"] ELSE [x EXCEPT ![task] = "claimed", !.emitted = TRUE]

ClaimEnd(c) ==
    /\ Streaming(c)
    /\ \E task \in {"tc", "ta"} : conns[c][task] = "emit" /\ Becomes(c, Claim(conns[c], task))
    /\ UNCHANGED <<evars, faults, svars>>

\* records what the other may have set by then.
EmitEnd(c) ==
    LET x == conns[c]
        code == IF x.end \in {"unset", Codeless} THEN NoCode ELSE x.end
    IN  /\ Streaming(c)
        /\ \E task \in {"tc", "ta"} : x[task] = "claimed" /\ Becomes(c, [x EXCEPT ![task] = "off"])
        /\ \/ elog' = Append(elog, Event("ended", x.sess, code)) /\ UNCHANGED <<faults, cut>>
           \/ Fault /\ cut' = cut \cup {x.sess} /\ UNCHANGED elog
        /\ UNCHANGED <<eseen, esess, tokens, expired, records, inst, exited, blurred, torn>>

\* Everything of the connection is over but, maybe, the program.
StreamOver(c) ==
    /\ Streaming(c) /\ conns[c].tc = "off" /\ conns[c].ta = "off" /\ conns[c].gw = "off" /\ conns[c].reader = "off"
    /\ Becomes(c, Done)
    /\ UNCHANGED <<evars, faults, svars>>

\* The control plane dies with every request and connection.
ControlPlaneDies ==
    /\ Fault
    /\ conns' = [c \in Clients |-> IF conns[c] = NoConn THEN NoConn ELSE Done]
    /\ cut' = cut \cup {conns[c].sess : c \in {c \in Clients : conns[c].pc \in {"dial", "stream"}}}
    /\ UNCHANGED <<evars, exited, blurred, torn>>

----------------------------------------------------------------------------

GrantStep(c) == RequestGrant(c) \/ AppendGranted(c) \/ StoreExecToken(c) \/ AnswerGrant(c)
ConnectStep(c) == ConsumeToken(c) \/ LoadSession(c) \/ DialFails(c)
Machinery(c) ==
    \/ GatewayAccepts(c) \/ ReaderReads(c) \/ ReaderEof(c) \/ GatewayEnds(c) \/ GuestStarts(c)
    \/ CopyToClient(c) \/ ClaimEnd(c) \/ EmitEnd(c) \/ StreamOver(c)

ExecNext ==
    \/ (ProjectExec \/ SessionExpires \/ InstanceChanges) /\ UNCHANGED svars
    \/ ControlPlaneDies
    \/ \E c \in Clients :
         \/ (GrantStep(c) \/ ConnectStep(c)) /\ UNCHANGED svars
         \/ OpenStream(c) \/ Machinery(c) \/ ReaderFails(c) \/ GuestSends(c) \/ GuestSendFails(c) \/ ProgramExits(c)
         \/ OutputReleased(c) \/ GuestFinishes(c) \/ ClientLeaves(c) \/ ClientSends(c) \/ ClientDone(c)

----------------------------------------------------------------------------

\* The events of a session's life, in order.
Before(t, u) == (t = "granted" /\ u # "granted") \/ (t = "connected" /\ u = "ended")

\* Clients whose connection has used up a session's token.
Holds(c) == conns[c].pc \in {"load", "dial", "stream"}

\* A session's events are one grant, at most one connection and at most one end, in this
\* order, however many clients were handed its token, and whichever of the two tasks, a
\* failed dial or a late frame ends it: what the audit log says of a session happened once.
AuditTrail ==
    /\ \A j \in 1 .. Len(elog) :
         /\ elog[j].type # "granted" =>
              \E i \in 1 .. j - 1 : elog[i].sess = elog[j].sess /\ elog[i].type = "granted"
         /\ \A i \in 1 .. j - 1 : elog[i].sess = elog[j].sess => Before(elog[i].type, elog[j].type)
    /\ \A c, d \in Clients : Holds(c) /\ Holds(d) /\ conns[c].sess = conns[d].sess => c = d

\* The code recorded for a session is its program's, and is recorded, unless the gateway
\* ended the session itself. It may be lost when the client left or wrote after the end, when
\* a read took more or less than one frame of the guest's, when the agent could not reach the
\* guest or the guest its connection; and only output read from inside a frame is ever taken
\* for another code.
ExitCodeRecorded ==
    \A k \in 1 .. Len(elog) :
        LET e == elog[k]
        IN  e.type = "ended" =>
              /\ e.sess \in torn \/ e.code \in {NoCode, Code128} \/ e.code = exited[e.sess]
              /\ e.sess \notin blurred /\ exited[e.sess] # NoCode => e.code = exited[e.sess]

\* Somebody has ended a session: its program has exited and nothing holds its output, the
\* guest or the gateway has closed its side, or the client has left.
Ending(s) ==
    \E c \in Clients :
        /\ Streaming(c) /\ conns[c].sess = s
        /\ \/ conns[c].prog = "exited" \/ conns[c].vsock = "shut" \/ conns[c].tcp = "shut"
           \/ conns[c].ws = "shut" \/ conns[c].ta # "copy"

\* A session that its program, the guest, the gateway or the client has ended gets its end
\* recorded, whatever frames are still on their way and however the two tasks race for it,
\* unless the control plane died or failed to append it. A program that has exited and left
\* a process with its output has not ended its session.
SessionsEnd ==
    \A s \in Streamed : Ending(s) ~> (StatusAt(s, Len(elog)) = "ended" \/ s \in cut)

=============================================================================
