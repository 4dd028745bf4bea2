---------------------------- MODULE Access_proofs ----------------------------
(***************************************************************************)
(* Who gets in, for every number of clients, requests, sessions, tokens    *)
(* and faults.                                                             *)
(*                                                                         *)
(* OneLineage needs to know of a revocation between its two statements and *)
(* of the device code (LineInv).  AuditTrail rests on the single use of a  *)
(* token (TokenInv) and on the claim of the two tasks (ClaimInv).          *)
(* ExitCodeRecorded follows the program's exit code through guest, gateway *)
(* and control plane: Path says where it is while nothing has blurred it.  *)
(***************************************************************************)
EXTENDS MC_Access, FiniteSetTheorems, SequenceTheorems, TLAPS

----------------------------------------------------------------------------
(* Invariants of the token endpoints.                                      *)

Token == [refresh : {"live", "revoked", "expired", "none"}, access : {"live", "revoked", "expired"}]

Call == {Idle, [pc |-> "consume"]} \cup [pc : {"revoke", "insert"}, tok : Nat]

Statuses == {"pending", "approved", "denied", "expired", "consumed"}

AuthTypeOK ==
    /\ device \in [status : Statuses, recent : BOOLEAN]
    /\ toks \in Seq(Token)
    /\ calls \in [Callers -> Call]

\* The line of tokens starts when the code is consumed and has one end; a revocation that is
\* between its statements has done away with the access token.
LineInv ==
    /\ device.status # "consumed" => \A n \in 1 .. Len(toks) : toks[n].refresh = "none"
    /\ \A m, n \in 1 .. Len(toks) : toks[m].refresh = "live" /\ toks[n].refresh = "live" => m = n
    /\ \A n \in 1 .. Len(toks) : toks[n].refresh = "revoked" => toks[n].access # "live"
    /\ \A c \in Callers : calls[c].pc = "revoke" =>
         calls[c].tok \in 1 .. Len(toks) /\ toks[calls[c].tok].access # "live"

AuthInv == AuthTypeOK /\ LineInv

----------------------------------------------------------------------------
(* Invariants of exec sessions.                                            *)

ExecEvent == [type : {"granted", "connected", "ended"}, sess : Sessions, code : {NoCode, Ok, Code128, Wrong}]

Frames == {"out", Ok, Code128, Codeless, Wrong}
WireFrames == {"out", "rest", Ok, Codeless}
Tasks == {"copy", "emit", "claimed", "off"}

\* A connection that copies frames.
StreamRec ==
    [pc : {"stream"}, sess : Sessions, ws : {"open", "shut"}, tc : Tasks, ta : Tasks,
     end : {"unset", Codeless, Ok, Code128, Wrong}, emitted : BOOLEAN,
     gw : {"init", "loop", "off"}, reader : {"on", "off"}, exitSent : BOOLEAN, down : Seq(Frames),
     tcp : {"open", "shut"}, vsock : {"none", "open", "shut"},
     wire : Seq(WireFrames), tty : BOOLEAN,
     prog : {"none", "runs", "alone", "exited", "held", "done", "failed"}]

Conn ==
    [pc : {"idle", "done"}] \cup [pc : {"append"}, key : Keys]
    \cup [pc : {"store", "wait"}, key : Keys, sess : Sessions, event : Nat]
    \cup [pc : {"granted", "load", "dial"}, sess : Sessions] \cup StreamRec

ExecTypeOK ==
    /\ elog \in Seq(ExecEvent)
    /\ esess \in 0 .. MaxSessions
    /\ tokens \in [Sessions -> {"none", "fresh", "consumed"}]
    /\ records \in [Keys -> 0 .. esess]
    /\ conns \in [Clients -> Conn]
    /\ exited \in [Sessions -> {NoCode, Ok}]

\* All of session s in the log is its grant.
OnlyGranted(s) == \A k \in 1 .. Len(elog) : elog[k].sess = s => elog[k].type = "granted"
NotEnded(s) == \A k \in 1 .. Len(elog) : elog[k].sess = s => elog[k].type # "ended"

\* The sessions there are.
SessionInv ==
    /\ \A k \in 1 .. Len(elog) : elog[k].sess <= esess
    /\ \A s \in 1 .. esess : \E k \in 1 .. Len(elog) : elog[k].sess = s /\ elog[k].type = "granted"
    /\ \A c \in Clients : conns[c].pc \in {"store", "wait", "granted", "load", "dial", "stream"} =>
         conns[c].sess <= esess
    /\ \A s \in Sessions : s > esess => tokens[s] = "none"

\* A token is stored once, by the client whose grant it is, and until it is consumed nothing
\* but the grant has happened; one client has consumed it.
TokenInv ==
    /\ \A c \in Clients : conns[c].pc = "store" => tokens[conns[c].sess] = "none"
    /\ \A c, d \in Clients :
         conns[c].pc = "store" /\ conns[d].pc = "store" /\ conns[c].sess = conns[d].sess => c = d
    /\ \A s \in Sessions : tokens[s] # "consumed" => OnlyGranted(s) /\ exited[s] = NoCode
    /\ \A c \in Clients : Holds(c) => tokens[conns[c].sess] = "consumed"
    /\ \A c \in Clients : conns[c].pc \in {"load", "dial"} =>
         OnlyGranted(conns[c].sess) /\ exited[conns[c].sess] = NoCode

\* One of the two tasks of a connection records its end.
Claims(x) ==
    /\ x.tc = "claimed" \/ x.ta = "claimed" => x.emitted
    /\ ~(x.tc = "claimed" /\ x.ta = "claimed")
    /\ x.emitted => x.tc \in {"claimed", "off"} \/ x.ta \in {"claimed", "off"}

Recorded(x) == x.emitted /\ x.tc # "claimed" /\ x.ta # "claimed"

ClaimInv ==
    \A c \in Clients : Streaming(c) =>
        Claims(conns[c]) /\ (~Recorded(conns[c]) => NotEnded(conns[c].sess))

\* Sequences of frames.
Has(q, f) == \E k \in 1 .. Len(q) : q[k] = f
AllOut(q) == \A k \in 1 .. Len(q) : q[k] = "out"
EndsIn(q) == Len(q) > 0 /\ q[Len(q)] = Ok /\ \A k \in 1 .. Len(q) - 1 : q[k] = "out"

\* With e the exit of its program and T the sessions with a read that ended inside a frame:
\* the exit code exists once the program has exited, a frame or the end state can hold it
\* only when the guest has sent it, and only such a read leaves output to be taken for a code.
CodeAt(x, e, T) ==
    /\ x.prog \in {"exited", "held", "done"} <=> e = Ok
    /\ Has(x.wire, Ok) \/ x.end = Ok \/ Has(x.down, Ok) => x.prog = "done"
    /\ Has(x.wire, "rest") \/ x.end = Wrong \/ Has(x.down, Wrong) => x.sess \in T

CodeInv == \A c \in Clients : Streaming(c) => CodeAt(conns[c], exited[conns[c].sess], torn)

\* The path of the exit code while nothing has blurred it.  The gateway has not begun,
NotBegun(x) == x.gw = "init" /\ x.reader = "off" /\ x.vsock = "none" /\ AllOut(x.wire)

\* or it never found the instance,
NoGuest(x) == x.gw = "off" /\ x.reader = "off" /\ x.vsock = "none"

\* or its reader waits for the program, or for the rest of what the program has sent,
Reads(x) ==
    /\ x.gw = "loop" /\ x.reader = "on"
    /\ x.prog = "done" => EndsIn(x.wire)
    /\ x.prog # "done" => AllOut(x.wire) /\ x.vsock = "open"

\* and until then both tasks copy;
Copies(x) ==
    /\ x.tc = "copy" /\ x.ta = "copy" /\ x.ws = "open" /\ x.end = "unset"
    /\ x.tcp = "open" /\ ~x.exitSent /\ AllOut(x.down)

\* or the code is the last frame to be copied,
OnItsWay(x) ==
    /\ x.end = "unset" /\ x.tc = "copy" /\ x.ta = "copy" /\ x.ws = "open"
    /\ EndsIn(x.down)

\* or it has arrived.
Arrived(x) == x.end = Ok /\ x.tc # "copy" /\ (x.ta # "copy" => x.tc = "off")

Delivers(x) ==
    /\ x.gw # "init" /\ x.reader = "off" /\ x.prog = "done" /\ x.exitSent /\ x.tcp = "shut"
    /\ OnItsWay(x) \/ Arrived(x)

Path(x) ==
    \/ NotBegun(x) /\ x.prog = "none" /\ Copies(x) /\ x.down = <<>>
    \/ NoGuest(x) /\ x.prog = "none"
    \/ Reads(x) /\ x.prog \notin {"failed", "alone"} /\ Copies(x)
    \/ Delivers(x)

PathInv == \A c \in Clients : Streaming(c) /\ conns[c].sess \notin blurred => Path(conns[c])

ExecInv ==
    /\ ExecTypeOK /\ SessionInv /\ TokenInv /\ ClaimInv /\ AuditTrail
    /\ CodeInv /\ PathInv /\ ExitCodeRecorded

----------------------------------------------------------------------------
(* The token endpoints.                                                    *)

\* What create_access_token adds to the table.
LEMMA IssuedFacts ==
    ASSUME NEW ts \in Seq(Token), NEW r \in {"live", "none"}
    PROVE  /\ Issued(ts, r) \in Seq(Token) /\ Len(Issued(ts, r)) = Len(ts) + 1
           /\ \A n \in 1 .. Len(ts) : Issued(ts, r)[n] = ts[n]
           /\ Issued(ts, r)[Len(ts) + 1].refresh = r
           /\ Issued(ts, r)[Len(ts) + 1].access = "live"
<1>1. PICK t \in Token : t = [refresh |-> r, access |-> "live"]
  BY DEF Token
<1>2. t.refresh = r /\ t.access = "live"
  BY <1>1
<1>3. /\ Append(ts, t) \in Seq(Token) /\ Len(Append(ts, t)) = Len(ts) + 1
      /\ \A n \in 1 .. Len(ts) : Append(ts, t)[n] = ts[n]
      /\ Append(ts, t)[Len(ts) + 1] = t
  OBVIOUS
<1>4. Issued(ts, r) = Append(ts, t)
  BY <1>1 DEF Issued
<1>5. QED
  BY <1>2, <1>3, <1>4

\* A row of the table is changed, the others are not.
LEMMA TokenChanged ==
    ASSUME NEW ts \in Seq(Token), NEW n \in 1 .. Len(ts), NEW t \in Token
    PROVE  /\ [ts EXCEPT ![n] = t] \in Seq(Token) /\ Len([ts EXCEPT ![n] = t]) = Len(ts)
           /\ [ts EXCEPT ![n] = t][n] = t
           /\ \A m \in 1 .. Len(ts) : m # n => [ts EXCEPT ![n] = t][m] = ts[m]
  OBVIOUS

\* LineInv after a step that issues nothing and revives no token.
LEMMA LineKept ==
    ASSUME AuthInv, AuthTypeOK', Len(toks') = Len(toks),
           device.status = "consumed" => device'.status = "consumed",
           \A n \in 1 .. Len(toks) :
               /\ toks'[n].refresh = "none" <=> toks[n].refresh = "none"
               /\ toks'[n].refresh = "live" => toks[n].refresh = "live"
               /\ toks'[n].access = "live" => toks[n].access = "live"
               /\ toks'[n].refresh = "revoked" =>
                    toks[n].refresh = "revoked" \/ toks'[n].access # "live",
           \A c \in Callers : calls'[c].pc = "revoke" =>
               \/ calls'[c] = calls[c]
               \/ calls'[c].tok \in 1 .. Len(toks) /\ toks'[calls'[c].tok].access # "live"
    PROVE  AuthInv'
<1>1. AuthTypeOK /\ LineInv
  BY DEF AuthInv
<1>2. device'.status # "consumed" => \A n \in 1 .. Len(toks) : toks'[n].refresh = "none"
  BY <1>1 DEF LineInv
<1>3. \A m, n \in 1 .. Len(toks) : toks'[m].refresh = "live" /\ toks'[n].refresh = "live" => m = n
  BY <1>1 DEF LineInv
<1>4. \A n \in 1 .. Len(toks) : toks'[n].refresh = "revoked" => toks'[n].access # "live"
  BY <1>1 DEF LineInv
<1>5. ASSUME NEW c \in Callers, calls'[c].pc = "revoke"
      PROVE  calls'[c].tok \in 1 .. Len(toks) /\ toks'[calls'[c].tok].access # "live"
  <2>1. CASE calls'[c] = calls[c]
    BY <1>1, <1>5, <2>1 DEF LineInv
  <2>2. QED
    BY <1>5, <2>1
<1>6. QED
  BY <1>2, <1>3, <1>4, <1>5 DEF AuthInv, LineInv

\* LineInv after a step that issues a token.
LEMMA LineGrows ==
    ASSUME AuthInv, AuthTypeOK', NEW n \in Nat, n = Len(toks), Len(toks') = n + 1,
           NEW r \in {"live", "none"}, toks'[n + 1].refresh = r, toks'[n + 1].access = "live",
           r = "live" => /\ device'.status = "consumed"
                         /\ \A m \in 1 .. n : toks'[m].refresh # "live",
           device.status = "consumed" => device'.status = "consumed",
           \A m \in 1 .. n :
               /\ toks'[m].refresh = "none" <=> toks[m].refresh = "none"
               /\ toks'[m].refresh = "live" => toks[m].refresh = "live"
               /\ toks'[m].access = "live" => toks[m].access = "live"
               /\ toks'[m].refresh = "revoked" =>
                    toks[m].refresh = "revoked" \/ toks'[m].access # "live",
           \A c \in Callers : calls'[c].pc = "revoke" => calls'[c] = calls[c]
    PROVE  AuthInv'
<1>1. AuthTypeOK /\ LineInv
  BY DEF AuthInv
<1>2. \A m \in 1 .. Len(toks') : m \in 1 .. n \/ m = n + 1
  OBVIOUS
<1>3. device'.status # "consumed" => \A m \in 1 .. Len(toks') : toks'[m].refresh = "none"
  BY <1>1, <1>2 DEF LineInv
<1>4. \A m, k \in 1 .. Len(toks') : toks'[m].refresh = "live" /\ toks'[k].refresh = "live" => m = k
  BY <1>1, <1>2 DEF LineInv
<1>5. \A m \in 1 .. Len(toks') : toks'[m].refresh = "revoked" => toks'[m].access # "live"
  BY <1>1, <1>2 DEF LineInv
<1>6. ASSUME NEW c \in Callers, calls'[c].pc = "revoke"
      PROVE  calls'[c].tok \in 1 .. Len(toks') /\ toks'[calls'[c].tok].access # "live"
  BY <1>1, <1>6 DEF LineInv
<1>7. QED
  BY <1>3, <1>4, <1>5, <1>6 DEF AuthInv, LineInv

LEMMA AuthInvInit == AuthInit => AuthInv
  BY DEF AuthInit, AuthInv, AuthTypeOK, LineInv, Call, Idle, Statuses

\* A handler's state becomes one of the states there are.
LEMMA CallType ==
    ASSUME AuthTypeOK, NEW c \in Callers, NEW x \in Call, CallBecomes(c, x)
    PROVE  /\ calls' \in [Callers -> Call] /\ calls'[c] = x
           /\ \A d \in Callers : d # c => calls'[d] = calls[d]
  BY DEF AuthTypeOK, CallBecomes

LEMMA AuthStep == AuthInv /\ (AuthNext \/ UNCHANGED avars) => AuthInv'
<1> SUFFICES ASSUME AuthInv, AuthNext \/ UNCHANGED avars PROVE AuthInv'
  OBVIOUS
<1>1. AuthTypeOK /\ LineInv
  BY DEF AuthInv
<1>2. /\ device \in [status : Statuses, recent : BOOLEAN]
      /\ toks \in Seq(Token) /\ Len(toks) \in Nat /\ calls \in [Callers -> Call]
      /\ \A n \in 1 .. Len(toks) : toks[n] \in Token
  BY <1>1 DEF AuthTypeOK
<1>3. /\ Idle \in Call /\ [pc |-> "consume"] \in Call /\ Idle.pc = "idle"
      /\ [pc |-> "consume"].pc = "consume"
  BY DEF Call, Idle
<1>4. ASSUME UNCHANGED toks, UNCHANGED calls,
             UserDecides \/ PollIntervalOver \/ CacheExpires \/ UNCHANGED avars
      PROVE  AuthInv'
  <2>1. /\ device' \in [status : Statuses, recent : BOOLEAN]
        /\ device.status = "consumed" => device'.status = "consumed"
    BY <1>2, <1>4 DEF UserDecides, PollIntervalOver, CacheExpires, Statuses, avars
  <2>2. AuthTypeOK'
    BY <1>2, <1>4, <2>1 DEF AuthTypeOK
  <2>3. QED
    BY <1>1, <1>4, <2>1, <2>2, LineKept
<1>5. ASSUME TokenExpires PROVE AuthInv'
  <2>1. PICK n \in 1 .. Len(toks), part \in {"refresh", "access"} :
           toks[n][part] = "live" /\ toks' = [toks EXCEPT ![n][part] = "expired"]
    BY <1>5 DEF TokenExpires
  <2>2. PICK t \in Token : /\ toks' = [toks EXCEPT ![n] = t]
                           /\ \/ t.refresh = "expired" /\ toks[n].refresh = "live" /\ t.access = toks[n].access
                              \/ t.access = "expired" /\ t.refresh = toks[n].refresh
    <3>1. CASE part = "refresh"
      <4>1. PICK t : t = [toks[n] EXCEPT !.refresh = "expired"]
        OBVIOUS
      <4>2. t \in Token /\ t.refresh = "expired" /\ t.access = toks[n].access
        BY <1>2, <4>1 DEF Token
      <4>3. QED
        BY <2>1, <3>1, <4>1, <4>2
    <3>2. CASE part = "access"
      <4>1. PICK t : t = [toks[n] EXCEPT !.access = "expired"]
        OBVIOUS
      <4>2. t \in Token /\ t.access = "expired" /\ t.refresh = toks[n].refresh
        BY <1>2, <4>1 DEF Token
      <4>3. QED
        BY <2>1, <3>2, <4>1, <4>2
    <3>3. QED
      BY <3>1, <3>2
  <2>3. /\ toks' \in Seq(Token) /\ Len(toks') = Len(toks) /\ toks'[n] = t
        /\ \A m \in 1 .. Len(toks) : m # n => toks'[m] = toks[m]
    BY <1>2, <2>2, TokenChanged
  <2>4. UNCHANGED <<device, calls>>
    BY <1>5 DEF TokenExpires
  <2>5. AuthTypeOK'
    BY <1>2, <2>3, <2>4 DEF AuthTypeOK
  <2>6. \A m \in 1 .. Len(toks) :
               /\ toks'[m].refresh = "none" <=> toks[m].refresh = "none"
               /\ toks'[m].refresh = "live" => toks[m].refresh = "live"
               /\ toks'[m].access = "live" => toks[m].access = "live"
               /\ toks'[m].refresh = "revoked" => toks[m].refresh = "revoked"
    BY <2>2, <2>3
  <2>7. QED
    BY <2>3, <2>4, <2>5, <2>6, LineKept
<1>6. ASSUME NEW c \in Callers, PollDevice(c) PROVE AuthInv'
  <2>1. PICK x \in Call : CallBecomes(c, x) /\ x.pc # "revoke"
    BY <1>3, <1>6 DEF PollDevice
  <2>2. /\ calls' \in [Callers -> Call] /\ calls'[c] = x
        /\ \A d \in Callers : d # c => calls'[d] = calls[d]
    BY <1>1, <2>1, CallType
  <2>3. /\ device' \in [status : Statuses, recent : BOOLEAN]
        /\ device.status = "consumed" => device'.status = "consumed"
        /\ toks' = toks
    BY <1>2, <1>6 DEF PollDevice
  <2>4. AuthTypeOK'
    BY <1>2, <2>2, <2>3 DEF AuthTypeOK
  <2>5. QED
    BY <2>1, <2>2, <2>3, <2>4, LineKept
<1>7. ASSUME NEW c \in Callers, ConsumeDevice(c) PROVE AuthInv'
  <2>1. /\ calls' \in [Callers -> Call] /\ calls'[c] = Idle
        /\ \A d \in Callers : d # c => calls'[d] = calls[d]
    BY <1>1, <1>3, <1>7, CallType DEF ConsumeDevice
  <2>2. CASE device.status = "approved"
    <3>1. /\ toks' = Issued(toks, "live") /\ device'.status = "consumed"
          /\ device' \in [status : Statuses, recent : BOOLEAN]
      BY <1>2, <1>7, <2>2 DEF ConsumeDevice, Statuses
    <3>2. /\ toks' \in Seq(Token) /\ Len(toks') = Len(toks) + 1
          /\ \A n \in 1 .. Len(toks) : toks'[n] = toks[n]
          /\ toks'[Len(toks) + 1].refresh = "live" /\ toks'[Len(toks) + 1].access = "live"
      BY <1>2, <3>1, IssuedFacts
    <3>3. AuthTypeOK'
      BY <2>1, <3>1, <3>2 DEF AuthTypeOK
    <3>4. \A n \in 1 .. Len(toks) : toks[n].refresh = "none"
      BY <1>1, <2>2 DEF LineInv
    <3>5. PICK n \in Nat : n = Len(toks)
      BY <1>2
    <3>6. QED
      BY <1>3, <2>1, <3>1, <3>2, <3>3, <3>4, <3>5, LineGrows
  <2>3. CASE device.status # "approved"
    <3>1. UNCHANGED <<device, toks>>
      BY <1>7, <2>3 DEF ConsumeDevice
    <3>2. AuthTypeOK'
      BY <1>2, <2>1, <3>1 DEF AuthTypeOK
    <3>3. QED
      BY <1>3, <2>1, <3>1, <3>2, LineKept
  <2>4. QED
    BY <2>2, <2>3
<1>8. ASSUME NEW c \in Callers, IssueToken(c) PROVE AuthInv'
  <2>1. toks' = Issued(toks, "none") /\ UNCHANGED <<device, calls>>
    BY <1>8 DEF IssueToken
  <2>2. /\ toks' \in Seq(Token) /\ Len(toks') = Len(toks) + 1
        /\ \A n \in 1 .. Len(toks) : toks'[n] = toks[n]
        /\ toks'[Len(toks) + 1].refresh = "none" /\ toks'[Len(toks) + 1].access = "live"
    BY <1>2, <2>1, IssuedFacts
  <2>3. AuthTypeOK'
    BY <1>2, <2>1, <2>2 DEF AuthTypeOK
  <2>4. PICK n \in Nat : n = Len(toks)
    BY <1>2
  <2>5. QED
    BY <2>1, <2>2, <2>3, <2>4, LineGrows
<1>9. ASSUME NEW c \in Callers, RefreshToken(c) PROVE AuthInv'
  <2>1. PICK k \in 1 .. Len(toks) :
           /\ toks[k].refresh = "live"
           /\ toks' = Issued([AccessRevoked(toks, k) EXCEPT ![k].refresh = "revoked"], "live")
    BY <1>9 DEF RefreshToken, RefreshValid
  <2>2. UNCHANGED <<device, calls>>
    BY <1>9 DEF RefreshToken
  <2>3. PICK ts \in Seq(Token) :
           /\ ts = [AccessRevoked(toks, k) EXCEPT ![k].refresh = "revoked"]
           /\ Len(ts) = Len(toks) /\ ts[k].refresh = "revoked" /\ ts[k].access = "revoked"
           /\ \A m \in 1 .. Len(toks) : m # k => ts[m] = toks[m]
    <3>1. PICK t : t = [toks[k] EXCEPT !.access = "revoked"]
      OBVIOUS
    <3>2. t \in Token /\ t.access = "revoked"
      BY <1>2, <3>1 DEF Token
    <3>3. PICK u : u = [t EXCEPT !.refresh = "revoked"]
      OBVIOUS
    <3>4. u \in Token /\ u.access = "revoked" /\ u.refresh = "revoked"
      BY <3>2, <3>3 DEF Token
    <3>5. PICK ss \in Seq(Token) :
             /\ ss = AccessRevoked(toks, k) /\ Len(ss) = Len(toks) /\ ss[k] = t
             /\ \A m \in 1 .. Len(toks) : m # k => ss[m] = toks[m]
      <4>1. AccessRevoked(toks, k) = [toks EXCEPT ![k] = t]
        BY <1>2, <3>1 DEF AccessRevoked
      <4>2. QED
        BY <1>2, <3>2, <4>1, TokenChanged
    <3>6. [ss EXCEPT ![k].refresh = "revoked"] = [ss EXCEPT ![k] = u]
      BY <3>3, <3>5
    <3>7. QED
      BY <3>4, <3>5, <3>6, TokenChanged
  <2>4. /\ toks' \in Seq(Token) /\ Len(toks') = Len(toks) + 1
        /\ \A n \in 1 .. Len(toks) : toks'[n] = ts[n]
        /\ toks'[Len(toks) + 1].refresh = "live" /\ toks'[Len(toks) + 1].access = "live"
    <3>1. toks' = Issued(ts, "live")
      BY <2>1, <2>3
    <3>2. /\ Issued(ts, "live") \in Seq(Token) /\ Len(Issued(ts, "live")) = Len(ts) + 1
          /\ \A n \in 1 .. Len(ts) : Issued(ts, "live")[n] = ts[n]
          /\ Issued(ts, "live")[Len(ts) + 1].refresh = "live"
          /\ Issued(ts, "live")[Len(ts) + 1].access = "live"
      BY IssuedFacts
    <3>3. QED
      BY <2>3, <3>1, <3>2
  <2>5. AuthTypeOK'
    BY <1>2, <2>2, <2>4 DEF AuthTypeOK
  <2>6. device.status = "consumed"
    BY <1>1, <2>1 DEF LineInv
  <2>7. \A m \in 1 .. Len(toks) :
           /\ toks'[m].refresh # "live"
           /\ toks'[m].refresh = "none" <=> toks[m].refresh = "none"
           /\ toks'[m].access = "live" => toks[m].access = "live"
           /\ toks'[m].refresh = "revoked" => toks[m].refresh = "revoked" \/ toks'[m].access # "live"
    BY <1>1, <2>1, <2>3, <2>4, ZenonT(60) DEF LineInv
  <2>8. PICK n \in Nat : n = Len(toks)
    BY <1>2
  <2>9. QED
    BY <2>2, <2>4, <2>5, <2>6, <2>7, <2>8, LineGrows
<1>10. ASSUME NEW n \in 1 .. Len(toks), toks' = AccessRevoked(toks, n)
       PROVE  /\ toks' \in Seq(Token) /\ Len(toks') = Len(toks) /\ toks'[n].access = "revoked"
              /\ \A m \in 1 .. Len(toks) :
                   toks'[m].refresh = toks[m].refresh /\ (toks'[m].access = "live" => toks[m].access = "live")
  <2>1. PICK t : t = [toks[n] EXCEPT !.access = "revoked"]
    OBVIOUS
  <2>2. t \in Token /\ t.access = "revoked" /\ t.refresh = toks[n].refresh
    BY <1>2, <2>1 DEF Token
  <2>3. toks' = [toks EXCEPT ![n] = t]
    BY <1>2, <1>10, <2>1 DEF AccessRevoked
  <2>4. /\ toks' \in Seq(Token) /\ Len(toks') = Len(toks) /\ toks'[n] = t
        /\ \A m \in 1 .. Len(toks) : m # n => toks'[m] = toks[m]
    BY <1>2, <2>2, <2>3, TokenChanged
  <2>5. QED
    BY <2>2, <2>4
<1>11. ASSUME NEW c \in Callers, RevokeFirst(c) PROVE AuthInv'
  <2>1. PICK n \in 1 .. Len(toks) :
           toks' = AccessRevoked(toks, n) /\ CallBecomes(c, [pc |-> "revoke", tok |-> n])
    BY <1>11 DEF RevokeFirst, OfLogin
  <2>2. /\ toks' \in Seq(Token) /\ Len(toks') = Len(toks) /\ toks'[n].access = "revoked"
        /\ \A m \in 1 .. Len(toks) :
             toks'[m].refresh = toks[m].refresh /\ (toks'[m].access = "live" => toks[m].access = "live")
    BY <1>10, <2>1
  <2>3. PICK x : x = [pc |-> "revoke", tok |-> n]
    OBVIOUS
  <2>4. x \in Call /\ x.pc = "revoke" /\ x.tok = n
    BY <2>3 DEF Call
  <2>5. /\ calls' \in [Callers -> Call] /\ calls'[c] = x
        /\ \A d \in Callers : d # c => calls'[d] = calls[d]
    BY <1>1, <2>1, <2>3, <2>4, CallType
  <2>6. device' = device
    BY <1>11 DEF RevokeFirst
  <2>7. AuthTypeOK'
    BY <1>2, <2>2, <2>5, <2>6 DEF AuthTypeOK
  <2>8. QED
    BY <2>2, <2>4, <2>5, <2>6, <2>7, LineKept
<1>12. ASSUME NEW c \in Callers, RevokeAccess(c) PROVE AuthInv'
  <2>1. PICK n \in 1 .. Len(toks) : toks' = AccessRevoked(toks, n)
    BY <1>12 DEF RevokeAccess
  <2>2. /\ toks' \in Seq(Token) /\ Len(toks') = Len(toks) /\ toks'[n].access = "revoked"
        /\ \A m \in 1 .. Len(toks) :
             toks'[m].refresh = toks[m].refresh /\ (toks'[m].access = "live" => toks[m].access = "live")
    BY <1>10, <2>1
  <2>3. UNCHANGED <<device, calls>>
    BY <1>12 DEF RevokeAccess
  <2>4. AuthTypeOK'
    BY <1>2, <2>2, <2>3 DEF AuthTypeOK
  <2>5. QED
    BY <2>2, <2>3, <2>4, LineKept
<1>13. ASSUME NEW c \in Callers, RevokeThen(c) PROVE AuthInv'
  <2>1. /\ calls' \in [Callers -> Call] /\ calls'[c] = Idle
        /\ \A d \in Callers : d # c => calls'[d] = calls[d]
    BY <1>1, <1>3, <1>13, CallType DEF RevokeThen
  <2>2. PICK n \in 1 .. Len(toks) : n = calls[c].tok /\ toks[n].access # "live"
    BY <1>1, <1>13 DEF RevokeThen, LineInv
  <2>3. device' = device
    BY <1>13 DEF RevokeThen
  <2>4. CASE toks[n].refresh \in {"live", "expired"}
    <3>1. PICK t : t = [toks[n] EXCEPT !.refresh = "revoked"]
      OBVIOUS
    <3>2. t \in Token /\ t.refresh = "revoked" /\ t.access = toks[n].access
      BY <1>2, <3>1 DEF Token
    <3>3. toks' = [toks EXCEPT ![n] = t]
      BY <1>2, <1>13, <2>2, <2>4, <3>1 DEF RevokeThen
    <3>4. /\ toks' \in Seq(Token) /\ Len(toks') = Len(toks) /\ toks'[n] = t
          /\ \A m \in 1 .. Len(toks) : m # n => toks'[m] = toks[m]
      BY <1>2, <3>2, <3>3, TokenChanged
    <3>5. AuthTypeOK'
      BY <1>2, <2>1, <2>3, <3>4 DEF AuthTypeOK
    <3>6. QED
      BY <1>3, <2>1, <2>2, <2>3, <2>4, <3>2, <3>4, <3>5, LineKept
  <2>5. CASE toks[n].refresh \notin {"live", "expired"}
    <3>1. toks' = toks
      BY <1>13, <2>2, <2>5 DEF RevokeThen
    <3>2. AuthTypeOK'
      BY <1>2, <2>1, <2>3, <3>1 DEF AuthTypeOK
    <3>3. QED
      BY <1>3, <2>1, <2>3, <3>1, <3>2, LineKept
  <2>6. QED
    BY <2>4, <2>5
<1>14. ASSUME NEW c \in Callers, RevokeCut(c) \/ CacheInsert(c) \/ UseToken(c) PROVE AuthInv'
  <2>1. PICK x \in Call : CallBecomes(c, x) /\ x.pc # "revoke"
    <3>1. CASE RevokeCut(c) \/ CacheInsert(c)
      BY <1>3, <3>1 DEF RevokeCut, CacheInsert
    <3>2. CASE UseToken(c)
      <4>1. PICK n \in 1 .. Len(toks) : CallBecomes(c, [pc |-> "insert", tok |-> n])
        BY <3>2 DEF UseToken
      <4>2. [pc |-> "insert", tok |-> n] \in Call /\ [pc |-> "insert", tok |-> n].pc = "insert"
        BY DEF Call
      <4>3. QED
        BY <4>1, <4>2
    <3>3. QED
      BY <1>14, <3>1, <3>2
  <2>2. /\ calls' \in [Callers -> Call] /\ calls'[c] = x
        /\ \A d \in Callers : d # c => calls'[d] = calls[d]
    BY <1>1, <2>1, CallType
  <2>3. UNCHANGED <<device, toks>>
    BY <1>14 DEF RevokeCut, CacheInsert, UseToken
  <2>4. AuthTypeOK'
    BY <1>2, <2>2, <2>3 DEF AuthTypeOK
  <2>5. QED
    BY <2>1, <2>2, <2>3, <2>4, LineKept
<1>15. UserDecides \/ PollIntervalOver \/ CacheExpires \/ UNCHANGED avars =>
         UNCHANGED toks /\ UNCHANGED calls
  BY DEF UserDecides, PollIntervalOver, CacheExpires, avars
<1>16. QED
  BY <1>4, <1>5, <1>6, <1>7, <1>8, <1>9, <1>11, <1>12, <1>13, <1>14, <1>15 DEF AuthNext, Finish

LEMMA LineageOfInv == AuthInv => OneLineage
<1> SUFFICES ASSUME AuthInv PROVE OneLineage
  OBVIOUS
<1>1. LineInv
  BY DEF AuthInv
<1> DEFINE S == {n \in OfLogin : toks[n].refresh = "live"}
<1>2. Cardinality(S) <= 1
  <2>1. CASE S = {}
    BY <2>1, FS_EmptySet
  <2>2. CASE S # {}
    <3>1. PICK n : n \in S
      BY <2>2
    <3>2. S = {n}
      BY <1>1, <3>1 DEF LineInv, OfLogin
    <3>3. Cardinality(S) = 1
      BY <3>2, FS_Singleton
    <3>4. QED
      BY <3>3
  <2>3. QED
    BY <2>1, <2>2
<1>3. \A n \in OfLogin : toks[n].access = "live" => toks[n].refresh # "revoked"
  BY <1>1 DEF LineInv, OfLogin
<1>4. QED
  BY <1>2, <1>3 DEF OneLineage

----------------------------------------------------------------------------
(* Signing out.                                                            *)

\* The refresh tokens that a request to revoke can still revoke.
Revocable(ts) == {n \in 1 .. Len(ts) : ts[n].refresh \in {"live", "expired"}}

\* There is one at most, and none any more once it was revoked, nor a code to consume.
OutInv ==
    /\ \A m, n \in Revocable(toks) : m = n
    /\ signedOut => Revocable(toks) = {} /\ device.status = "consumed"

\* A row of the table is changed in one of its two columns.
LEMMA RowChanged ==
    ASSUME NEW ts \in Seq(Token), NEW n \in 1 .. Len(ts), NEW t \in Token,
           t.refresh = ts[n].refresh \/ n \in Revocable(ts), NEW us, us = [ts EXCEPT ![n] = t]
    PROVE  Revocable(us) \subseteq Revocable(ts)
<1>1. Len(us) = Len(ts) /\ us[n] = t /\ \A m \in 1 .. Len(ts) : m # n => us[m] = ts[m]
  BY TokenChanged
<1> QED
  BY <1>1 DEF Revocable

LEMMA RowRevoked ==
    ASSUME NEW ts \in Seq(Token), NEW n \in 1 .. Len(ts), NEW t \in Token, t.refresh = "revoked",
           NEW us, us = [ts EXCEPT ![n] = t]
    PROVE  us \in Seq(Token) /\ Revocable(us) = Revocable(ts) \ {n}
<1>1. us \in Seq(Token) /\ Len(us) = Len(ts) /\ us[n] = t /\ \A m \in 1 .. Len(ts) : m # n => us[m] = ts[m]
  BY TokenChanged
<1> QED
  BY <1>1 DEF Revocable

\* A token is issued.
LEMMA RowAdded ==
    ASSUME NEW ts \in Seq(Token), NEW r \in {"live", "none"}, NEW us, us = Issued(ts, r)
    PROVE  Revocable(us) = Revocable(ts) \cup (IF r = "live" THEN {Len(ts) + 1} ELSE {})
<1>1. PICK n \in Nat : n = Len(ts)
  OBVIOUS
<1>2. /\ us \in Seq(Token) /\ Len(us) = n + 1
      /\ \A m \in 1 .. n : us[m] = ts[m]
      /\ us[n + 1].refresh = r
  BY <1>1, IssuedFacts
<1>3. \A m \in 1 .. n + 1 : m \in 1 .. n \/ m = n + 1
  OBVIOUS
<1> QED
  BY <1>1, <1>2, <1>3 DEF Revocable

LEMMA OutStep ==
    ASSUME AuthInv, OutInv, AuthNext \/ UNCHANGED avars
    PROVE  OutInv' /\ (signedOut => signedOut')
<1>1. AuthTypeOK /\ LineInv
  BY DEF AuthInv
<1>2. /\ device \in [status : Statuses, recent : BOOLEAN]
      /\ toks \in Seq(Token) /\ Len(toks) \in Nat
      /\ \A n \in 1 .. Len(toks) : toks[n] \in Token
  BY <1>1 DEF AuthTypeOK
<1>3. ASSUME signedOut' = signedOut, Revocable(toks') \subseteq Revocable(toks),
             device.status = "consumed" => device'.status = "consumed"
      PROVE  OutInv' /\ (signedOut => signedOut')
  BY <1>3 DEF OutInv
<1>4. CASE UNCHANGED <<toks, signedOut>> /\
           (UserDecides \/ PollIntervalOver \/ CacheExpires \/ UNCHANGED avars \/ \E c \in Callers : PollDevice(c))
  <2>1. device.status = "consumed" => device'.status = "consumed"
    BY <1>2, <1>4 DEF UserDecides, PollIntervalOver, CacheExpires, PollDevice, avars
  <2> QED
    BY <1>3, <1>4, <2>1
<1>5. CASE UNCHANGED <<toks, signedOut, device>>
  BY <1>3, <1>5
<1>6. CASE TokenExpires
  <2>1. PICK n \in 1 .. Len(toks), part \in {"refresh", "access"} :
           toks[n][part] = "live" /\ toks' = [toks EXCEPT ![n][part] = "expired"]
    BY <1>6 DEF TokenExpires
  <2>2. PICK t \in Token : /\ toks' = [toks EXCEPT ![n] = t]
                           /\ toks[n].refresh = "live" \/ t.refresh = toks[n].refresh
    <3>1. CASE part = "refresh"
      <4>1. PICK t : t = [toks[n] EXCEPT !.refresh = "expired"]
        OBVIOUS
      <4>2. t \in Token
        BY <1>2, <4>1 DEF Token
      <4> QED
        BY <2>1, <3>1, <4>1, <4>2
    <3>2. CASE part = "access"
      <4>1. PICK t : t = [toks[n] EXCEPT !.access = "expired"]
        OBVIOUS
      <4>2. t \in Token /\ t.refresh = toks[n].refresh
        BY <1>2, <4>1 DEF Token
      <4> QED
        BY <2>1, <3>2, <4>1, <4>2
    <3> QED
      BY <3>1, <3>2
  <2>3. t.refresh = toks[n].refresh \/ n \in Revocable(toks)
    BY <2>2 DEF Revocable
  <2>4. Revocable(toks') \subseteq Revocable(toks)
    BY <1>2, <2>2, <2>3, RowChanged
  <2>5. signedOut' = signedOut /\ device' = device
    BY <1>6 DEF TokenExpires
  <2> QED
    BY <1>3, <2>4, <2>5
<1>7. ASSUME NEW n \in 1 .. Len(toks), NEW us, us = AccessRevoked(toks, n)
      PROVE  us \in Seq(Token) /\ Len(us) = Len(toks) /\ Revocable(us) \subseteq Revocable(toks)
  <2>1. PICK t : t = [toks[n] EXCEPT !.access = "revoked"]
    OBVIOUS
  <2>2. t \in Token /\ t.refresh = toks[n].refresh
    BY <1>2, <2>1 DEF Token
  <2>3. us = [toks EXCEPT ![n] = t]
    BY <1>2, <1>7, <2>1 DEF AccessRevoked
  <2>4. us \in Seq(Token) /\ Len(us) = Len(toks)
    BY <1>2, <2>2, <2>3, TokenChanged
  <2>5. Revocable(us) \subseteq Revocable(toks)
    BY <1>2, <2>2, <2>3, RowChanged
  <2> QED
    BY <2>4, <2>5
<1>8. ASSUME NEW c \in Callers, RevokeFirst(c) \/ RevokeAccess(c) PROVE OutInv' /\ (signedOut => signedOut')
  <2>1. PICK n \in 1 .. Len(toks) : toks' = AccessRevoked(toks, n)
    BY <1>8 DEF RevokeFirst, RevokeAccess, OfLogin
  <2>2. Revocable(toks') \subseteq Revocable(toks)
    BY <1>7, <2>1
  <2>3. signedOut' = signedOut /\ device' = device
    BY <1>8 DEF RevokeFirst, RevokeAccess
  <2> QED
    BY <1>3, <2>2, <2>3
<1>9. ASSUME NEW c \in Callers, IssueToken(c) PROVE OutInv' /\ (signedOut => signedOut')
  <2>1. toks' = Issued(toks, "none") /\ signedOut' = signedOut /\ device' = device
    BY <1>9 DEF IssueToken
  <2>2. Revocable(toks') \subseteq Revocable(toks)
    BY <1>2, <2>1, RowAdded
  <2> QED
    BY <1>3, <2>1, <2>2
<1>10. ASSUME NEW c \in Callers, ConsumeDevice(c) PROVE OutInv' /\ (signedOut => signedOut')
  <2>1. CASE device.status # "approved"
    BY <1>5, <1>10, <2>1 DEF ConsumeDevice
  <2>2. CASE device.status = "approved"
    <3>1. toks' = Issued(toks, "live") /\ signedOut' = signedOut
      BY <1>10, <2>2 DEF ConsumeDevice
    <3>2. Revocable(toks) = {}
      BY <1>1, <2>2 DEF LineInv, Revocable
    <3>3. Revocable(toks') = {Len(toks) + 1}
      BY <1>2, <3>1, <3>2, RowAdded
    <3>4. ~signedOut
      BY <2>2 DEF OutInv
    <3> QED
      BY <3>1, <3>3, <3>4 DEF OutInv
  <2> QED
    BY <2>1, <2>2
<1>11. ASSUME NEW c \in Callers, RefreshToken(c) PROVE OutInv' /\ (signedOut => signedOut')
  <2>1. PICK k \in 1 .. Len(toks) :
           /\ toks[k].refresh = "live"
           /\ toks' = Issued([AccessRevoked(toks, k) EXCEPT ![k].refresh = "revoked"], "live")
    BY <1>11 DEF RefreshToken, RefreshValid
  <2>2. signedOut' = signedOut
    BY <1>11 DEF RefreshToken
  <2>3. PICK us : us = AccessRevoked(toks, k)
    OBVIOUS
  <2>4. us \in Seq(Token) /\ Len(us) = Len(toks) /\ Revocable(us) \subseteq Revocable(toks)
    BY <1>7, <2>3
  <2>5. us[k] \in Token /\ k \in 1 .. Len(us)
    BY <2>4
  <2>6. PICK t : t = [us[k] EXCEPT !.refresh = "revoked"]
    OBVIOUS
  <2>7. t \in Token /\ t.refresh = "revoked"
    BY <2>5, <2>6 DEF Token
  <2>8. PICK vs : vs = [us EXCEPT ![k] = t]
    OBVIOUS
  <2>9. vs \in Seq(Token) /\ Revocable(vs) = Revocable(us) \ {k}
    BY <2>4, <2>5, <2>7, <2>8, RowRevoked
  <2>10. toks' = Issued(vs, "live")
    BY <2>1, <2>3, <2>6, <2>8
  <2>11. k \in Revocable(toks)
    BY <2>1 DEF Revocable
  <2>12. Revocable(vs) = {} /\ ~signedOut
    BY <2>4, <2>9, <2>11 DEF OutInv
  <2>13. Revocable(toks') = {Len(vs) + 1}
    BY <2>9, <2>10, <2>12, RowAdded
  <2> QED
    BY <2>2, <2>12, <2>13 DEF OutInv
<1>12. ASSUME NEW c \in Callers, RevokeThen(c) PROVE OutInv' /\ (signedOut => signedOut')
  <2>1. PICK n \in 1 .. Len(toks) : n = calls[c].tok
    BY <1>1, <1>12 DEF RevokeThen, LineInv
  <2>2. device' = device
    BY <1>12 DEF RevokeThen
  <2>3. CASE toks[n].refresh \in {"live", "expired"}
    <3>1. PICK t : t = [toks[n] EXCEPT !.refresh = "revoked"]
      OBVIOUS
    <3>2. t \in Token /\ t.refresh = "revoked"
      BY <1>2, <3>1 DEF Token
    <3>3. toks' = [toks EXCEPT ![n] = t] /\ signedOut'
      BY <1>2, <1>12, <2>1, <2>3, <3>1 DEF RevokeThen
    <3>4. Revocable(toks') = Revocable(toks) \ {n}
      BY <1>2, <3>2, <3>3, RowRevoked
    <3>5. n \in Revocable(toks)
      BY <2>3 DEF Revocable
    <3>6. Revocable(toks') = {}
      BY <3>4, <3>5 DEF OutInv
    <3>7. device.status = "consumed"
      BY <1>1, <2>3 DEF LineInv
    <3> QED
      BY <2>2, <3>3, <3>6, <3>7 DEF OutInv
  <2>4. CASE toks[n].refresh \notin {"live", "expired"}
    <3>1. toks' = toks /\ (signedOut' <=> signedOut)
      BY <1>12, <2>1, <2>4 DEF RevokeThen
    <3> QED
      BY <2>2, <3>1 DEF OutInv
  <2> QED
    BY <2>3, <2>4
<1>13. ASSUME NEW c \in Callers, RevokeCut(c) \/ CacheInsert(c) \/ UseToken(c)
       PROVE  UNCHANGED <<toks, signedOut, device>>
  BY <1>13 DEF RevokeCut, CacheInsert, UseToken
<1>14. UserDecides \/ PollIntervalOver \/ CacheExpires \/ UNCHANGED avars \/ (\E c \in Callers : PollDevice(c)) =>
         UNCHANGED <<toks, signedOut>>
  BY DEF UserDecides, PollIntervalOver, CacheExpires, PollDevice, avars
<1> QED
  BY <1>4, <1>5, <1>6, <1>8, <1>9, <1>10, <1>11, <1>12, <1>13, <1>14 DEF AuthNext, Finish

\* What a confirmed revocation means for the tables.
SignedOutMeansOut == signedOut => \A n \in OfLogin : toks[n].refresh # "live" /\ toks[n].access # "live"

LEMMA OutFollows == AuthInv /\ OutInv => SignedOutMeansOut
<1> SUFFICES ASSUME AuthInv, OutInv, signedOut, NEW n \in 1 .. Len(toks), toks[n].refresh # "none"
             PROVE  toks[n].refresh # "live" /\ toks[n].access # "live"
  BY DEF SignedOutMeansOut, OfLogin
<1>1. toks[n] \in Token /\ n \notin Revocable(toks)
  BY DEF AuthInv, AuthTypeOK, OutInv
<1>2. toks[n].refresh = "revoked"
  BY <1>1 DEF Token, Revocable
<1> QED
  BY <1>2 DEF AuthInv, LineInv

----------------------------------------------------------------------------
(* Exec sessions: facts about connections and the log.                     *)

\* What is known of a connection from where it is.
LEMMA ConnFacts ==
    ASSUME NEW x \in Conn
    PROVE  /\ x.pc \in {"idle", "done", "append", "store", "wait", "granted", "load", "dial", "stream"}
           /\ x.pc = "stream" => x \in StreamRec
           /\ x.pc \in {"store", "wait", "granted", "load", "dial", "stream"} => x.sess \in Sessions
           /\ x.pc \in {"append", "store", "wait"} => x.key \in Keys
           /\ x.pc \in {"store", "wait"} => x.event \in Nat
  BY DEF Conn, StreamRec

\* A connection's state becomes one of the states there are.
LEMMA ConnType ==
    ASSUME ExecTypeOK, NEW c \in Clients, NEW x \in Conn, Becomes(c, x)
    PROVE  /\ conns' \in [Clients -> Conn] /\ conns'[c] = x
           /\ \A d \in Clients : d # c => conns'[d] = conns[d]
  BY DEF ExecTypeOK, Becomes

LEMMA DoneType == Done \in Conn /\ Done.pc = "done" /\ NoConn \in Conn /\ NoConn.pc = "idle"
  BY DEF Done, NoConn, Conn

\* The two halves of AuditTrail.
LogTrail ==
    \A j \in 1 .. Len(elog) :
        /\ elog[j].type # "granted" =>
             \E i \in 1 .. j - 1 : elog[i].sess = elog[j].sess /\ elog[i].type = "granted"
        /\ \A i \in 1 .. j - 1 : elog[i].sess = elog[j].sess => Before(elog[i].type, elog[j].type)

SoleHolder ==
    \A c, d \in Clients : Holds(c) /\ Holds(d) /\ conns[c].sess = conns[d].sess => c = d

LEMMA TrailParts == (AuditTrail <=> LogTrail /\ SoleHolder) /\ (AuditTrail' <=> LogTrail' /\ SoleHolder')
  BY DEF AuditTrail, LogTrail, SoleHolder

\* LogTrail of the next state, spelled out.
LEMMA TrailNext ==
    ASSUME NEW l, l = elog',
           \A j \in 1 .. Len(l) :
               /\ l[j].type # "granted" =>
                    \E i \in 1 .. j - 1 : l[i].sess = l[j].sess /\ l[i].type = "granted"
               /\ \A i \in 1 .. j - 1 : l[i].sess = l[j].sess => Before(l[i].type, l[j].type)
    PROVE  LogTrail'
  BY DEF LogTrail, Before

\* What appending an event does.
LEMMA ElogAppend ==
    ASSUME ExecTypeOK, NEW ev \in ExecEvent, elog' = Append(elog, ev)
    PROVE  /\ elog' \in Seq(ExecEvent) /\ Len(elog) \in Nat /\ Len(elog') = Len(elog) + 1
           /\ elog'[Len(elog) + 1] = ev
           /\ \A k \in 1 .. Len(elog) : elog'[k] = elog[k] /\ k \in 1 .. Len(elog')
           /\ \A k \in 1 .. Len(elog') : k \in 1 .. Len(elog) \/ k = Len(elog) + 1
<1>1. elog \in Seq(ExecEvent)
  BY DEF ExecTypeOK
<1>2. /\ elog' \in Seq(ExecEvent) /\ Len(elog) \in Nat /\ Len(elog') = Len(elog) + 1
      /\ elog'[Len(elog) + 1] = ev
      /\ \A k \in 1 .. Len(elog) : elog'[k] = elog[k]
  BY <1>1
<1>3. QED
  BY <1>2

\* Appending keeps the trail if a grant is the first event of its session, a connection
\* follows a grant only, and an end follows no end.
LEMMA TrailGrows ==
    ASSUME ExecTypeOK, LogTrail, NEW ev \in ExecEvent, elog' = Append(elog, ev),
           ev.type = "granted" => \A k \in 1 .. Len(elog) : elog[k].sess # ev.sess,
           ev.type = "connected" => OnlyGranted(ev.sess),
           ev.type = "ended" => NotEnded(ev.sess),
           ev.type # "granted" =>
               \E k \in 1 .. Len(elog) : elog[k].sess = ev.sess /\ elog[k].type = "granted"
    PROVE  LogTrail'
<1>1. PICK n \in Nat : n = Len(elog)
  BY DEF ExecTypeOK
<1>2. PICK l : l = elog'
  OBVIOUS
<1>3. /\ Len(l) = n + 1 /\ l[n + 1] = ev /\ \A k \in 1 .. n : l[k] = elog[k]
      /\ \A k \in 1 .. Len(l) : k \in 1 .. n \/ k = n + 1
      /\ \A k \in 1 .. n : elog[k] \in ExecEvent
  BY <1>1, <1>2, ElogAppend DEF ExecTypeOK
<1>4. ASSUME NEW j \in 1 .. n
      PROVE  /\ l[j].type # "granted" =>
                  \E i \in 1 .. j - 1 : l[i].sess = l[j].sess /\ l[i].type = "granted"
             /\ \A i \in 1 .. j - 1 : l[i].sess = l[j].sess => Before(l[i].type, l[j].type)
  <2>1. l[j] = elog[j] /\ \A i \in 1 .. j - 1 : l[i] = elog[i]
    BY <1>3, SMTT(30)
  <2>2. QED
    BY <1>1, <2>1 DEF LogTrail
<1>5. /\ ev.type # "granted" => \E i \in 1 .. n : l[i].sess = ev.sess /\ l[i].type = "granted"
      /\ \A i \in 1 .. n : l[i].sess = ev.sess => Before(l[i].type, ev.type)
  BY <1>1, <1>3 DEF ExecEvent, OnlyGranted, NotEnded, Before
<1>6. (n + 1) - 1 = n
  OBVIOUS
<1>7. \A j \in 1 .. Len(l) :
        /\ l[j].type # "granted" =>
             \E i \in 1 .. j - 1 : l[i].sess = l[j].sess /\ l[i].type = "granted"
        /\ \A i \in 1 .. j - 1 : l[i].sess = l[j].sess => Before(l[i].type, l[j].type)
  BY <1>3, <1>4, <1>5, <1>6
<1>8. QED
  BY <1>2, <1>7, TrailNext

\* Parts of the log that an event of another session does not touch.
LEMMA OtherSession ==
    ASSUME ExecTypeOK, NEW ev \in ExecEvent, elog' = Append(elog, ev), NEW s, s # ev.sess
    PROVE  (OnlyGranted(s)' <=> OnlyGranted(s)) /\ (NotEnded(s)' <=> NotEnded(s))
<1>1. PICK n \in Nat : n = Len(elog)
  BY DEF ExecTypeOK
<1>2. PICK l : l = elog'
  OBVIOUS
<1>3. /\ l[n + 1] = ev /\ \A k \in 1 .. n : l[k] = elog[k] /\ k \in 1 .. Len(l)
      /\ \A k \in 1 .. Len(l) : k \in 1 .. n \/ k = n + 1
  BY <1>1, <1>2, ElogAppend
<1>4. /\ (\A k \in 1 .. Len(l) : l[k].sess = s => l[k].type = "granted") <=> OnlyGranted(s)
      /\ (\A k \in 1 .. Len(l) : l[k].sess = s => l[k].type # "ended") <=> NotEnded(s)
  BY <1>1, <1>3 DEF OnlyGranted, NotEnded
<1>5. QED
  BY <1>2, <1>4 DEF OnlyGranted, NotEnded

\* What an event of the session itself leaves of it.
LEMMA SameSession ==
    ASSUME ExecTypeOK, NEW ev \in ExecEvent, elog' = Append(elog, ev), NEW s, s = ev.sess
    PROVE  /\ ev.type = "granted" /\ OnlyGranted(s) => OnlyGranted(s)'
           /\ ev.type # "ended" /\ NotEnded(s) => NotEnded(s)'
<1>1. PICK n \in Nat : n = Len(elog)
  BY DEF ExecTypeOK
<1>2. PICK l : l = elog'
  OBVIOUS
<1>3. /\ l[n + 1] = ev /\ \A k \in 1 .. n : l[k] = elog[k] /\ k \in 1 .. Len(l)
      /\ \A k \in 1 .. Len(l) : k \in 1 .. n \/ k = n + 1
  BY <1>1, <1>2, ElogAppend
<1>4. /\ ev.type = "granted" /\ OnlyGranted(s) => \A k \in 1 .. Len(l) : l[k].sess = s => l[k].type = "granted"
      /\ ev.type # "ended" /\ NotEnded(s) => \A k \in 1 .. Len(l) : l[k].sess = s => l[k].type # "ended"
  BY <1>1, <1>3 DEF OnlyGranted, NotEnded
<1>5. QED
  BY <1>2, <1>4 DEF OnlyGranted, NotEnded

\* The first part of SessionInv after an event.
LEMMA SessionsGrow ==
    ASSUME ExecTypeOK, SessionInv, NEW ev \in ExecEvent, elog' = Append(elog, ev),
           esess' \in Nat, esess <= esess', ev.sess <= esess',
           \A s \in 1 .. esess' : s \in 1 .. esess \/ (s = ev.sess /\ ev.type = "granted")
    PROVE  /\ (\A k \in 1 .. Len(elog) : elog[k].sess <= esess)'
           /\ (\A s \in 1 .. esess :
                 \E k \in 1 .. Len(elog) : elog[k].sess = s /\ elog[k].type = "granted")'
<1>1. PICK n \in Nat : n = Len(elog)
  BY DEF ExecTypeOK
<1>2. PICK l, m : l = elog' /\ m = esess'
  OBVIOUS
<1>3. /\ l[n + 1] = ev /\ n + 1 \in 1 .. Len(l)
      /\ \A k \in 1 .. n : l[k] = elog[k] /\ k \in 1 .. Len(l)
      /\ \A k \in 1 .. Len(l) : k \in 1 .. n \/ k = n + 1
      /\ \A k \in 1 .. n : elog[k].sess \in Nat
  <2>1. \A k \in 1 .. n : elog[k] \in ExecEvent
    BY <1>1 DEF ExecTypeOK
  <2>2. \A k \in 1 .. n : elog[k].sess \in Nat
    BY <2>1 DEF ExecEvent, Sessions
  <2>3. QED
    BY <1>1, <1>2, <2>2, ElogAppend
<1>4. esess \in Nat
  BY ExecAssumption DEF ExecTypeOK
<1>5. \A k \in 1 .. Len(l) : l[k].sess <= m
  BY <1>1, <1>2, <1>3, <1>4 DEF SessionInv
<1>6. \A s \in 1 .. m : \E k \in 1 .. Len(l) : l[k].sess = s /\ l[k].type = "granted"
  BY <1>1, <1>2, <1>3 DEF SessionInv
<1>7. QED
  BY <1>2, <1>5, <1>6

\* ExitCodeRecorded, event by event.
RightCode(e) ==
    e.type = "ended" =>
        /\ e.sess \in torn \/ e.code \in {NoCode, Code128} \/ e.code = exited[e.sess]
        /\ e.sess \notin blurred /\ exited[e.sess] # NoCode => e.code = exited[e.sess]

LEMMA RightCodes ==
    /\ ExitCodeRecorded <=> \A k \in 1 .. Len(elog) : RightCode(elog[k])
    /\ ExitCodeRecorded' <=> (\A k \in 1 .. Len(elog) : RightCode(elog[k]))'
  BY DEF ExitCodeRecorded, RightCode

\* An event with the right code is added; nothing is known to be wrong of the others.
LEMMA CodesGrow ==
    ASSUME ExecTypeOK, ExitCodeRecorded, NEW ev \in ExecEvent, elog' = Append(elog, ev),
           UNCHANGED <<exited, blurred, torn>>, RightCode(ev)
    PROVE  ExitCodeRecorded'
<1>1. PICK n \in Nat : n = Len(elog)
  BY DEF ExecTypeOK
<1>2. PICK l : l = elog'
  OBVIOUS
<1>3. /\ l[n + 1] = ev /\ \A k \in 1 .. n : l[k] = elog[k]
      /\ \A k \in 1 .. Len(l) : k \in 1 .. n \/ k = n + 1
  BY <1>1, <1>2, ElogAppend
<1>4. \A k \in 1 .. Len(l) : RightCode(l[k])
  BY <1>1, <1>3, RightCodes
<1>5. ASSUME NEW k \in 1 .. Len(l) PROVE RightCode(elog[k])'
  BY <1>2, <1>4 DEF RightCode
<1>6. QED
  BY <1>2, <1>5, RightCodes

----------------------------------------------------------------------------
(* Steps that move one connection and append nothing.                      *)

\* A connection is not about to store a token, does not copy frames, and holds a session only
\* if it did so before.
Retreats(x, y) ==
    /\ y.pc \notin {"store", "stream"}
    /\ y.pc \in {"load", "dial"} => x.pc \in {"load", "dial"} /\ y.sess = x.sess
    /\ y.pc \in {"wait", "granted"} => y.sess <= esess

LEMMA ConnsMove ==
    ASSUME ExecInv, ExecTypeOK', UNCHANGED <<elog, esess, tokens, exited, blurred, torn>>,
           \A c \in Clients : conns'[c] = conns[c] \/ Retreats(conns[c], conns'[c])
    PROVE  ExecInv'
<1>1. /\ ExecTypeOK /\ SessionInv /\ TokenInv /\ ClaimInv /\ LogTrail /\ SoleHolder
      /\ CodeInv /\ PathInv /\ ExitCodeRecorded
  BY TrailParts DEF ExecInv
<1>2. SessionInv'
  BY <1>1 DEF SessionInv, Retreats
<1>3. \A s : OnlyGranted(s)' = OnlyGranted(s) /\ NotEnded(s)' = NotEnded(s)
  BY DEF OnlyGranted, NotEnded
<1>4. /\ \A c \in Clients : conns'[c].pc = "store" => conns'[c] = conns[c]
      /\ \A c \in Clients : conns'[c].pc = "stream" => conns'[c] = conns[c]
      /\ \A c \in Clients : Holds(c)' => Holds(c) /\ conns'[c].sess = conns[c].sess
      /\ \A c \in Clients : conns'[c].pc \in {"load", "dial"} =>
           conns[c].pc \in {"load", "dial"} /\ conns'[c].sess = conns[c].sess
  BY DEF Retreats, Holds
<1>5. TokenInv'
  <2>1. /\ \A c \in Clients : conns'[c].pc = "store" => tokens[conns'[c].sess] = "none"
        /\ \A c, d \in Clients :
             conns'[c].pc = "store" /\ conns'[d].pc = "store" /\ conns'[c].sess = conns'[d].sess => c = d
    BY <1>1, <1>4 DEF TokenInv
  <2>2. \A s \in Sessions : tokens[s] # "consumed" => OnlyGranted(s) /\ exited[s] = NoCode
    BY <1>1 DEF TokenInv
  <2>3. \A c \in Clients : Holds(c)' => tokens[conns'[c].sess] = "consumed"
    BY <1>1, <1>4 DEF TokenInv
  <2>4. ASSUME NEW c \in Clients, conns'[c].pc \in {"load", "dial"}
        PROVE  OnlyGranted(conns[c].sess)' /\ exited[conns'[c].sess] = NoCode
    <3>1. OnlyGranted(conns[c].sess) /\ exited[conns[c].sess] = NoCode /\ conns'[c].sess = conns[c].sess
      BY <1>1, <1>4, <2>4 DEF TokenInv
    <3>2. QED
      BY <3>1 DEF OnlyGranted
  <2>5. QED
    BY <1>3, <2>1, <2>2, <2>3, <2>4 DEF TokenInv
<1>6. ClaimInv'
  <2> SUFFICES ASSUME NEW c \in Clients, Streaming(c)'
               PROVE  (Claims(conns[c]) /\ (~Recorded(conns[c]) => NotEnded(conns[c].sess)))'
    BY DEF ClaimInv
  <2>1. conns'[c] = conns[c] /\ Streaming(c)
    BY <1>4 DEF Streaming
  <2>2. Claims(conns[c]) /\ (~Recorded(conns[c]) => NotEnded(conns[c].sess))
    BY <1>1, <2>1 DEF ClaimInv
  <2>3. QED
    BY <2>1, <2>2 DEF Claims, Recorded, NotEnded
<1>7. LogTrail'
  BY <1>1 DEF LogTrail, Before
<1>8. SoleHolder'
  BY <1>1, <1>4 DEF SoleHolder
<1>9. CodeInv'
  <2> SUFFICES ASSUME NEW d \in Clients, conns'[d].pc = "stream"
               PROVE  CodeAt(conns'[d], exited[conns'[d].sess], torn)
    BY DEF CodeInv, CodeAt, Has, Streaming
  <2>1. conns'[d] = conns[d] /\ Streaming(d)
    BY <1>4 DEF Streaming
  <2>2. QED
    BY <1>1, <2>1 DEF CodeInv
<1>10. PathInv'
  <2> SUFFICES ASSUME NEW c \in Clients, Streaming(c)', conns'[c].sess \notin blurred'
               PROVE  Path(conns[c])'
    BY DEF PathInv
  <2>1. conns'[c] = conns[c] /\ Streaming(c)
    BY <1>4 DEF Streaming
  <2>2. Path(conns[c])
    BY <1>1, <2>1 DEF PathInv
  <2>3. PICK x : x = conns[c] /\ x = conns'[c]
    BY <2>1
  <2>4. Path(x)
    BY <2>2, <2>3
  <2>5. QED
    BY <2>3, <2>4 DEF Path, NotBegun, NoGuest, Reads, Copies, Delivers, OnItsWay, Arrived, AllOut, EndsIn
<1>11. ExitCodeRecorded'
  BY <1>1 DEF ExitCodeRecorded
<1>12. QED
  BY <1>2, <1>5, <1>6, <1>7, <1>8, <1>9, <1>10, <1>11, TrailParts DEF ExecInv

\* More reads that ended inside a frame.
LEMMA CodeMono ==
    ASSUME NEW x, NEW e, NEW T, NEW U, CodeAt(x, e, T), T \subseteq U
    PROVE  CodeAt(x, e, U)
  BY DEF CodeAt

\* A connection x that copies frames becomes y and goes on copying.
LEMMA StreamMoves ==
    ASSUME ExecInv, NEW c \in Clients, Streaming(c), NEW y \in StreamRec, Becomes(c, y),
           y.sess = conns[c].sess,
           UNCHANGED <<elog, esess, tokens, records>>,
           exited' \in [Sessions -> {NoCode, Ok}], blurred \subseteq blurred', torn \subseteq torn',
           \A s \in Sessions : s # y.sess => exited'[s] = exited[s],
           exited[y.sess] = Ok => exited'[y.sess] = Ok,
           exited'[y.sess] # exited[y.sess] => y.sess \in blurred' \/ ~Recorded(conns[c]),
           Claims(y), Recorded(conns[c]) => Recorded(y),
           CodeAt(y, exited'[y.sess], torn'),
           y.sess \notin blurred' => Path(y)
    PROVE  ExecInv'
<1>1. /\ ExecTypeOK /\ SessionInv /\ TokenInv /\ ClaimInv /\ LogTrail /\ SoleHolder
      /\ CodeInv /\ PathInv /\ ExitCodeRecorded
  BY TrailParts DEF ExecInv
<1>2. y \in Conn
  BY DEF Conn
<1>3. /\ conns' \in [Clients -> Conn] /\ conns'[c] = y
      /\ \A d \in Clients : d # c => conns'[d] = conns[d]
  BY <1>1, <1>2, ConnType
<1>4. PICK s \in Sessions : s = y.sess /\ s = conns[c].sess
  BY DEF StreamRec
<1>5. y.pc = "stream" /\ conns[c].pc = "stream" /\ conns[c] \in StreamRec
  <2>1. conns[c] \in Conn /\ conns[c].pc = "stream"
    BY <1>1 DEF ExecTypeOK, Streaming
  <2>2. QED
    BY <2>1, ConnFacts DEF StreamRec
<1>6. ExecTypeOK'
  BY <1>1, <1>3 DEF ExecTypeOK
<1>7. SessionInv'
  BY <1>1, <1>3, <1>4, <1>5 DEF SessionInv
<1>8. \A t : OnlyGranted(t)' = OnlyGranted(t) /\ NotEnded(t)' = NotEnded(t)
  BY DEF OnlyGranted, NotEnded
<1>9. \A d \in Clients : /\ conns'[d].pc = conns[d].pc
                         /\ conns'[d].pc \in {"store", "load", "dial", "stream"} => conns'[d].sess = conns[d].sess
                         /\ conns'[d].pc \in {"store", "load", "dial"} => d # c
  BY <1>3, <1>4, <1>5
<1>10. tokens[s] = "consumed"
  BY <1>1, <1>4, <1>5 DEF TokenInv, Holds
<1>11. SoleHolder'
  BY <1>1, <1>9 DEF SoleHolder, Holds
<1>12. \A d \in Clients : Holds(d) /\ conns[d].sess = s => d = c
  BY <1>1, <1>4, <1>5 DEF SoleHolder, Holds
<1>13. TokenInv'
  <2>1. /\ \A d \in Clients : conns'[d].pc = "store" => tokens[conns'[d].sess] = "none"
        /\ \A d, b \in Clients :
             conns'[d].pc = "store" /\ conns'[b].pc = "store" /\ conns'[d].sess = conns'[b].sess => d = b
    BY <1>1, <1>9 DEF TokenInv
  <2>2. \A t \in Sessions : tokens[t] # "consumed" => OnlyGranted(t) /\ exited'[t] = NoCode
    BY <1>1, <1>4, <1>10 DEF TokenInv
  <2>3. \A d \in Clients : Holds(d)' => tokens[conns'[d].sess] = "consumed"
    BY <1>1, <1>9 DEF TokenInv, Holds
  <2>4. ASSUME NEW d \in Clients, conns'[d].pc \in {"load", "dial"}
        PROVE  OnlyGranted(conns[d].sess)' /\ exited'[conns'[d].sess] = NoCode
    <3>1. d # c /\ conns'[d] = conns[d] /\ conns[d] \in Conn
      BY <1>1, <1>3, <1>9, <2>4 DEF ExecTypeOK
    <3>2. conns[d].sess \in Sessions /\ conns[d].sess # s
      BY <1>12, <2>4, <3>1, ConnFacts DEF Holds
    <3>3. OnlyGranted(conns[d].sess) /\ exited[conns[d].sess] = NoCode
      BY <1>1, <2>4, <3>1 DEF TokenInv
    <3>4. QED
      BY <1>4, <3>1, <3>2, <3>3 DEF OnlyGranted
  <2>5. QED
    BY <1>8, <2>1, <2>2, <2>3, <2>4 DEF TokenInv
<1>14. ClaimInv'
  <2> SUFFICES ASSUME NEW d \in Clients, Streaming(d)'
               PROVE  (Claims(conns[d]) /\ (~Recorded(conns[d]) => NotEnded(conns[d].sess)))'
    BY DEF ClaimInv
  <2>1. PICK x : x = conns'[d]
    OBVIOUS
  <2>2. Claims(x) /\ (~Recorded(x) => NotEnded(x.sess))
    <3>1. CASE d = c
      BY <1>1, <1>3, <1>4, <2>1, <3>1 DEF ClaimInv
    <3>2. CASE d # c
      BY <1>1, <1>3, <2>1, <3>2 DEF ClaimInv, Streaming
    <3>3. QED
      BY <3>1, <3>2
  <2>3. QED
    BY <2>1, <2>2 DEF Claims, Recorded, NotEnded
<1>15. LogTrail'
  BY <1>1 DEF LogTrail, Before
<1>16. CodeInv'
  <2> SUFFICES ASSUME NEW d \in Clients, conns'[d].pc = "stream"
               PROVE  CodeAt(conns'[d], exited'[conns'[d].sess], torn')
    BY DEF CodeInv, CodeAt, Has, Streaming
  <2>1. CASE d = c
    BY <1>3, <2>1
  <2>2. CASE d # c
    <3>1. conns'[d] = conns[d] /\ conns[d] \in Conn
      BY <1>1, <1>3, <2>2 DEF ExecTypeOK
    <3>2. conns[d].sess \in Sessions /\ conns[d].sess # s
      BY <1>12, <2>2, <3>1, ConnFacts DEF Holds
    <3>3. CodeAt(conns[d], exited[conns[d].sess], torn)
      BY <1>1, <3>1 DEF CodeInv, Streaming
    <3>4. CodeAt(conns[d], exited[conns[d].sess], torn')
      BY <3>3, CodeMono
    <3>5. exited'[conns[d].sess] = exited[conns[d].sess]
      BY <1>4, <3>2
    <3>6. QED
      BY <3>1, <3>4, <3>5
  <2>3. QED
    BY <2>1, <2>2
<1>17. PathInv'
  <2> SUFFICES ASSUME NEW d \in Clients, Streaming(d)', conns'[d].sess \notin blurred'
               PROVE  Path(conns[d])'
    BY DEF PathInv
  <2>1. PICK x : x = conns'[d]
    OBVIOUS
  <2>2. Path(x)
    <3>1. CASE d = c
      BY <1>3, <2>1, <3>1
    <3>2. CASE d # c
      BY <1>1, <1>3, <2>1, <3>2 DEF PathInv, Streaming
    <3>3. QED
      BY <3>1, <3>2
  <2>3. QED
    BY <2>1, <2>2 DEF Path, NotBegun, NoGuest, Reads, Copies, Delivers, OnItsWay, Arrived, AllOut, EndsIn
<1>18. ExitCodeRecorded'
  <2> SUFFICES ASSUME NEW k \in 1 .. Len(elog), elog[k].type = "ended"
               PROVE  /\ \/ elog[k].sess \in torn' \/ elog[k].code \in {NoCode, Code128}
                         \/ elog[k].code = exited'[elog[k].sess]
                      /\ elog[k].sess \notin blurred' /\ exited'[elog[k].sess] # NoCode =>
                           elog[k].code = exited'[elog[k].sess]
    BY DEF ExitCodeRecorded
  <2>1. /\ \/ elog[k].sess \in torn \/ elog[k].code \in {NoCode, Code128}
           \/ elog[k].code = exited[elog[k].sess]
        /\ elog[k].sess \notin blurred /\ exited[elog[k].sess] # NoCode =>
             elog[k].code = exited[elog[k].sess]
    BY <1>1 DEF ExitCodeRecorded
  <2>2. elog[k].sess \in Sessions
    <3>1. elog[k] \in ExecEvent
      BY <1>1 DEF ExecTypeOK
    <3>2. QED
      BY <3>1 DEF ExecEvent
  <2>3. CASE elog[k].sess # s
    BY <1>4, <2>1, <2>2, <2>3
  <2>4. CASE elog[k].sess = s /\ exited'[s] = exited[s]
    BY <2>1, <2>4
  <2>5. CASE elog[k].sess = s /\ exited'[s] # exited[s]
    <3>1. exited[s] = NoCode
      BY <1>1, <1>4, <2>5 DEF ExecTypeOK
    <3>2. ~NotEnded(s)
      BY <2>5 DEF NotEnded
    <3>3. Recorded(conns[c])
      BY <1>1, <1>4, <3>2 DEF ClaimInv
    <3>4. s \in blurred'
      BY <1>4, <2>5, <3>3
    <3>5. QED
      BY <2>1, <2>5, <3>1, <3>4
  <2>6. QED
    BY <2>3, <2>4, <2>5
<1>19. QED
  BY <1>6, <1>7, <1>11, <1>13, <1>14, <1>15, <1>16, <1>17, <1>18, TrailParts DEF ExecInv

----------------------------------------------------------------------------
(* The steps of a connection that copies frames.                           *)

\* What the invariant says of such a connection.
LEMMA StreamFacts ==
    ASSUME ExecInv, NEW c \in Clients, Streaming(c)
    PROVE  /\ conns[c] \in StreamRec /\ Claims(conns[c])
           /\ CodeAt(conns[c], exited[conns[c].sess], torn)
           /\ conns[c].sess \notin blurred => Path(conns[c])
<1>1. conns[c] \in Conn /\ conns[c].pc = "stream"
  BY DEF ExecInv, ExecTypeOK, Streaming
<1>2. conns[c] \in StreamRec
  BY <1>1, ConnFacts
<1>3. CodeAt(conns[c], exited[conns[c].sess], torn)
  BY DEF ExecInv, CodeInv
<1>4. QED
  BY <1>2, <1>3 DEF ExecInv, ClaimInv, PathInv

\* StreamMoves when no program exits.
LEMMA StreamGoesOn ==
    ASSUME ExecInv, NEW c \in Clients, Streaming(c), NEW y \in StreamRec, Becomes(c, y),
           y.sess = conns[c].sess,
           UNCHANGED <<elog, esess, tokens, records, exited, torn>>, blurred \subseteq blurred',
           Claims(y), Recorded(conns[c]) => Recorded(y),
           CodeAt(y, exited[y.sess], torn), y.sess \notin blurred' => Path(y)
    PROVE  ExecInv'
<1>1. exited \in [Sessions -> {NoCode, Ok}] /\ exited' = exited
  BY DEF ExecInv, ExecTypeOK
<1>2. CodeAt(y, exited'[y.sess], torn')
  OBVIOUS
<1>3. QED
  BY <1>1, <1>2, StreamMoves

----------------------------------------------------------------------------
(* Sequences of frames.                                                    *)

LEMMA HasAppend ==
    ASSUME NEW S, NEW q \in Seq(S), NEW f \in S
    PROVE  /\ Append(q, f) \in Seq(S)
           /\ \A g : Has(Append(q, f), g) => Has(q, g) \/ f = g
           /\ AllOut(q) /\ f = "out" => AllOut(Append(q, f))
           /\ AllOut(q) /\ f = Ok => EndsIn(Append(q, f))
<1>1. PICK n, r : n = Len(q) /\ r = Append(q, f) /\ n \in Nat /\ r \in Seq(S)
  <2>1. Len(q) \in Nat /\ Append(q, f) \in Seq(S)
    OBVIOUS
  <2>2. QED
    BY <2>1
<1>2. /\ Len(r) = n + 1 /\ r[n + 1] = f /\ \A k \in 1 .. n : r[k] = q[k]
      /\ \A k \in 1 .. Len(r) : k \in 1 .. n \/ k = n + 1
  BY <1>1
<1>3. \A g : Has(r, g) => Has(q, g) \/ f = g
  BY <1>1, <1>2 DEF Has
<1>4. AllOut(q) /\ f = "out" => AllOut(r)
  BY <1>1, <1>2 DEF AllOut
<1>5. AllOut(q) /\ f = Ok => EndsIn(r)
  <2>1. Len(r) > 0 /\ Len(r) - 1 = n
    BY <1>1, <1>2
  <2>2. QED
    BY <1>1, <1>2, <2>1 DEF AllOut, EndsIn
<1>6. QED
  BY <1>1, <1>3, <1>4, <1>5

\* What is left after the first n frames.
LEMMA HasRest ==
    ASSUME NEW S, NEW q \in Seq(S), NEW n \in 1 .. Len(q), NEW r, r = SubSeq(q, n + 1, Len(q))
    PROVE  /\ r \in Seq(S) /\ q[1] \in S /\ q[n] \in S /\ Has(q, q[1]) /\ \A g : Has(r, g) => Has(q, g)
           /\ n = 1 /\ AllOut(q) => AllOut(r) /\ q[1] = "out"
           /\ n = 1 /\ EndsIn(q) /\ q[1] = "out" => EndsIn(r)
           /\ EndsIn(q) => q[1] \in {"out", Ok}
<1>1. PICK m \in Nat : m = Len(q)
  OBVIOUS
<1>2. /\ n \in Nat /\ 1 <= n /\ n <= m /\ 1 \in 1 .. m /\ m - n \in Nat
  BY <1>1
<1>3. /\ r \in Seq(S) /\ Len(r) = m - n /\ \A k \in 1 .. m - n : r[k] = q[n + k]
  <2>1. r = SubSeq(q, n + 1, m)
    BY <1>1
  <2>2. \A k \in n + 1 .. m : q[k] \in S
    BY <1>1, <1>2, ElementOfSeq
  <2>3. Len(r) = m - n
    BY <1>1, <1>2, <2>1
  <2>4. \A k \in 1 .. m - n : r[k] = q[n + k]
    BY <1>1, <1>2, <2>1
  <2>5. r \in Seq(S)
    BY <1>1, <1>2, <2>1
  <2>6. QED
    BY <2>3, <2>4, <2>5
<1>4. q[1] \in S /\ q[n] \in S
  BY <1>1, <1>2, ElementOfSeq
<1>5. Has(q, q[1])
  BY <1>1, <1>2 DEF Has
<1>6. ASSUME NEW g, Has(r, g) PROVE Has(q, g)
  <2>1. PICK k \in 1 .. m - n : r[k] = g
    BY <1>3, <1>6 DEF Has
  <2>2. n + k \in 1 .. m /\ q[n + k] = g
    BY <1>2, <1>3, <2>1
  <2>3. QED
    BY <1>1, <2>2 DEF Has
<1>7. ASSUME n = 1, AllOut(q) PROVE AllOut(r) /\ q[1] = "out"
  <2>1. \A k \in 1 .. m - n : n + k \in 1 .. m
    BY <1>2
  <2>2. QED
    BY <1>1, <1>2, <1>3, <1>7, <2>1 DEF AllOut
<1>8. ASSUME n = 1, EndsIn(q), q[1] = "out" PROVE EndsIn(r)
  <2>1. q[m] = Ok /\ \A k \in 1 .. m - 1 : q[k] = "out"
    BY <1>1, <1>8 DEF EndsIn
  <2>2. m # 1
    BY <1>8, <2>1 DEF Ok
  <2>3. m - n > 0 /\ m - n \in 1 .. m - n /\ n + (m - n) = m
    BY <1>2, <1>8, <2>2
  <2>4. r[m - n] = Ok
    BY <1>3, <2>1, <2>3
  <2>5. ASSUME NEW k \in 1 .. (m - n) - 1 PROVE r[k] = "out"
    <3>1. k \in 1 .. m - n /\ n + k \in 1 .. m - 1
      BY <1>2, <1>8
    <3>2. QED
      BY <1>3, <2>1, <3>1
  <2>6. QED
    BY <1>3, <2>3, <2>4, <2>5 DEF EndsIn
<1>9. ASSUME EndsIn(q) PROVE q[1] \in {"out", Ok}
  <2>1. q[m] = Ok /\ \A k \in 1 .. m - 1 : q[k] = "out"
    BY <1>1, <1>9 DEF EndsIn
  <2>2. m = 1 \/ 1 \in 1 .. m - 1
    BY <1>2
  <2>3. QED
    BY <2>1, <2>2
<1>10. QED
  BY <1>3, <1>4, <1>5, <1>6, <1>7, <1>8, <1>9

\* The rest of a frame is put back.
LEMMA HasCons ==
    ASSUME NEW S, NEW q \in Seq(S), NEW f \in S
    PROVE  <<f>> \o q \in Seq(S) /\ \A g : Has(<<f>> \o q, g) => f = g \/ Has(q, g)
<1>1. PICK p : p = <<f>> /\ p \in Seq(S) /\ Len(p) = 1 /\ p[1] = f
  <2>1. <<f>> \in Seq(S) /\ Len(<<f>>) = 1 /\ <<f>>[1] = f
    OBVIOUS
  <2>2. QED
    BY <2>1
<1>2. PICK n, r : n = Len(q) /\ r = p \o q /\ n \in Nat /\ r \in Seq(S)
  <2>1. Len(q) \in Nat /\ p \o q \in Seq(S)
    BY <1>1
  <2>2. QED
    BY <2>1
<1>3. Len(r) = n + 1 /\ r[1] = f /\ \A k \in 2 .. n + 1 : r[k] = q[k - 1]
  BY <1>1, <1>2
<1>4. ASSUME NEW g, Has(r, g) PROVE f = g \/ Has(q, g)
  <2>1. PICK k \in 1 .. n + 1 : r[k] = g
    BY <1>3, <1>4 DEF Has
  <2>2. CASE k = 1
    BY <1>3, <2>1, <2>2
  <2>3. CASE k # 1
    <3>1. k \in 2 .. n + 1 /\ k - 1 \in 1 .. n
      BY <1>2, <2>1, <2>3
    <3>2. q[k - 1] = g
      BY <1>3, <2>1, <3>1
    <3>3. QED
      BY <1>2, <3>1, <3>2 DEF Has
  <2>4. QED
    BY <2>2, <2>3
<1>5. QED
  BY <1>1, <1>2, <1>4

LEMMA HasFew ==
    /\ \A g : ~Has(<<>>, g)
    /\ AllOut(<<>>)
    /\ \A f, g : Has(<<f>>, g) => f = g
  BY DEF Has, AllOut

LEMMA GatewayAcceptsStep ==
    ASSUME ExecInv, NEW c \in Clients, GatewayAccepts(c)
    PROVE  ExecInv'
<1>1. PICK x : x = conns[c]
  OBVIOUS
<1>2. /\ Streaming(c) /\ x.gw = "init"
      /\ UNCHANGED <<elog, esess, tokens, records, exited, torn>> /\ blurred \subseteq blurred'
  BY <1>1 DEF GatewayAccepts, evars, Blur
<1>3. /\ x \in StreamRec /\ Claims(x) /\ CodeAt(x, exited[x.sess], torn)
      /\ x.sess \notin blurred => Path(x)
  BY <1>1, <1>2, StreamFacts
<1>4. x.sess \notin blurred => NotBegun(x) /\ x.prog = "none" /\ Copies(x) /\ x.down = <<>>
  BY <1>2, <1>3 DEF Path, NoGuest, Reads, Delivers
<1>5. CASE Becomes(c, [x EXCEPT !.gw = "off", !.down = <<Code128>>, !.tcp = "shut"])
  <2>1. PICK y : y = [x EXCEPT !.gw = "off", !.down = <<Code128>>, !.tcp = "shut"]
    OBVIOUS
  <2>2. /\ <<Code128>> \in Seq(Frames)
        /\ ~Has(<<Code128>>, Ok) /\ ~Has(<<Code128>>, Wrong)
    BY HasFew DEF Frames, Ok, Code128, Wrong
  <2>3. PICK d : d = <<Code128>>
    OBVIOUS
  <2>4. /\ y \in StreamRec /\ y.gw = "off" /\ y.sess = x.sess /\ y.reader = x.reader
        /\ y.vsock = x.vsock /\ y.prog = x.prog /\ y.tc = x.tc /\ y.ta = x.ta
        /\ y.emitted = x.emitted /\ y.end = x.end /\ y.wire = x.wire /\ y.down = d
    BY <1>3, <2>1, <2>2, <2>3 DEF StreamRec
  <2>5. Claims(y) /\ (Recorded(x) => Recorded(y)) /\ CodeAt(y, exited[y.sess], torn)
    BY <1>3, <2>2, <2>3, <2>4 DEF Claims, Recorded, CodeAt
  <2>6. y.sess \notin blurred' => Path(y)
    BY <1>2, <1>4, <2>4 DEF Path, NoGuest, NotBegun
  <2>7. QED
    BY <1>1, <1>2, <1>5, <2>1, <2>4, <2>5, <2>6, StreamGoesOn
<1>6. CASE Becomes(c, [x EXCEPT !.gw = "loop", !.reader = "on", !.vsock = "open"])
  <2>1. PICK y : y = [x EXCEPT !.gw = "loop", !.reader = "on", !.vsock = "open"]
    OBVIOUS
  <2>2. /\ y \in StreamRec /\ y.gw = "loop" /\ y.reader = "on" /\ y.vsock = "open"
        /\ y.sess = x.sess /\ y.prog = x.prog /\ y.tc = x.tc /\ y.ta = x.ta /\ y.ws = x.ws
        /\ y.emitted = x.emitted /\ y.end = x.end /\ y.wire = x.wire /\ y.down = x.down
        /\ y.tcp = x.tcp /\ y.exitSent = x.exitSent
    BY <1>3, <2>1 DEF StreamRec
  <2>3. Claims(y) /\ (Recorded(x) => Recorded(y)) /\ CodeAt(y, exited[y.sess], torn)
    BY <1>3, <2>2 DEF Claims, Recorded, CodeAt
  <2>4. y.sess \notin blurred' => Path(y)
    BY <1>2, <1>4, <2>2 DEF Path, NotBegun, Reads, Copies
  <2>5. QED
    BY <1>1, <1>2, <1>6, <2>1, <2>2, <2>3, <2>4, StreamGoesOn
<1>7. CASE Becomes(c, [x EXCEPT !.gw = "off", !.tcp = "shut"]) /\ Blur(c)
  <2>1. PICK y : y = [x EXCEPT !.gw = "off", !.tcp = "shut"]
    OBVIOUS
  <2>2. /\ y \in StreamRec /\ y.sess = x.sess /\ y.prog = x.prog /\ y.tc = x.tc /\ y.ta = x.ta
        /\ y.emitted = x.emitted /\ y.end = x.end /\ y.wire = x.wire /\ y.down = x.down
    BY <1>3, <2>1 DEF StreamRec
  <2>3. Claims(y) /\ (Recorded(x) => Recorded(y)) /\ CodeAt(y, exited[y.sess], torn)
    BY <1>3, <2>2 DEF Claims, Recorded, CodeAt
  <2>4. y.sess \in blurred'
    BY <1>1, <1>7, <2>2 DEF Blur
  <2>5. QED
    BY <1>1, <1>2, <1>7, <2>1, <2>2, <2>3, <2>4, StreamGoesOn
<1>8. QED
  BY <1>1, <1>5, <1>6, <1>7 DEF GatewayAccepts

\* What a read makes of the frames on the wire.
LEMMA TakenFacts ==
    ASSUME NEW f \in WireFrames, NEW whole \in BOOLEAN, NEW g \in TakenFor(f, whole)
    PROVE  /\ g \in {"out", Ok, Codeless, Wrong}
           /\ g = Ok => f = Ok
           /\ g = Wrong => f = "rest"
           /\ f = "out" => g = "out"
           /\ f = Ok /\ whole => g = Ok
<1>1. CASE f = "rest"
  BY <1>1 DEF TakenFor, Ok, Codeless, Wrong
<1>2. CASE f # "rest"
  BY <1>2 DEF TakenFor, Ok, Codeless, Wrong, WireFrames
<1>3. QED
  BY <1>1, <1>2

LEMMA RemainderFacts == \A f : Remainder(f) \in {"rest", "out"}
  BY DEF Remainder

LEMMA ReaderReadsStep ==
    ASSUME ExecInv, NEW c \in Clients, ReaderReads(c)
    PROVE  ExecInv'
<1>1. PICK x : x = conns[c]
  OBVIOUS
<1>2. /\ Streaming(c) /\ x.reader = "on" /\ x.wire # <<>>
      /\ UNCHANGED <<elog, esess, tokens, records, exited>>
  BY <1>1 DEF ReaderReads, evars
<1>3. /\ x \in StreamRec /\ Claims(x) /\ CodeAt(x, exited[x.sess], torn)
      /\ x.sess \notin blurred => Path(x)
  BY <1>1, <1>2, StreamFacts
<1>4. x.sess \notin blurred => Reads(x) /\ Copies(x) /\ x.prog \notin {"failed", "alone"}
  BY <1>2, <1>3 DEF Path, NoGuest, NotBegun, Delivers
<1> DEFINE Body(z, n, whole) ==
        LET left == SubSeq(z.wire, n + 1, Len(z.wire))
            rest == IF whole THEN left ELSE <<Remainder(z.wire[n])>> \o left
        IN  /\ whole \/ n > 1 \/ z.wire[1] \in {"out", Ok}
            /\ \E f \in TakenFor(z.wire[1], whole \/ n > 1) :
                 IF z.tcp = "shut" THEN Becomes(c, [z EXCEPT !.reader = "off", !.wire = rest])
                 ELSE IF f = "out"
                 THEN Becomes(c, [z EXCEPT !.down = Append(@, "out"), !.wire = rest])
                 ELSE Becomes(c, [z EXCEPT !.down = Append(@, f), !.wire = rest, !.exitSent = TRUE,
                                           !.reader = "off", !.tcp = "shut"])
            /\ IF n > 1 \/ ~whole THEN Blur(c) ELSE UNCHANGED blurred
            /\ torn' = IF whole THEN torn ELSE torn \cup {z.sess}
<1>reads. \E n \in 1 .. Len(conns[c].wire), whole \in BOOLEAN : Body(conns[c], n, whole)
  BY DEF ReaderReads
<1> HIDE DEF Body
<1>read. PICK n \in 1 .. Len(x.wire), whole \in BOOLEAN : Body(x, n, whole)
  BY <1>1, <1>reads
<1> USE DEF Body
<1>5. /\ IF n > 1 \/ ~whole THEN Blur(c) ELSE UNCHANGED blurred
      /\ torn' = IF whole THEN torn ELSE torn \cup {x.sess}
  BY <1>read
<1> PICK left, rest :
        /\ left = SubSeq(x.wire, n + 1, Len(x.wire))
        /\ rest = IF whole THEN left ELSE <<Remainder(x.wire[n])>> \o left
  OBVIOUS
<1>taken. PICK f \in TakenFor(x.wire[1], whole \/ n > 1) :
          IF x.tcp = "shut" THEN Becomes(c, [x EXCEPT !.reader = "off", !.wire = rest])
          ELSE IF f = "out"
          THEN Becomes(c, [x EXCEPT !.down = Append(@, "out"), !.wire = rest])
          ELSE Becomes(c, [x EXCEPT !.down = Append(@, f), !.wire = rest, !.exitSent = TRUE,
                                    !.reader = "off", !.tcp = "shut"])
  BY <1>read, Zenon
<1> HIDE DEF Body
<1>6. PICK w \in Seq(WireFrames) : w = x.wire
  BY <1>3 DEF StreamRec
<1>7. /\ left \in Seq(WireFrames) /\ w[1] \in WireFrames /\ w[n] \in WireFrames
      /\ Has(w, w[1]) /\ \A g : Has(left, g) => Has(w, g)
      /\ n = 1 /\ AllOut(w) => AllOut(left) /\ w[1] = "out"
      /\ n = 1 /\ EndsIn(w) /\ w[1] = "out" => EndsIn(left)
      /\ EndsIn(w) => w[1] \in {"out", Ok}
  <2>1. n \in 1 .. Len(w) /\ left = SubSeq(w, n + 1, Len(w))
    BY <1>6
  <2>2. QED
    BY <2>1, HasRest
<1>8. /\ rest \in Seq(WireFrames) /\ (Has(rest, Ok) => Has(w, Ok))
      /\ Has(rest, "rest") => Has(w, "rest") \/ ~whole
  <2>1. CASE whole
    BY <1>5, <1>7, <2>1
  <2>2. CASE ~whole
    <3>1. PICK r \in {"rest", "out"} : r = Remainder(w[n])
      BY RemainderFacts
    <3>2. rest = <<r>> \o left /\ r \in WireFrames
      BY <1>5, <1>6, <2>2, <3>1 DEF WireFrames
    <3>3. rest \in Seq(WireFrames) /\ \A g : Has(rest, g) => r = g \/ Has(left, g)
      BY <1>7, <3>2, HasCons
    <3>4. QED
      BY <1>7, <2>2, <3>1, <3>3 DEF Ok
  <2>3. QED
    BY <2>1, <2>2
<1>9. /\ f \in {"out", Ok, Codeless, Wrong}
      /\ f = Ok => w[1] = Ok
      /\ f = Wrong => w[1] = "rest"
      /\ w[1] = "out" => f = "out"
      /\ w[1] = Ok /\ whole => f = Ok
  <2>1. PICK all \in BOOLEAN : all = (whole \/ n > 1)
    OBVIOUS
  <2>2. f \in TakenFor(w[1], all) /\ (whole => all)
    BY <1>6, <1>taken, <2>1
  <2>3. /\ f \in {"out", Ok, Codeless, Wrong}
        /\ f = Ok => w[1] = Ok
        /\ f = Wrong => w[1] = "rest"
        /\ w[1] = "out" => f = "out"
        /\ w[1] = Ok /\ all => f = Ok
    BY <1>7, <2>2, TakenFacts
  <2>4. QED
    BY <2>2, <2>3
<1>10. /\ blurred \subseteq blurred' /\ torn \subseteq torn' /\ (~whole => x.sess \in torn')
       /\ x.sess \notin blurred' => n = 1 /\ whole /\ x.sess \notin blurred /\ rest = left
  <2>1. n \in Nat /\ n >= 1
    BY <1>6
  <2>2. /\ IF n > 1 \/ ~whole THEN Blur(c) ELSE UNCHANGED blurred
        /\ torn' = IF whole THEN torn ELSE torn \cup {x.sess}
    BY <1>5
  <2>3. CASE whole
    BY <1>1, <2>1, <2>2, <2>3 DEF Blur
  <2>4. CASE ~whole
    BY <1>1, <2>2, <2>4 DEF Blur
  <2>5. QED
    BY <2>3, <2>4
<1>11. /\ Has(w, Ok) => x.prog = "done"
       /\ Has(w, "rest") => x.sess \in torn
       /\ f = Ok => x.prog = "done"
       /\ f = Wrong => x.sess \in torn
  <2>1. /\ Has(w, Ok) => x.prog = "done"
        /\ Has(w, "rest") => x.sess \in torn
    BY <1>3, <1>6 DEF CodeAt
  <2>2. QED
    BY <1>7, <1>9, <2>1
<1>12. exited \in [Sessions -> {NoCode, Ok}] /\ exited' = exited
  BY <1>2 DEF ExecInv, ExecTypeOK
<1>13. CASE x.tcp = "shut"
  <2>1. PICK y : y = [x EXCEPT !.reader = "off", !.wire = rest]
    OBVIOUS
  <2>2. /\ y \in StreamRec /\ y.sess = x.sess /\ y.prog = x.prog /\ y.tc = x.tc /\ y.ta = x.ta
        /\ y.emitted = x.emitted /\ y.end = x.end /\ y.down = x.down /\ y.wire = rest
    BY <1>3, <1>8, <2>1 DEF StreamRec
  <2>3. Claims(y) /\ (Recorded(x) => Recorded(y))
    BY <1>3, <2>2 DEF Claims, Recorded
  <2>4. CodeAt(y, exited[y.sess], torn')
    BY <1>3, <1>8, <1>10, <1>11, <2>2 DEF CodeAt
  <2>5. y.sess \in blurred'
    BY <1>4, <1>10, <1>13, <2>2 DEF Copies
  <2>6. Becomes(c, y)
    BY <1>13, <1>taken, <2>1
  <2>7. CodeAt(y, exited'[y.sess], torn')
    BY <1>12, <2>4
  <2>8. QED
    BY <1>1, <1>2, <1>10, <1>12, <2>2, <2>3, <2>5, <2>6, <2>7, StreamMoves
<1>14. CASE x.tcp # "shut" /\ f = "out"
  <2>1. PICK d : d = Append(x.down, "out")
    OBVIOUS
  <2>2. x.down \in Seq(Frames) /\ "out" \in Frames
    BY <1>3 DEF StreamRec, Frames
  <2>3. /\ d \in Seq(Frames) /\ (AllOut(x.down) => AllOut(d))
        /\ \A g : Has(d, g) => Has(x.down, g) \/ g = "out"
    BY <2>1, <2>2, HasAppend
  <2>4. PICK y : y = [x EXCEPT !.down = d, !.wire = rest]
    OBVIOUS
  <2>5. /\ y \in StreamRec /\ y.sess = x.sess /\ y.prog = x.prog /\ y.tc = x.tc /\ y.ta = x.ta
        /\ y.emitted = x.emitted /\ y.end = x.end /\ y.down = d /\ y.wire = rest
        /\ y.gw = x.gw /\ y.reader = x.reader /\ y.vsock = x.vsock /\ y.ws = x.ws /\ y.tcp = x.tcp
        /\ y.exitSent = x.exitSent
    BY <1>3, <1>8, <2>3, <2>4 DEF StreamRec
  <2>6. Claims(y) /\ (Recorded(x) => Recorded(y))
    BY <1>3, <2>5 DEF Claims, Recorded
  <2>7. CodeAt(y, exited'[y.sess], torn')
    <3>1. (Has(d, Ok) => Has(x.down, Ok)) /\ (Has(d, Wrong) => Has(x.down, Wrong))
      BY <2>3 DEF Ok, Wrong
    <3>2. CodeAt(y, exited[y.sess], torn')
      BY <1>3, <1>8, <1>10, <1>11, <2>5, <3>1 DEF CodeAt
    <3>3. QED
      BY <1>12, <3>2
  <2>8. ASSUME y.sess \notin blurred' PROVE Path(y)
    <3>1. n = 1 /\ whole /\ x.sess \notin blurred /\ rest = left
      BY <1>10, <2>5, <2>8
    <3>2. Reads(x) /\ Copies(x) /\ x.prog \notin {"failed", "alone"}
      BY <1>4, <3>1
    <3>3. w[1] # Ok
      BY <1>9, <1>14, <3>1 DEF Ok
    <3>4. EndsIn(w) => EndsIn(rest)
      BY <1>7, <3>1, <3>3
    <3>5. AllOut(w) => AllOut(rest)
      BY <1>7, <3>1
    <3>6. Reads(y)
      BY <1>6, <2>5, <3>2, <3>4, <3>5 DEF Reads
    <3>7. Copies(y)
      BY <2>3, <2>5, <3>2 DEF Copies
    <3>8. QED
      BY <2>5, <3>2, <3>6, <3>7 DEF Path
  <2>9. Becomes(c, y)
    BY <1>14, <1>taken, <2>1, <2>4
  <2>10. QED
    BY <1>1, <1>2, <1>10, <1>12, <2>5, <2>6, <2>7, <2>8, <2>9, StreamMoves
<1>15. CASE x.tcp # "shut" /\ f # "out"
  <2>1. PICK d : d = Append(x.down, f)
    OBVIOUS
  <2>2. x.down \in Seq(Frames) /\ f \in Frames
    BY <1>3, <1>9 DEF StreamRec, Frames
  <2>3. /\ d \in Seq(Frames) /\ (AllOut(x.down) /\ f = Ok => EndsIn(d))
        /\ \A g : Has(d, g) => Has(x.down, g) \/ f = g
    BY <2>1, <2>2, HasAppend
  <2>4. PICK y : y = [x EXCEPT !.down = d, !.wire = rest, !.exitSent = TRUE, !.reader = "off", !.tcp = "shut"]
    OBVIOUS
  <2>5. /\ y \in StreamRec /\ y.sess = x.sess /\ y.prog = x.prog /\ y.tc = x.tc /\ y.ta = x.ta
        /\ y.emitted = x.emitted /\ y.end = x.end /\ y.down = d /\ y.wire = rest
        /\ y.gw = x.gw /\ y.reader = "off" /\ y.vsock = x.vsock /\ y.ws = x.ws /\ y.tcp = "shut"
        /\ y.exitSent
    BY <1>3, <1>8, <2>3, <2>4, ZenonT(60) DEF StreamRec
  <2>6. Claims(y) /\ (Recorded(x) => Recorded(y))
    BY <1>3, <2>5 DEF Claims, Recorded
  <2>7. CodeAt(y, exited'[y.sess], torn')
    <3>1. (Has(d, Ok) => Has(x.down, Ok) \/ f = Ok) /\ (Has(d, Wrong) => Has(x.down, Wrong) \/ f = Wrong)
      BY <2>3
    <3>2. CodeAt(y, exited[y.sess], torn')
      BY <1>3, <1>8, <1>10, <1>11, <2>5, <3>1 DEF CodeAt
    <3>3. QED
      BY <1>12, <3>2
  <2>8. ASSUME y.sess \notin blurred' PROVE Path(y)
    <3>1. n = 1 /\ whole /\ x.sess \notin blurred
      BY <1>10, <2>5, <2>8
    <3>2. Reads(x) /\ Copies(x)
      BY <1>4, <3>1
    <3>3. EndsIn(w)
      BY <1>6, <1>7, <1>9, <1>15, <3>1, <3>2 DEF Reads
    <3>4. f = Ok
      BY <1>7, <1>9, <1>15, <3>1, <3>3
    <3>5. OnItsWay(y)
      BY <2>3, <2>5, <3>2, <3>4 DEF OnItsWay, Copies
    <3>6. Delivers(y)
      BY <1>11, <2>5, <3>2, <3>4, <3>5 DEF Delivers, Reads
    <3>7. QED
      BY <3>6 DEF Path
  <2>9. Becomes(c, y)
    BY <1>15, <1>taken, <2>1, <2>4
  <2>10. QED
    BY <1>1, <1>2, <1>10, <1>12, <2>5, <2>6, <2>7, <2>8, <2>9, StreamMoves
<1>16. QED
  BY <1>13, <1>14, <1>15

\* The connection to the control plane is closed.
LEMMA ReaderStops ==
    ASSUME ExecInv, NEW c \in Clients, Streaming(c), UNCHANGED <<elog, esess, tokens, records, exited, torn>>,
           blurred \subseteq blurred', conns[c].sess \in blurred',
           Becomes(c, [conns[c] EXCEPT !.reader = "off", !.tcp = "shut"])
    PROVE  ExecInv'
<1>1. PICK x : x = conns[c]
  OBVIOUS
<1>y. PICK y : y = [x EXCEPT !.reader = "off", !.tcp = "shut"]
  OBVIOUS
<1>2. x \in StreamRec /\ Claims(x) /\ CodeAt(x, exited[x.sess], torn)
  BY <1>1, StreamFacts
<1>3. /\ y \in StreamRec /\ y.sess = x.sess /\ y.prog = x.prog /\ y.tc = x.tc /\ y.ta = x.ta
      /\ y.emitted = x.emitted /\ y.end = x.end /\ y.down = x.down /\ y.wire = x.wire
  BY <1>2, <1>y DEF StreamRec
<1>4. Claims(y) /\ (Recorded(x) => Recorded(y)) /\ CodeAt(y, exited[y.sess], torn)
  BY <1>2, <1>3 DEF Claims, Recorded, CodeAt
<1>5. QED
  BY <1>1, <1>3, <1>4, <1>y, StreamGoesOn

LEMMA ReaderEofStep ==
    ASSUME ExecInv, NEW c \in Clients, ReaderEof(c)
    PROVE  ExecInv'
<1>1. PICK x : x = conns[c]
  OBVIOUS
<1>2. /\ Streaming(c) /\ x.reader = "on" /\ x.wire = <<>> /\ x.vsock = "shut"
      /\ UNCHANGED <<elog, esess, tokens, records, exited, torn>> /\ UNCHANGED blurred
  BY <1>1 DEF ReaderEof, evars, svars
<1>3. x.sess \notin blurred => Path(x)
  BY <1>1, <1>2, StreamFacts
<1>4. ~EndsIn(x.wire)
  <2>1. Len(x.wire) = 0
    BY <1>2
  <2>2. QED
    BY <2>1 DEF EndsIn
<1>5. x.sess \in blurred
  BY <1>2, <1>3, <1>4 DEF Path, NoGuest, NotBegun, Delivers, Reads
<1>6. QED
  BY <1>1, <1>2, <1>5, ReaderStops DEF ReaderEof

LEMMA ReaderFailsStep ==
    ASSUME ExecInv, NEW c \in Clients, ReaderFails(c)
    PROVE  ExecInv'
<1>1. /\ Streaming(c) /\ UNCHANGED <<elog, esess, tokens, records, exited, torn>>
      /\ Becomes(c, [conns[c] EXCEPT !.reader = "off", !.tcp = "shut"])
  BY DEF ReaderFails, evars
<1>2. blurred \subseteq blurred' /\ conns[c].sess \in blurred'
  BY DEF ReaderFails, Blur
<1>3. QED
  BY <1>1, <1>2, ReaderStops

LEMMA GatewayEndsStep ==
    ASSUME ExecInv, NEW c \in Clients, GatewayEnds(c)
    PROVE  ExecInv'
<1>1. PICK x : x = conns[c]
  OBVIOUS
<1>2. /\ Streaming(c) /\ x.gw = "loop" /\ (x.reader = "off" \/ x.tcp = "shut" \/ x.ta = "off")
      /\ UNCHANGED <<elog, esess, tokens, records, exited, blurred, torn>>
  BY <1>1 DEF GatewayEnds, evars, svars
<1>3. /\ x \in StreamRec /\ Claims(x) /\ CodeAt(x, exited[x.sess], torn)
      /\ x.sess \notin blurred => Path(x)
  BY <1>1, <1>2, StreamFacts
<1>4. x.sess \notin blurred => Delivers(x)
  BY <1>2, <1>3 DEF Path, NoGuest, NotBegun, Reads, Copies
<1>5. PICK d : d = IF x.exitSent \/ x.tcp = "shut" THEN x.down ELSE Append(x.down, Code128)
  OBVIOUS
<1>6. /\ d \in Seq(Frames)
      /\ Has(d, Ok) => Has(x.down, Ok)
      /\ Has(d, Wrong) => Has(x.down, Wrong)
      /\ x.exitSent => d = x.down
  <2>1. x.down \in Seq(Frames) /\ Code128 \in Frames /\ Code128 # Ok /\ Code128 # Wrong
    BY <1>3 DEF StreamRec, Frames, Code128, Ok, Wrong
  <2>2. CASE x.exitSent \/ x.tcp = "shut"
    BY <1>5, <2>1, <2>2
  <2>3. CASE ~(x.exitSent \/ x.tcp = "shut")
    BY <1>5, <2>1, <2>3, HasAppend
  <2>4. QED
    BY <2>2, <2>3
<1>7. PICK y : y = [x EXCEPT !.gw = "off", !.tcp = "shut", !.vsock = "shut", !.down = d]
  OBVIOUS
<1>8. /\ y \in StreamRec /\ y.sess = x.sess /\ y.prog = x.prog /\ y.tc = x.tc /\ y.ta = x.ta
      /\ y.emitted = x.emitted /\ y.end = x.end /\ y.down = d /\ y.wire = x.wire
      /\ y.gw = "off" /\ y.reader = x.reader /\ y.ws = x.ws /\ y.tcp = "shut"
      /\ y.exitSent = x.exitSent
  BY <1>3, <1>6, <1>7 DEF StreamRec
<1>9. Claims(y) /\ (Recorded(x) => Recorded(y)) /\ CodeAt(y, exited[y.sess], torn)
  BY <1>3, <1>6, <1>8 DEF Claims, Recorded, CodeAt
<1>10. ASSUME y.sess \notin blurred PROVE Path(y)
  <2>1. Delivers(x) /\ d = x.down
    BY <1>4, <1>6, <1>8, <1>10 DEF Delivers
  <2>2. Delivers(y)
    BY <1>8, <2>1 DEF Delivers, OnItsWay, Arrived
  <2>3. QED
    BY <2>2 DEF Path
<1>11. Becomes(c, y)
  BY <1>1, <1>5, <1>7 DEF GatewayEnds
<1>12. QED
  BY <1>1, <1>2, <1>8, <1>9, <1>10, <1>11, StreamGoesOn

LEMMA GuestStartsStep ==
    ASSUME ExecInv, NEW c \in Clients, GuestStarts(c)
    PROVE  ExecInv'
<1>1. PICK x : x = conns[c]
  OBVIOUS
<1>2. /\ Streaming(c) /\ x.vsock = "open" /\ x.prog = "none"
      /\ UNCHANGED <<elog, esess, tokens, records, exited, torn>> /\ blurred \subseteq blurred'
  BY <1>1 DEF GuestStarts, evars, Blur
<1>3. /\ x \in StreamRec /\ Claims(x) /\ CodeAt(x, exited[x.sess], torn)
      /\ x.sess \notin blurred => Path(x)
  BY <1>1, <1>2, StreamFacts
<1>4. x.sess \notin blurred => Reads(x) /\ Copies(x)
  BY <1>2, <1>3 DEF Path, NoGuest, NotBegun, Delivers
<1>5. CASE Becomes(c, [x EXCEPT !.prog = "runs"])
  <2>1. PICK y : y = [x EXCEPT !.prog = "runs"]
    OBVIOUS
  <2>2. /\ y \in StreamRec /\ y.sess = x.sess /\ y.prog = "runs" /\ y.tc = x.tc /\ y.ta = x.ta
        /\ y.emitted = x.emitted /\ y.end = x.end /\ y.down = x.down /\ y.wire = x.wire
        /\ y.gw = x.gw /\ y.reader = x.reader /\ y.vsock = x.vsock /\ y.ws = x.ws /\ y.tcp = x.tcp
        /\ y.exitSent = x.exitSent
    BY <1>3, <2>1 DEF StreamRec
  <2>3. Claims(y) /\ (Recorded(x) => Recorded(y)) /\ CodeAt(y, exited[y.sess], torn)
    BY <1>2, <1>3, <2>2 DEF Claims, Recorded, CodeAt
  <2>4. y.sess \notin blurred' => Path(y)
    BY <1>2, <1>4, <2>2 DEF Path, Reads, Copies
  <2>5. QED
    BY <1>1, <1>2, <1>5, <2>1, <2>2, <2>3, <2>4, StreamGoesOn, ZenonT(60)
<1>6. CASE Becomes(c, [x EXCEPT !.prog = "failed", !.vsock = "shut"]) /\ Blur(c)
  <2>1. PICK y : y = [x EXCEPT !.prog = "failed", !.vsock = "shut"]
    OBVIOUS
  <2>2. /\ y \in StreamRec /\ y.sess = x.sess /\ y.prog = "failed" /\ y.tc = x.tc /\ y.ta = x.ta
        /\ y.emitted = x.emitted /\ y.end = x.end /\ y.down = x.down /\ y.wire = x.wire
    BY <1>3, <2>1 DEF StreamRec
  <2>3. Claims(y) /\ (Recorded(x) => Recorded(y)) /\ CodeAt(y, exited[y.sess], torn)
    BY <1>2, <1>3, <2>2 DEF Claims, Recorded, CodeAt
  <2>4. y.sess \in blurred'
    BY <1>1, <1>6, <2>2 DEF Blur
  <2>5. QED
    BY <1>1, <1>2, <1>6, <2>1, <2>2, <2>3, <2>4, StreamGoesOn
<1>7. QED
  BY <1>1, <1>5, <1>6 DEF GuestStarts

LEMMA GuestSendsStep ==
    ASSUME ExecInv, NEW c \in Clients, GuestSends(c)
    PROVE  ExecInv'
<1>1. PICK x, w : x = conns[c] /\ w = Append(x.wire, "out")
  OBVIOUS
<1>2. /\ Streaming(c) /\ x.vsock = "open" /\ x.prog \in {"runs", "exited", "held"}
      /\ UNCHANGED <<elog, esess, tokens, records, exited, torn>> /\ UNCHANGED blurred
      /\ Becomes(c, [x EXCEPT !.wire = w])
  BY <1>1 DEF GuestSends, evars, svars
<1>3. /\ x \in StreamRec /\ Claims(x) /\ CodeAt(x, exited[x.sess], torn)
      /\ x.sess \notin blurred => Path(x)
  BY <1>1, <1>2, StreamFacts
<1>4. x.sess \notin blurred => Reads(x) /\ Copies(x)
  BY <1>2, <1>3 DEF Path, Delivers
<1>5. /\ w \in Seq(WireFrames) /\ (AllOut(x.wire) => AllOut(w))
      /\ \A g : Has(w, g) => Has(x.wire, g) \/ g = "out"
  <2>1. x.wire \in Seq(WireFrames) /\ "out" \in WireFrames
    BY <1>3 DEF StreamRec, WireFrames
  <2>2. QED
    BY <1>1, <2>1, HasAppend
<1>6. PICK y : y = [x EXCEPT !.wire = w]
  OBVIOUS
<1>7. /\ y \in StreamRec /\ y.sess = x.sess /\ y.prog = x.prog /\ y.tc = x.tc /\ y.ta = x.ta
      /\ y.emitted = x.emitted /\ y.end = x.end /\ y.down = x.down /\ y.wire = w
      /\ y.gw = x.gw /\ y.reader = x.reader /\ y.vsock = x.vsock /\ y.ws = x.ws /\ y.tcp = x.tcp
      /\ y.exitSent = x.exitSent
  BY <1>3, <1>5, <1>6 DEF StreamRec
<1>8. Claims(y) /\ (Recorded(x) => Recorded(y)) /\ CodeAt(y, exited[y.sess], torn)
  <2>1. (Has(w, Ok) => Has(x.wire, Ok)) /\ (Has(w, "rest") => Has(x.wire, "rest"))
    BY <1>5 DEF Ok
  <2>2. QED
    BY <1>3, <1>7, <2>1 DEF Claims, Recorded, CodeAt
<1>9. y.sess \notin blurred' => Path(y)
  BY <1>2, <1>4, <1>5, <1>7 DEF Path, Reads, Copies
<1>10. QED
  BY <1>1, <1>2, <1>6, <1>7, <1>8, <1>9, StreamGoesOn

LEMMA GuestSendFailsStep ==
    ASSUME ExecInv, NEW c \in Clients, GuestSendFails(c)
    PROVE  ExecInv'
<1>1. PICK x, w : x = conns[c] /\ w = Append(x.wire, Codeless)
  OBVIOUS
<1>2. /\ Streaming(c) /\ x.prog \in {"runs", "exited"} /\ Blur(c)
      /\ UNCHANGED <<elog, esess, tokens, records, exited, torn>>
  BY <1>1 DEF GuestSendFails, evars
<1>3. x \in StreamRec /\ Claims(x) /\ CodeAt(x, exited[x.sess], torn)
  BY <1>1, <1>2, StreamFacts
<1>4. w \in Seq(WireFrames) /\ (Has(w, Ok) => Has(x.wire, Ok)) /\ (Has(w, "rest") => Has(x.wire, "rest"))
  <2>1. x.wire \in Seq(WireFrames) /\ Codeless \in WireFrames
    BY <1>3 DEF StreamRec, WireFrames
  <2>2. \A g : Has(w, g) => Has(x.wire, g) \/ g = Codeless
    BY <1>1, <2>1, HasAppend
  <2>3. w \in Seq(WireFrames)
    BY <1>1, <2>1
  <2>4. QED
    BY <2>2, <2>3 DEF Ok, Codeless
<1>5. PICK p \in {"alone", "done"} : p = IF x.prog = "runs" THEN "alone" ELSE "done"
  OBVIOUS
<1>6. PICK y : /\ \/ y = [x EXCEPT !.prog = p, !.vsock = "shut"]
                  \/ y = [x EXCEPT !.prog = p, !.vsock = "shut", !.wire = w]
               /\ Becomes(c, y)
  BY <1>1, <1>2, <1>5 DEF GuestSendFails
<1>7. /\ y \in StreamRec /\ y.sess = x.sess /\ y.prog = p /\ y.tc = x.tc /\ y.ta = x.ta
      /\ y.emitted = x.emitted /\ y.end = x.end /\ y.down = x.down /\ y.wire \in {x.wire, w}
  <2>1. CASE y = [x EXCEPT !.prog = p, !.vsock = "shut"]
    BY <1>3, <1>5, <2>1 DEF StreamRec
  <2>2. CASE y = [x EXCEPT !.prog = p, !.vsock = "shut", !.wire = w]
    BY <1>3, <1>4, <1>5, <2>2 DEF StreamRec
  <2>3. QED
    BY <1>6, <2>1, <2>2
<1>8. Claims(y) /\ (Recorded(x) => Recorded(y))
  BY <1>3, <1>7 DEF Claims, Recorded
<1>9. CodeAt(y, exited[y.sess], torn)
  <2>1. (Has(y.wire, Ok) => Has(x.wire, Ok)) /\ (Has(y.wire, "rest") => Has(x.wire, "rest"))
    BY <1>4, <1>7
  <2>2. QED
    BY <1>2, <1>3, <1>5, <1>7, <2>1 DEF CodeAt
<1>10. blurred \subseteq blurred' /\ y.sess \in blurred'
  BY <1>1, <1>2, <1>7 DEF Blur
<1>11. QED
  BY <1>1, <1>2, <1>6, <1>7, <1>8, <1>9, <1>10, StreamGoesOn

LEMMA ProgramExitsStep ==
    ASSUME ExecInv, NEW c \in Clients, ProgramExits(c)
    PROVE  ExecInv'
<1>1. PICK x : x = conns[c]
  OBVIOUS
<1>2. /\ Streaming(c) /\ x.prog \in {"runs", "alone"}
      /\ UNCHANGED <<elog, esess, tokens, records>> /\ UNCHANGED <<blurred, torn>>
  BY <1>1 DEF ProgramExits, evars
<1>3. /\ x \in StreamRec /\ Claims(x) /\ CodeAt(x, exited[x.sess], torn)
      /\ x.sess \notin blurred => Path(x)
  BY <1>1, <1>2, StreamFacts
<1>4. x.sess \notin blurred => Reads(x) /\ Copies(x) /\ x.prog = "runs"
  BY <1>2, <1>3 DEF Path, NoGuest, NotBegun, Delivers
<1>5. PICK p \in {"exited", "held", "done"} :
        /\ exited' = [exited EXCEPT ![x.sess] = Ok]
        /\ p = "done" => x.prog = "alone"
        /\ Becomes(c, [x EXCEPT !.prog = p])
  BY <1>1, <1>2 DEF ProgramExits
<1>6. PICK y : y = [x EXCEPT !.prog = p]
  OBVIOUS
<1>7. /\ y \in StreamRec /\ y.sess = x.sess /\ y.prog = p /\ y.tc = x.tc /\ y.ta = x.ta
      /\ y.emitted = x.emitted /\ y.end = x.end /\ y.down = x.down /\ y.wire = x.wire
      /\ y.gw = x.gw /\ y.reader = x.reader /\ y.vsock = x.vsock /\ y.ws = x.ws /\ y.tcp = x.tcp
      /\ y.exitSent = x.exitSent
  BY <1>3, <1>5, <1>6 DEF StreamRec
<1>8. exited \in [Sessions -> {NoCode, Ok}] /\ x.sess \in Sessions
  BY <1>3 DEF ExecInv, ExecTypeOK, StreamRec
<1>9. /\ exited' \in [Sessions -> {NoCode, Ok}] /\ exited'[x.sess] = Ok
      /\ \A s \in Sessions : s # x.sess => exited'[s] = exited[s]
  BY <1>5, <1>8
<1>10. Claims(y) /\ (Recorded(x) => Recorded(y))
  BY <1>3, <1>7 DEF Claims, Recorded
<1>11. CodeAt(y, exited'[y.sess], torn')
  BY <1>2, <1>3, <1>7, <1>9 DEF CodeAt
<1>12. x.sess \notin blurred => ~Recorded(x)
  BY <1>3, <1>4 DEF Claims, Recorded, Copies
<1>13. y.sess \notin blurred' => Path(y)
  BY <1>2, <1>4, <1>5, <1>7 DEF Path, Reads, Copies
<1>14. Becomes(c, y) /\ blurred \subseteq blurred' /\ torn \subseteq torn'
  BY <1>2, <1>5, <1>6
<1>15. exited'[y.sess] # exited[y.sess] => y.sess \in blurred' \/ ~Recorded(conns[c])
  BY <1>1, <1>2, <1>7, <1>12
<1>16. QED
  BY <1>1, <1>2, <1>7, <1>9, <1>10, <1>11, <1>13, <1>14, <1>15, StreamMoves

LEMMA OutputReleasedStep ==
    ASSUME ExecInv, NEW c \in Clients, OutputReleased(c)
    PROVE  ExecInv'
<1>1. PICK x, y : x = conns[c] /\ y = [x EXCEPT !.prog = "exited"]
  OBVIOUS
<1>2. /\ Streaming(c) /\ x.prog = "held" /\ Becomes(c, y)
      /\ UNCHANGED <<elog, esess, tokens, records, exited, torn>> /\ UNCHANGED blurred
  BY <1>1 DEF OutputReleased, evars, svars
<1>3. /\ x \in StreamRec /\ Claims(x) /\ CodeAt(x, exited[x.sess], torn)
      /\ x.sess \notin blurred => Path(x)
  BY <1>1, <1>2, StreamFacts
<1>4. x.sess \notin blurred => Reads(x) /\ Copies(x)
  BY <1>2, <1>3 DEF Path, Delivers
<1>5. /\ y \in StreamRec /\ y.sess = x.sess /\ y.prog = "exited" /\ y.tc = x.tc /\ y.ta = x.ta
      /\ y.emitted = x.emitted /\ y.end = x.end /\ y.down = x.down /\ y.wire = x.wire
      /\ y.gw = x.gw /\ y.reader = x.reader /\ y.vsock = x.vsock /\ y.ws = x.ws /\ y.tcp = x.tcp
      /\ y.exitSent = x.exitSent
  BY <1>1, <1>3 DEF StreamRec
<1>6. Claims(y) /\ (Recorded(x) => Recorded(y)) /\ CodeAt(y, exited[y.sess], torn)
  BY <1>2, <1>3, <1>5 DEF Claims, Recorded, CodeAt
<1>7. y.sess \notin blurred' => Path(y)
  BY <1>2, <1>4, <1>5 DEF Path, Reads, Copies
<1>8. QED
  BY <1>1, <1>2, <1>5, <1>6, <1>7, StreamGoesOn

LEMMA GuestFinishesStep ==
    ASSUME ExecInv, NEW c \in Clients, GuestFinishes(c)
    PROVE  ExecInv'
<1>1. PICK x, w : x = conns[c] /\ w = Append(x.wire, Ok)
  OBVIOUS
<1>2. /\ Streaming(c) /\ x.prog = "exited"
      /\ UNCHANGED <<elog, esess, tokens, records, exited, torn>> /\ UNCHANGED blurred
  BY <1>1 DEF GuestFinishes, evars, svars
<1>3. /\ x \in StreamRec /\ Claims(x) /\ CodeAt(x, exited[x.sess], torn)
      /\ x.sess \notin blurred => Path(x)
  BY <1>1, <1>2, StreamFacts
<1>4. x.sess \notin blurred => Reads(x) /\ Copies(x) /\ AllOut(x.wire) /\ x.vsock = "open"
  BY <1>2, <1>3 DEF Path, Delivers, Reads
<1>5. /\ w \in Seq(WireFrames) /\ (AllOut(x.wire) => EndsIn(w))
      /\ Has(w, "rest") => Has(x.wire, "rest")
  <2>1. x.wire \in Seq(WireFrames) /\ Ok \in WireFrames
    BY <1>3 DEF StreamRec, WireFrames
  <2>2. w \in Seq(WireFrames) /\ (AllOut(x.wire) => EndsIn(w)) /\ \A g : Has(w, g) => Has(x.wire, g) \/ g = Ok
    BY <1>1, <2>1, HasAppend
  <2>3. QED
    BY <2>2 DEF Ok
<1>6. CASE x.vsock = "open"
  <2>1. PICK y : y = [x EXCEPT !.prog = "done", !.wire = w, !.vsock = "shut"]
    OBVIOUS
  <2>2. /\ y \in StreamRec /\ y.sess = x.sess /\ y.prog = "done" /\ y.tc = x.tc /\ y.ta = x.ta
        /\ y.emitted = x.emitted /\ y.end = x.end /\ y.down = x.down /\ y.wire = w
        /\ y.gw = x.gw /\ y.reader = x.reader /\ y.ws = x.ws /\ y.tcp = x.tcp
        /\ y.exitSent = x.exitSent
    BY <1>3, <1>5, <2>1, ZenonT(60) DEF StreamRec
  <2>3. Claims(y) /\ (Recorded(x) => Recorded(y))
    BY <1>3, <2>2 DEF Claims, Recorded
  <2>4. CodeAt(y, exited[y.sess], torn)
    BY <1>2, <1>3, <1>5, <2>2 DEF CodeAt
  <2>5. y.sess \notin blurred' => Path(y)
    BY <1>2, <1>4, <1>5, <2>2 DEF Path, Reads, Copies
  <2>6. Becomes(c, y)
    BY <1>1, <1>6, <2>1 DEF GuestFinishes
  <2>7. QED
    BY <1>1, <1>2, <2>2, <2>3, <2>4, <2>5, <2>6, StreamGoesOn
<1>7. CASE x.vsock # "open"
  <2>1. PICK y : y = [x EXCEPT !.prog = "done"]
    OBVIOUS
  <2>2. /\ y \in StreamRec /\ y.sess = x.sess /\ y.prog = "done" /\ y.tc = x.tc /\ y.ta = x.ta
        /\ y.emitted = x.emitted /\ y.end = x.end /\ y.down = x.down /\ y.wire = x.wire
    BY <1>3, <2>1 DEF StreamRec
  <2>3. Claims(y) /\ (Recorded(x) => Recorded(y)) /\ CodeAt(y, exited[y.sess], torn)
    BY <1>2, <1>3, <2>2 DEF Claims, Recorded, CodeAt
  <2>4. y.sess \notin blurred' => Path(y)
    BY <1>2, <1>4, <1>7, <2>2
  <2>5. Becomes(c, y)
    BY <1>1, <1>7, <2>1 DEF GuestFinishes
  <2>6. QED
    BY <1>1, <1>2, <2>2, <2>3, <2>4, <2>5, StreamGoesOn
<1>8. QED
  BY <1>6, <1>7

\* The first frame is taken off.
LEMMA DownTail ==
    ASSUME NEW d \in Seq(Frames), d # <<>>
    PROVE  /\ Head(d) = d[1] /\ Head(d) \in Frames /\ Len(d) \in Nat /\ Len(d) > 0
           /\ Tail(d) \in Seq(Frames) /\ Len(Tail(d)) = Len(d) - 1
           /\ \A k \in 1 .. Len(d) - 1 : Tail(d)[k] = d[k + 1]
           /\ \A g : Has(Tail(d), g) => Has(d, g)
           /\ Has(d, Head(d))
<1>1. Len(d) \in Nat /\ Len(d) > 0
  OBVIOUS
<1>2. Head(d) = d[1] /\ Tail(d) \in Seq(Frames) /\ Len(Tail(d)) = Len(d) - 1
  BY <1>1
<1>3. \A k \in 1 .. Len(d) - 1 : Tail(d)[k] = d[k + 1]
  BY <1>1
<1>4. d[1] \in Frames
  BY <1>1, ElementOfSeq
<1>5. PICK n, t : n \in Nat /\ n = Len(d) /\ t = Tail(d)
  BY <1>1
<1>6. ASSUME NEW g, Has(t, g) PROVE Has(d, g)
  <2>1. PICK k \in 1 .. n - 1 : t[k] = g
    BY <1>2, <1>5, <1>6 DEF Has
  <2>2. k + 1 \in 1 .. n /\ d[k + 1] = g
    BY <1>3, <1>5, <2>1
  <2>3. QED
    BY <1>5, <2>2 DEF Has
<1>7. Has(d, d[1])
  BY <1>1 DEF Has
<1>8. QED
  BY <1>1, <1>2, <1>3, <1>4, <1>5, <1>6, <1>7

\* The code on its way comes one frame nearer, or arrives.
LEMMA CodeComes ==
    ASSUME NEW x \in StreamRec, NEW y \in StreamRec, x.tc = "copy", x.down # <<>>, Delivers(x),
           y.down = Tail(x.down),
           y.end = IF x.down[1] # "out" THEN x.down[1] ELSE x.end,
           y.tc = IF x.down[1] = "out" THEN "copy" ELSE "emit",
           y.gw = x.gw, y.reader = x.reader, y.ws = x.ws, y.tcp = x.tcp, y.ta = x.ta,
           y.exitSent = x.exitSent, y.prog = x.prog
    PROVE  Delivers(y)
<1>1. OnItsWay(x)
  BY DEF Delivers, Arrived
<1>2. PICK d \in Seq(Frames), t \in Seq(Frames), n \in Nat :
        /\ d = x.down /\ t = y.down /\ n = Len(d) /\ n > 0 /\ Len(t) = n - 1
        /\ \A k \in 1 .. n - 1 : t[k] = d[k + 1]
  <2>1. x.down \in Seq(Frames)
    BY DEF StreamRec
  <2>2. QED
    BY <2>1, DownTail
<1>3. d[n] = Ok /\ \A k \in 1 .. n - 1 : d[k] = "out"
  BY <1>1, <1>2 DEF OnItsWay, EndsIn
<1>4. CASE n = 1
  <2>1. y.end = Ok /\ y.tc = "emit" /\ y.ta = "copy"
    BY <1>1, <1>2, <1>3, <1>4 DEF OnItsWay, Ok
  <2>2. QED
    BY <2>1 DEF Delivers, Arrived
<1>5. CASE n > 1
  <2>1. d[1] = "out"
    BY <1>2, <1>3, <1>5
  <2>2. Len(t) = n - 1 /\ n - 1 > 0 /\ t[n - 1] = Ok
    BY <1>2, <1>3, <1>5
  <2>3. \A k \in 1 .. (n - 1) - 1 : t[k] = "out"
    BY <1>2, <1>3, <1>5
  <2>4. OnItsWay(y)
    BY <1>1, <1>2, <2>1, <2>2, <2>3 DEF OnItsWay, EndsIn
  <2>5. QED
    BY <2>4 DEF Delivers
<1>6. n = 1 \/ n > 1
  <2>1. n > 0
    BY <1>2
  <2>2. QED
    BY <2>1
<1>7. QED
  BY <1>4, <1>5, <1>6

LEMMA CopyToClientStep ==
    ASSUME ExecInv, NEW c \in Clients, CopyToClient(c)
    PROVE  ExecInv'
<1>1. PICK x : x = conns[c]
  OBVIOUS
<1>2. /\ Streaming(c) /\ x.tc = "copy"
      /\ UNCHANGED <<elog, esess, tokens, records, exited, blurred, torn>>
  BY <1>1 DEF CopyToClient, evars, svars
<1>3. /\ x \in StreamRec /\ Claims(x) /\ CodeAt(x, exited[x.sess], torn)
      /\ x.sess \notin blurred => Path(x)
  BY <1>1, <1>2, StreamFacts
<1>4. ASSUME x.down # <<>>,
             Becomes(c, [(IF Head(x.down) = "out" THEN x ELSE SetEnd(x, Head(x.down))) EXCEPT
                           !.down = Tail(@),
                           !.tc = IF Head(x.down) = "out" /\ x.ws = "open" THEN "copy" ELSE "emit"])
      PROVE  ExecInv'
  <2>1. PICK d \in Seq(Frames), t \in Seq(Frames), n \in Nat, f \in Frames :
          /\ d = x.down /\ t = Tail(x.down) /\ n = Len(d) /\ n > 0 /\ Len(t) = n - 1
          /\ f = Head(x.down) /\ f = d[1]
          /\ \A k \in 1 .. n - 1 : t[k] = d[k + 1]
          /\ \A g : Has(t, g) => Has(d, g)
          /\ Has(d, f)
    <3>1. x.down \in Seq(Frames)
      BY <1>3 DEF StreamRec
    <3>2. QED
      BY <1>4, <3>1, DownTail
  <2>2. PICK y0 : y0 = IF f = "out" THEN x ELSE SetEnd(x, f)
    OBVIOUS
  <2>3. /\ y0 \in StreamRec /\ y0.sess = x.sess /\ y0.prog = x.prog /\ y0.tc = x.tc /\ y0.ta = x.ta
        /\ y0.emitted = x.emitted /\ y0.down = d /\ y0.wire = x.wire
        /\ y0.gw = x.gw /\ y0.reader = x.reader /\ y0.vsock = x.vsock /\ y0.ws = x.ws /\ y0.tcp = x.tcp
        /\ y0.exitSent = x.exitSent
        /\ y0.end = IF f # "out" /\ x.end = "unset" THEN f ELSE x.end
    <3>1. CASE f = "out" \/ x.end # "unset"
      BY <1>3, <2>1, <2>2, <3>1 DEF SetEnd
    <3>2. CASE f # "out" /\ x.end = "unset"
      <4>1. y0 = [x EXCEPT !.end = f]
        BY <2>2, <3>2 DEF SetEnd
      <4>2. f \in {Ok, Code128, Codeless, Wrong}
        BY <3>2 DEF Frames
      <4>3. QED
        BY <1>3, <2>1, <3>2, <4>1, <4>2 DEF StreamRec
    <3>3. QED
      BY <3>1, <3>2
  <2>4. PICK e \in {"copy", "emit"} : e = IF f = "out" /\ x.ws = "open" THEN "copy" ELSE "emit"
    OBVIOUS
  <2>5. PICK y : y = [y0 EXCEPT !.down = t, !.tc = e]
    OBVIOUS
  <2>6. /\ y \in StreamRec /\ y.sess = x.sess /\ y.prog = x.prog /\ y.tc = e /\ y.ta = x.ta
        /\ y.emitted = x.emitted /\ y.down = t /\ y.wire = x.wire
        /\ y.gw = x.gw /\ y.reader = x.reader /\ y.vsock = x.vsock /\ y.ws = x.ws /\ y.tcp = x.tcp
        /\ y.exitSent = x.exitSent
        /\ y.end = IF f # "out" /\ x.end = "unset" THEN f ELSE x.end
    <3>1. e \in Tasks
      BY <2>4 DEF Tasks
    <3>2. QED
      BY <2>3, <2>5, <3>1 DEF StreamRec
  <2>7. Claims(y) /\ (Recorded(x) => Recorded(y))
    BY <1>2, <1>3, <2>4, <2>6 DEF Claims, Recorded
  <2>8. CodeAt(y, exited[y.sess], torn)
    <3>1. /\ y.end = Ok => x.end = Ok \/ Has(d, Ok)
          /\ y.end = Wrong => x.end = Wrong \/ Has(d, Wrong)
      BY <2>1, <2>6
    <3>2. QED
      BY <1>3, <2>1, <2>6, <3>1 DEF CodeAt
  <2>9. ASSUME y.sess \notin blurred' PROVE Path(y)
    <3>1. Path(x)
      BY <1>2, <1>3, <2>6, <2>9
    <3>2. CASE NoGuest(x) /\ x.prog = "none"
      BY <2>6, <3>2 DEF Path, NoGuest
    <3>3. CASE Reads(x) /\ x.prog \notin {"failed", "alone"} /\ Copies(x)
      <4>1. f = "out" /\ e = "copy"
        BY <2>1, <2>4, <3>3 DEF Copies, AllOut
      <4>2. AllOut(t)
        BY <2>1, <3>3 DEF Copies, AllOut
      <4>3. Copies(y) /\ Reads(y)
        BY <2>6, <3>3, <4>1, <4>2 DEF Copies, Reads
      <4>4. QED
        BY <2>6, <3>3, <4>3 DEF Path
    <3>4. CASE Delivers(x)
      <4>1. x.end = "unset" /\ x.ws = "open"
        BY <1>2, <3>4 DEF Delivers, OnItsWay, Arrived
      <4>2. /\ y.end = IF x.down[1] # "out" THEN x.down[1] ELSE x.end
            /\ y.tc = IF x.down[1] = "out" THEN "copy" ELSE "emit"
            /\ y.down = Tail(x.down)
        BY <2>1, <2>4, <2>6, <4>1
      <4>3. Delivers(y)
        BY <1>2, <1>3, <1>4, <2>6, <3>4, <4>2, CodeComes
      <4>4. QED
        BY <4>3 DEF Path
    <3>5. QED
      BY <1>4, <3>1, <3>2, <3>3, <3>4 DEF Path
  <2>10. Becomes(c, y)
    <3>1. y = [y0 EXCEPT !.down = Tail(@), !.tc = e]
      BY <2>1, <2>3, <2>5
    <3>2. QED
      BY <1>4, <2>1, <2>2, <2>4, <3>1
  <2>11. QED
    BY <1>1, <1>2, <2>6, <2>7, <2>8, <2>9, <2>10, StreamGoesOn
<1>5. ASSUME x.down = <<>>, x.tcp = "shut",
             Becomes(c, [SetEnd(x, Codeless) EXCEPT !.tc = "emit"])
      PROVE  ExecInv'
  <2>1. PICK y : y = [SetEnd(x, Codeless) EXCEPT !.tc = "emit"]
    OBVIOUS
  <2>2. /\ y \in StreamRec /\ y.sess = x.sess /\ y.prog = x.prog /\ y.tc = "emit" /\ y.ta = x.ta
        /\ y.emitted = x.emitted /\ y.down = x.down /\ y.wire = x.wire
        /\ y.gw = x.gw /\ y.reader = x.reader /\ y.vsock = x.vsock
        /\ y.end \in {x.end, Codeless}
    <3>1. CASE x.end = "unset"
      <4>1. y = [x EXCEPT !.end = Codeless, !.tc = "emit"]
        BY <1>3, <2>1, <3>1 DEF SetEnd, StreamRec
      <4>2. QED
        BY <1>3, <4>1 DEF StreamRec, Tasks
    <3>2. CASE x.end # "unset"
      BY <1>3, <2>1, <3>2 DEF SetEnd, StreamRec, Tasks
    <3>3. QED
      BY <3>1, <3>2
  <2>3. Claims(y) /\ (Recorded(x) => Recorded(y)) /\ CodeAt(y, exited[y.sess], torn)
    BY <1>2, <1>3, <2>2 DEF Claims, Recorded, CodeAt, Codeless, Ok, Wrong
  <2>4. y.sess \notin blurred => NoGuest(x) /\ x.prog = "none"
    <3>1. Len(x.down) = 0
      BY <1>5
    <3>2. QED
      BY <1>2, <1>3, <1>5, <2>2, <3>1 DEF Path, Copies, Delivers, OnItsWay, Arrived, EndsIn
  <2>5. y.sess \notin blurred' => Path(y)
    BY <1>2, <2>2, <2>4 DEF Path, NoGuest
  <2>6. QED
    BY <1>1, <1>2, <1>5, <2>1, <2>2, <2>3, <2>5, StreamGoesOn
<1>6. QED
  BY <1>1, <1>4, <1>5 DEF CopyToClient

\* A task that is through with copying goes on to record the end, or is over.
LEMMA TaskMoves ==
    ASSUME NEW x \in StreamRec, NEW y \in StreamRec, NEW e, CodeAt(x, e, torn),
           \/ x.tc \in {"emit", "claimed"} /\ y.tc \in {"claimed", "off"} /\ y.ta = x.ta
           \/ x.ta \in {"emit", "claimed"} /\ y.ta \in {"claimed", "off"} /\ y.tc = x.tc,
           y.prog = x.prog, y.end = x.end, y.down = x.down, y.wire = x.wire, y.gw = x.gw,
           y.reader = x.reader, y.vsock = x.vsock, y.ws = x.ws, y.tcp = x.tcp,
           y.exitSent = x.exitSent, y.sess = x.sess
    PROVE  CodeAt(y, e, torn) /\ (Path(x) => Path(y))
<1>1. CodeAt(y, e, torn)
  BY DEF CodeAt
<1>2. ASSUME Path(x) PROVE Path(y)
  <2>1. CASE NoGuest(x) /\ x.prog = "none"
    BY <2>1 DEF Path, NoGuest
  <2>2. CASE Delivers(x)
    <3>1. Arrived(x)
      BY <2>2 DEF Delivers, OnItsWay
    <3>2. Arrived(y)
      BY <3>1 DEF Arrived
    <3>3. QED
      BY <2>2, <3>2 DEF Delivers, Path
  <2>3. QED
    BY <1>2, <2>1, <2>2 DEF Path, Copies
<1>3. QED
  BY <1>1, <1>2

LEMMA ClaimEndStep ==
    ASSUME ExecInv, NEW c \in Clients, ClaimEnd(c)
    PROVE  ExecInv'
<1>1. PICK x : x = conns[c]
  OBVIOUS
<1>2. Streaming(c) /\ UNCHANGED <<elog, esess, tokens, records, exited, blurred, torn>>
  BY <1>1 DEF ClaimEnd, evars, svars
<1>3. /\ x \in StreamRec /\ Claims(x) /\ CodeAt(x, exited[x.sess], torn)
      /\ x.sess \notin blurred => Path(x)
  BY <1>1, <1>2, StreamFacts
<1>4. PICK task \in {"tc", "ta"} : x[task] = "emit" /\ Becomes(c, Claim(x, task))
  BY <1>1 DEF ClaimEnd
<1>5. PICK y : y = Claim(x, task)
  OBVIOUS
<1>6. /\ y \in StreamRec /\ y.sess = x.sess /\ y.prog = x.prog /\ y.end = x.end /\ y.down = x.down
      /\ y.wire = x.wire /\ y.gw = x.gw /\ y.reader = x.reader /\ y.vsock = x.vsock /\ y.ws = x.ws
      /\ y.tcp = x.tcp /\ y.exitSent = x.exitSent /\ y.emitted
      /\ \/ x.tc = "emit" /\ y.tc = (IF x.emitted THEN "off" ELSE "claimed") /\ y.ta = x.ta
         \/ x.ta = "emit" /\ y.ta = (IF x.emitted THEN "off" ELSE "claimed") /\ y.tc = x.tc
  <2>1. CASE task = "tc"
    BY <1>3, <1>4, <1>5, <2>1 DEF Claim, StreamRec, Tasks
  <2>2. CASE task = "ta"
    BY <1>3, <1>4, <1>5, <2>2 DEF Claim, StreamRec, Tasks
  <2>3. QED
    BY <2>1, <2>2
<1>7. Claims(y) /\ (Recorded(x) => Recorded(y))
  BY <1>3, <1>6 DEF Claims, Recorded
<1>8. CodeAt(y, exited[y.sess], torn) /\ (Path(x) => Path(y))
  <2>1. \/ x.tc \in {"emit", "claimed"} /\ y.tc \in {"claimed", "off"} /\ y.ta = x.ta
        \/ x.ta \in {"emit", "claimed"} /\ y.ta \in {"claimed", "off"} /\ y.tc = x.tc
    BY <1>6
  <2>2. QED
    BY <1>3, <1>6, <2>1, TaskMoves
<1>9. QED
  BY <1>1, <1>2, <1>3, <1>4, <1>5, <1>6, <1>7, <1>8, StreamGoesOn

LEMMA ClientLeavesStep ==
    ASSUME ExecInv, NEW c \in Clients, ClientLeaves(c)
    PROVE  ExecInv'
<1>1. PICK x : x = conns[c]
  OBVIOUS
<1>2. /\ Streaming(c) /\ x.ta = "copy" /\ Blur(c)
      /\ UNCHANGED <<elog, esess, tokens, records, exited, torn>>
  BY <1>1 DEF ClientLeaves, evars
<1>3. x \in StreamRec /\ Claims(x) /\ CodeAt(x, exited[x.sess], torn)
  BY <1>1, <1>2, StreamFacts
<1>4. PICK told \in BOOLEAN :
        Becomes(c, [(IF told THEN SetEnd(x, Codeless) ELSE x) EXCEPT !.ws = "shut", !.ta = "emit"])
  BY <1>1 DEF ClientLeaves
<1>5. PICK y : y = [(IF told THEN SetEnd(x, Codeless) ELSE x) EXCEPT !.ws = "shut", !.ta = "emit"]
  OBVIOUS
<1>6. /\ y \in StreamRec /\ y.sess = x.sess /\ y.prog = x.prog /\ y.tc = x.tc /\ y.ta = "emit"
      /\ y.emitted = x.emitted /\ y.down = x.down /\ y.wire = x.wire
      /\ y.end \in {x.end, Codeless}
  <2>1. CASE told /\ x.end = "unset"
    <3>1. y = [x EXCEPT !.end = Codeless, !.ws = "shut", !.ta = "emit"]
      BY <1>3, <1>5, <2>1 DEF SetEnd, StreamRec
    <3>2. QED
      BY <1>3, <3>1 DEF StreamRec, Tasks
  <2>2. CASE ~(told /\ x.end = "unset")
    <3>1. y = [x EXCEPT !.ws = "shut", !.ta = "emit"]
      BY <1>5, <2>2 DEF SetEnd
    <3>2. QED
      BY <1>3, <3>1 DEF StreamRec, Tasks
  <2>3. QED
    BY <2>1, <2>2
<1>7. Claims(y) /\ (Recorded(x) => Recorded(y)) /\ CodeAt(y, exited[y.sess], torn)
  BY <1>2, <1>3, <1>6 DEF Claims, Recorded, CodeAt, Codeless, Ok, Wrong
<1>8. blurred \subseteq blurred' /\ y.sess \in blurred'
  BY <1>1, <1>2, <1>6 DEF Blur
<1>9. QED
  BY <1>1, <1>2, <1>4, <1>5, <1>6, <1>7, <1>8, StreamGoesOn

LEMMA ClientSendsStep ==
    ASSUME ExecInv, NEW c \in Clients, ClientSends(c)
    PROVE  ExecInv'
<1>1. PICK x : x = conns[c]
  OBVIOUS
<1>2. /\ Streaming(c) /\ x.ta = "copy" /\ Blur(c)
      /\ UNCHANGED <<elog, esess, tokens, records, exited, torn>>
  BY <1>1 DEF ClientSends, evars
<1>3. x \in StreamRec /\ Claims(x) /\ CodeAt(x, exited[x.sess], torn)
  BY <1>1, <1>2, StreamFacts
<1>4. PICK y : y \in {[x EXCEPT !.down = <<>>], [x EXCEPT !.ta = "emit"]} /\ Becomes(c, y)
  BY <1>1 DEF ClientSends
<1>5. /\ y \in StreamRec /\ y.sess = x.sess /\ y.prog = x.prog /\ y.tc = x.tc
      /\ y.ta \in {"copy", "emit"} /\ y.emitted = x.emitted /\ y.wire = x.wire
      /\ y.end = x.end /\ (y.down = x.down \/ y.down = <<>>)
  <2>1. <<>> \in Seq(Frames) /\ Len(<<>>) = 0
    OBVIOUS
  <2>2. PICK m : m = <<>>
    OBVIOUS
  <2>3. CASE y = [x EXCEPT !.down = m]
    <3>1. y \in StreamRec /\ y.down = m
      BY <1>3, <2>1, <2>2, <2>3 DEF StreamRec
    <3>2. QED
      BY <1>2, <1>3, <2>1, <2>2, <2>3, <3>1 DEF StreamRec
  <2>4. CASE y = [x EXCEPT !.ta = "emit"]
    BY <1>3, <2>4 DEF StreamRec, Tasks
  <2>5. QED
    BY <1>4, <2>2, <2>3, <2>4
<1>6. Claims(y) /\ (Recorded(x) => Recorded(y))
  BY <1>2, <1>3, <1>5 DEF Claims, Recorded
<1>7. CodeAt(y, exited[y.sess], torn)
  <2>1. \A g : Has(y.down, g) => Has(x.down, g)
    BY <1>5, HasFew
  <2>2. QED
    BY <1>3, <1>5, <2>1 DEF CodeAt
<1>8. blurred \subseteq blurred' /\ y.sess \in blurred'
  BY <1>1, <1>2, <1>5 DEF Blur
<1>9. QED
  BY <1>1, <1>2, <1>4, <1>5, <1>6, <1>7, <1>8, StreamGoesOn

LEMMA ClientDoneStep ==
    ASSUME ExecInv, NEW c \in Clients, ClientDone(c)
    PROVE  ExecInv'
<1>1. PICK x : x = conns[c]
  OBVIOUS
<1>2. /\ Streaming(c) /\ x.ta = "copy" /\ x.tc = "off"
      /\ UNCHANGED <<elog, esess, tokens, records, exited, blurred, torn>>
  BY <1>1 DEF ClientDone, evars, svars
<1>3. /\ x \in StreamRec /\ Claims(x) /\ CodeAt(x, exited[x.sess], torn)
      /\ x.sess \notin blurred => Path(x)
  BY <1>1, <1>2, StreamFacts
<1>4. PICK y : y = [x EXCEPT !.ws = "shut", !.ta = "emit"]
  OBVIOUS
<1>5. /\ y \in StreamRec /\ y.sess = x.sess /\ y.prog = x.prog /\ y.tc = x.tc /\ y.ta = "emit"
      /\ y.emitted = x.emitted /\ y.down = x.down /\ y.wire = x.wire /\ y.end = x.end
      /\ y.gw = x.gw /\ y.reader = x.reader /\ y.vsock = x.vsock /\ y.tcp = x.tcp
      /\ y.exitSent = x.exitSent
  BY <1>3, <1>4 DEF StreamRec, Tasks
<1>6. Claims(y) /\ (Recorded(x) => Recorded(y)) /\ CodeAt(y, exited[y.sess], torn)
  BY <1>2, <1>3, <1>5 DEF Claims, Recorded, CodeAt
<1>7. y.sess \notin blurred' => Path(y)
  <2>1. Path(x) => (NoGuest(x) /\ x.prog = "none") \/ (Delivers(x) /\ Arrived(x))
    BY <1>2 DEF Path, Copies, Delivers, OnItsWay
  <2>2. NoGuest(x) => NoGuest(y)
    BY <1>5 DEF NoGuest
  <2>3. Arrived(x) => Arrived(y)
    BY <1>2, <1>5 DEF Arrived
  <2>4. Delivers(x) /\ Arrived(x) => Delivers(y)
    BY <1>5, <2>3 DEF Delivers
  <2>5. QED
    BY <1>2, <1>3, <1>5, <2>1, <2>2, <2>4 DEF Path
<1>8. Becomes(c, y)
  BY <1>1, <1>4 DEF ClientDone
<1>9. QED
  BY <1>1, <1>2, <1>5, <1>6, <1>7, <1>8, StreamGoesOn

----------------------------------------------------------------------------
(* Steps of the holder of a session that may append to its events.         *)

\* The holder c of session s becomes y, which copies frames or is done.
LEMMA HolderMoves ==
    ASSUME ExecInv, NEW c \in Clients, NEW s \in Sessions, conns[c].pc \in {"dial", "stream"}, conns[c].sess = s,
           NEW y \in Conn, Becomes(c, y), y.pc \in {"done", "stream"}, y.pc = "stream" => y.sess = s,
           UNCHANGED <<esess, tokens, records, exited, blurred, torn>>,
           elog' \in Seq(ExecEvent), LogTrail', ExitCodeRecorded',
           (\A k \in 1 .. Len(elog) : elog[k].sess <= esess)',
           (\A t \in 1 .. esess :
              \E k \in 1 .. Len(elog) : elog[k].sess = t /\ elog[k].type = "granted")',
           \A t : t # s => (OnlyGranted(t)' <=> OnlyGranted(t)) /\ (NotEnded(t)' <=> NotEnded(t)),
           y.pc = "stream" => /\ Claims(y) /\ (~Recorded(y) => NotEnded(s)')
                              /\ CodeAt(y, exited[s], torn) /\ (s \notin blurred => Path(y))
    PROVE  ExecInv'
<1>1. /\ ExecTypeOK /\ SessionInv /\ TokenInv /\ ClaimInv /\ LogTrail /\ SoleHolder
      /\ CodeInv /\ PathInv /\ ExitCodeRecorded
  BY TrailParts DEF ExecInv
<1>2. /\ conns' \in [Clients -> Conn] /\ conns'[c] = y
      /\ \A d \in Clients : d # c => conns'[d] = conns[d]
  BY <1>1, ConnType
<1>3. ExecTypeOK'
  BY <1>1, <1>2 DEF ExecTypeOK
<1>4. SessionInv'
  BY <1>1, <1>2 DEF SessionInv
<1>5. \A d \in Clients : Holds(d) /\ conns[d].sess = s => d = c
  BY <1>1 DEF SoleHolder, Holds
<1>6. tokens[s] = "consumed"
  BY <1>1 DEF TokenInv, Holds
<1>7. \A d \in Clients : Holds(d)' => Holds(d) /\ conns'[d].sess = conns[d].sess
  BY <1>2 DEF Holds
<1>8. SoleHolder'
  BY <1>1, <1>7 DEF SoleHolder
<1>9. TokenInv'
  <2>1. /\ \A d \in Clients : conns'[d].pc = "store" => tokens[conns'[d].sess] = "none"
        /\ \A d, b \in Clients :
             conns'[d].pc = "store" /\ conns'[b].pc = "store" /\ conns'[d].sess = conns'[b].sess => d = b
    BY <1>1, <1>2 DEF TokenInv
  <2>2. \A t \in Sessions : tokens[t] # "consumed" => OnlyGranted(t)' /\ exited[t] = NoCode
    BY <1>1, <1>6 DEF TokenInv
  <2>3. \A d \in Clients : Holds(d)' => tokens[conns'[d].sess] = "consumed"
    BY <1>1, <1>7 DEF TokenInv
  <2>4. ASSUME NEW d \in Clients, conns'[d].pc \in {"load", "dial"}
        PROVE  OnlyGranted(conns[d].sess)' /\ exited[conns'[d].sess] = NoCode
    <3>1. d # c /\ conns'[d] = conns[d]
      BY <1>2, <2>4
    <3>2. conns[d].sess # s
      BY <1>5, <2>4, <3>1 DEF Holds
    <3>3. OnlyGranted(conns[d].sess) /\ exited[conns[d].sess] = NoCode
      BY <1>1, <2>4, <3>1 DEF TokenInv
    <3>4. PICK t : t = conns[d].sess /\ t = conns'[d].sess
      BY <3>1
    <3>5. OnlyGranted(t)'
      BY <3>2, <3>3, <3>4
    <3>6. QED
      BY <3>3, <3>4, <3>5 DEF OnlyGranted
  <2>5. QED
    BY <2>1, <2>2, <2>3, <2>4 DEF TokenInv
<1>10. ClaimInv'
  <2> SUFFICES ASSUME NEW d \in Clients, conns'[d].pc = "stream"
               PROVE  (Claims(conns[d]) /\ (~Recorded(conns[d]) => NotEnded(conns[d].sess)))'
    BY DEF ClaimInv, Streaming
  <2>1. PICK x, t : x = conns'[d] /\ t = conns'[d].sess
    OBVIOUS
  <2>2. Claims(x) /\ (~Recorded(x) => NotEnded(t)')
    <3>1. CASE d = c
      BY <1>2, <2>1, <3>1
    <3>2. CASE d # c
      <4>1. x = conns[d] /\ t = conns[d].sess /\ conns[d].pc = "stream"
        BY <1>2, <2>1, <3>2
      <4>2. t # s
        BY <1>5, <3>2, <4>1 DEF Holds
      <4>3. Claims(x) /\ (~Recorded(x) => NotEnded(t))
        BY <1>1, <4>1 DEF ClaimInv, Streaming
      <4>4. QED
        BY <4>2, <4>3
    <3>3. QED
      BY <3>1, <3>2
  <2>3. QED
    BY <2>1, <2>2 DEF Claims, Recorded, NotEnded
<1>11. CodeInv'
  <2> SUFFICES ASSUME NEW d \in Clients, conns'[d].pc = "stream"
               PROVE  CodeAt(conns'[d], exited[conns'[d].sess], torn)
    BY DEF CodeInv, CodeAt, Has, Streaming
  <2>1. CASE d = c
    BY <1>2, <2>1
  <2>2. CASE d # c
    BY <1>1, <1>2, <2>2 DEF CodeInv, Streaming
  <2>3. QED
    BY <2>1, <2>2
<1>12. PathInv'
  <2> SUFFICES ASSUME NEW d \in Clients, conns'[d].pc = "stream", conns'[d].sess \notin blurred
               PROVE  Path(conns[d])'
    BY DEF PathInv, Streaming
  <2>1. PICK x : x = conns'[d]
    OBVIOUS
  <2>2. Path(x)
    <3>1. CASE d = c
      BY <1>2, <2>1, <3>1
    <3>2. CASE d # c
      BY <1>1, <1>2, <2>1, <3>2 DEF PathInv, Streaming
    <3>3. QED
      BY <3>1, <3>2
  <2>3. QED
    BY <2>1, <2>2 DEF Path, NotBegun, NoGuest, Reads, Copies, Delivers, OnItsWay, Arrived, AllOut, EndsIn
<1>13. QED
  BY <1>3, <1>4, <1>8, <1>9, <1>10, <1>11, <1>12, TrailParts DEF ExecInv

\* What a step of the holder appends: a connection, or an end with the right code.
LEMMA HolderAppends ==
    ASSUME ExecInv, NEW s \in Sessions, s <= esess, NEW ev \in ExecEvent, ev.sess = s,
           elog' = Append(elog, ev), ev.type # "granted",
           ev.type = "connected" => OnlyGranted(s), ev.type = "ended" => NotEnded(s),
           RightCode(ev), UNCHANGED <<esess, exited, blurred, torn>>
    PROVE  /\ elog' \in Seq(ExecEvent) /\ LogTrail' /\ ExitCodeRecorded'
           /\ (\A k \in 1 .. Len(elog) : elog[k].sess <= esess)'
           /\ (\A t \in 1 .. esess :
                 \E k \in 1 .. Len(elog) : elog[k].sess = t /\ elog[k].type = "granted")'
           /\ \A t : t # s => (OnlyGranted(t)' <=> OnlyGranted(t)) /\ (NotEnded(t)' <=> NotEnded(t))
<1>1. ExecTypeOK /\ SessionInv /\ LogTrail /\ ExitCodeRecorded
  BY TrailParts DEF ExecInv
<1>2. esess \in Nat /\ s \in 1 .. esess
  BY <1>1, ExecAssumption DEF ExecTypeOK, Sessions
<1>3. \E k \in 1 .. Len(elog) : elog[k].sess = s /\ elog[k].type = "granted"
  BY <1>1, <1>2 DEF SessionInv
<1>4. LogTrail'
  BY <1>1, <1>3, TrailGrows
<1>5. ExitCodeRecorded'
  BY <1>1, CodesGrow
<1>6. /\ (\A k \in 1 .. Len(elog) : elog[k].sess <= esess)'
      /\ (\A t \in 1 .. esess :
            \E k \in 1 .. Len(elog) : elog[k].sess = t /\ elog[k].type = "granted")'
  <2>1. /\ esess' \in Nat /\ esess <= esess' /\ ev.sess <= esess'
        /\ \A t \in 1 .. esess' : t \in 1 .. esess \/ (t = ev.sess /\ ev.type = "granted")
    BY <1>2
  <2>2. QED
    BY <1>1, <2>1, SessionsGrow
<1>7. \A t : t # s => (OnlyGranted(t)' <=> OnlyGranted(t)) /\ (NotEnded(t)' <=> NotEnded(t))
  BY <1>1, OtherSession
<1>8. elog' \in Seq(ExecEvent)
  BY <1>1, ElogAppend
<1>9. QED
  BY <1>4, <1>5, <1>6, <1>7, <1>8

\* When the holder appends nothing, the log is as it was.
LEMMA HolderSilent ==
    ASSUME ExecInv, UNCHANGED <<elog, esess, exited, blurred, torn>>
    PROVE  /\ elog' \in Seq(ExecEvent) /\ LogTrail' /\ ExitCodeRecorded'
           /\ (\A k \in 1 .. Len(elog) : elog[k].sess <= esess)'
           /\ (\A t \in 1 .. esess :
                 \E k \in 1 .. Len(elog) : elog[k].sess = t /\ elog[k].type = "granted")'
           /\ \A t : (OnlyGranted(t)' <=> OnlyGranted(t)) /\ (NotEnded(t)' <=> NotEnded(t))
<1>1. ExecTypeOK /\ SessionInv /\ LogTrail /\ ExitCodeRecorded
  BY TrailParts DEF ExecInv
<1>2. LogTrail'
  BY <1>1 DEF LogTrail, Before
<1>3. ExitCodeRecorded'
  BY <1>1 DEF ExitCodeRecorded
<1>4. /\ (\A k \in 1 .. Len(elog) : elog[k].sess <= esess)'
      /\ (\A t \in 1 .. esess :
            \E k \in 1 .. Len(elog) : elog[k].sess = t /\ elog[k].type = "granted")'
  BY <1>1 DEF SessionInv
<1>5. QED
  BY <1>1, <1>2, <1>3, <1>4 DEF ExecTypeOK, OnlyGranted, NotEnded

\* What the invariant says of a client that is about to dial.
LEMMA DialFacts ==
    ASSUME ExecInv, NEW c \in Clients, conns[c].pc = "dial"
    PROVE  /\ conns[c].sess \in Sessions /\ conns[c].sess <= esess
           /\ OnlyGranted(conns[c].sess) /\ NotEnded(conns[c].sess) /\ exited[conns[c].sess] = NoCode
<1>1. conns[c] \in Conn
  BY DEF ExecInv, ExecTypeOK
<1>2. conns[c].sess \in Sessions
  BY <1>1, ConnFacts
<1>3. OnlyGranted(conns[c].sess) /\ exited[conns[c].sess] = NoCode /\ conns[c].sess <= esess
  BY DEF ExecInv, TokenInv, SessionInv
<1>4. NotEnded(conns[c].sess)
  BY <1>3 DEF OnlyGranted, NotEnded
<1>5. QED
  BY <1>2, <1>3, <1>4

\* A connection begins to copy frames.
LEMMA StreamBegins ==
    ASSUME NEW x, x.sess \in Sessions, NEW tty \in BOOLEAN, NEW y, y = Stream(x, tty)
    PROVE  /\ y \in StreamRec /\ y \in Conn /\ y.pc = "stream" /\ y.sess = x.sess
           /\ Claims(y) /\ CodeAt(y, NoCode, torn) /\ Path(y)
<1>2. <<>> \in Seq(Frames) /\ <<>> \in Seq(WireFrames) /\ Len(<<>>) = 0
  OBVIOUS
<1>3. PICK m : m = <<>>
  OBVIOUS
<1>4. y = [pc |-> "stream", sess |-> x.sess, ws |-> "open", tc |-> "copy", ta |-> "copy",
           end |-> "unset", emitted |-> FALSE,
           gw |-> "init", reader |-> "off", exitSent |-> FALSE, down |-> m, tcp |-> "open",
           vsock |-> "none", wire |-> m, tty |-> tty, prog |-> "none"]
  BY <1>3 DEF Stream
<1>5. m \in Seq(Frames) /\ m \in Seq(WireFrames) /\ AllOut(m) /\ \A g : ~Has(m, g)
  BY <1>2, <1>3, HasFew
<1>6. y \in StreamRec
  BY <1>4, <1>5 DEF StreamRec, Tasks
<1>7. Claims(y) /\ CodeAt(y, NoCode, torn)
  BY <1>4, <1>5 DEF Claims, CodeAt, NoCode, Ok, Wrong
<1>8. Copies(y)
  BY <1>4, <1>5 DEF Copies
<1>9. Path(y)
  BY <1>3, <1>4, <1>5, <1>8 DEF Path, NotBegun
<1>10. QED
  BY <1>4, <1>6, <1>7, <1>9 DEF Conn

LEMMA OpenStreamStep ==
    ASSUME ExecInv, NEW c \in Clients, OpenStream(c)
    PROVE  ExecInv'
<1>1. PICK x, s : x = conns[c] /\ s = x.sess
  OBVIOUS
<1>2. x.pc = "dial" /\ UNCHANGED <<esess, tokens, records, exited, blurred, torn>>
  BY <1>1 DEF OpenStream, svars
<1>3. s \in Sessions /\ s <= esess /\ OnlyGranted(s) /\ NotEnded(s) /\ exited[s] = NoCode
  BY <1>1, <1>2, DialFacts
<1>4. PICK tty, y : tty \in BOOLEAN /\ y = Stream(x, tty) /\ Becomes(c, y)
  BY <1>1 DEF OpenStream
<1>5. /\ y \in Conn /\ y.pc = "stream" /\ y.sess = s /\ Claims(y) /\ CodeAt(y, exited[s], torn) /\ Path(y)
  BY <1>1, <1>3, <1>4, StreamBegins
<1>6. Becomes(c, y)
  BY <1>4
<1>7. CASE elog' = Append(elog, Event("connected", s, NoCode))
  <2>1. PICK ev : ev = Event("connected", s, NoCode)
    OBVIOUS
  <2>2. ev \in ExecEvent /\ ev.sess = s /\ ev.type = "connected"
    BY <1>3, <2>1 DEF Event, ExecEvent
  <2>3. RightCode(ev)
    BY <2>2 DEF RightCode
  <2>4. /\ elog' \in Seq(ExecEvent) /\ LogTrail' /\ ExitCodeRecorded'
        /\ (\A k \in 1 .. Len(elog) : elog[k].sess <= esess)'
        /\ (\A t \in 1 .. esess :
              \E k \in 1 .. Len(elog) : elog[k].sess = t /\ elog[k].type = "granted")'
        /\ \A t : t # s => (OnlyGranted(t)' <=> OnlyGranted(t)) /\ (NotEnded(t)' <=> NotEnded(t))
    BY <1>2, <1>3, <1>7, <2>1, <2>2, <2>3, HolderAppends
  <2>5. NotEnded(s)'
    <3>1. ExecTypeOK
      BY DEF ExecInv
    <3>2. QED
      BY <1>3, <1>7, <2>1, <2>2, <3>1, SameSession
  <2>6. QED
    BY <1>1, <1>2, <1>3, <1>5, <1>6, <2>4, <2>5, HolderMoves
<1>8. CASE elog' = elog
  <2>1. /\ elog' \in Seq(ExecEvent) /\ LogTrail' /\ ExitCodeRecorded'
        /\ (\A k \in 1 .. Len(elog) : elog[k].sess <= esess)'
        /\ (\A t \in 1 .. esess :
              \E k \in 1 .. Len(elog) : elog[k].sess = t /\ elog[k].type = "granted")'
        /\ \A t : (OnlyGranted(t)' <=> OnlyGranted(t)) /\ (NotEnded(t)' <=> NotEnded(t))
    BY <1>2, <1>8, HolderSilent
  <2>2. NotEnded(s)'
    BY <1>3, <2>1
  <2>3. QED
    BY <1>1, <1>2, <1>3, <1>5, <1>6, <2>1, <2>2, HolderMoves
<1>9. QED
  BY <1>1, <1>7, <1>8 DEF OpenStream

LEMMA DialFailsStep ==
    ASSUME ExecInv, NEW c \in Clients, DialFails(c), UNCHANGED svars
    PROVE  ExecInv'
<1>1. PICK x, s : x = conns[c] /\ s = x.sess
  OBVIOUS
<1>2. x.pc = "dial" /\ UNCHANGED <<esess, tokens, records, exited, blurred, torn>>
  BY <1>1 DEF DialFails, svars
<1>3. s \in Sessions /\ s <= esess /\ OnlyGranted(s) /\ NotEnded(s) /\ exited[s] = NoCode
  BY <1>1, <1>2, DialFacts
<1>4. PICK ev : ev = Event("ended", s, NoCode) /\ elog' = Append(elog, ev)
  BY <1>1 DEF DialFails
<1>5. ev \in ExecEvent /\ ev.sess = s /\ ev.type = "ended" /\ ev.code = NoCode
  BY <1>3, <1>4 DEF Event, ExecEvent
<1>6. RightCode(ev)
  BY <1>3, <1>5 DEF RightCode
<1>7. /\ elog' \in Seq(ExecEvent) /\ LogTrail' /\ ExitCodeRecorded'
      /\ (\A k \in 1 .. Len(elog) : elog[k].sess <= esess)'
      /\ (\A t \in 1 .. esess :
            \E k \in 1 .. Len(elog) : elog[k].sess = t /\ elog[k].type = "granted")'
      /\ \A t : t # s => (OnlyGranted(t)' <=> OnlyGranted(t)) /\ (NotEnded(t)' <=> NotEnded(t))
  BY <1>2, <1>3, <1>4, <1>5, <1>6, HolderAppends
<1>8. Becomes(c, Done) /\ Done \in Conn /\ Done.pc = "done"
  BY DoneType DEF DialFails
<1>9. QED
  BY <1>1, <1>2, <1>3, <1>7, <1>8, HolderMoves

LEMMA EmitEndStep ==
    ASSUME ExecInv, NEW c \in Clients, EmitEnd(c)
    PROVE  ExecInv'
<1>1. PICK x, s, code : /\ x = conns[c] /\ s = x.sess
                        /\ code = IF x.end \in {"unset", Codeless} THEN NoCode ELSE x.end
  OBVIOUS
<1>2. Streaming(c) /\ UNCHANGED <<esess, tokens, records, exited, blurred, torn>>
  BY <1>1 DEF EmitEnd
<1>3. /\ x \in StreamRec /\ Claims(x) /\ CodeAt(x, exited[s], torn)
      /\ s \notin blurred => Path(x)
  BY <1>1, <1>2, StreamFacts
<1>4. PICK task \in {"tc", "ta"} : x[task] = "claimed" /\ Becomes(c, [x EXCEPT ![task] = "off"])
  BY <1>1 DEF EmitEnd
<1>5. PICK y : y = [x EXCEPT ![task] = "off"]
  OBVIOUS
<1>6. /\ y \in StreamRec /\ y.sess = s /\ y.prog = x.prog /\ y.end = x.end /\ y.down = x.down
      /\ y.wire = x.wire /\ y.gw = x.gw /\ y.reader = x.reader /\ y.vsock = x.vsock /\ y.ws = x.ws
      /\ y.tcp = x.tcp /\ y.exitSent = x.exitSent /\ y.emitted = x.emitted
      /\ \/ x.tc = "claimed" /\ y.tc = "off" /\ y.ta = x.ta
         \/ x.ta = "claimed" /\ y.ta = "off" /\ y.tc = x.tc
  <2>1. CASE task = "tc"
    BY <1>1, <1>3, <1>4, <1>5, <2>1 DEF StreamRec, Tasks
  <2>2. CASE task = "ta"
    BY <1>1, <1>3, <1>4, <1>5, <2>2 DEF StreamRec, Tasks
  <2>3. QED
    BY <2>1, <2>2
<1>7. Claims(y) /\ Recorded(y) /\ ~Recorded(x)
  BY <1>3, <1>6 DEF Claims, Recorded
<1>8. CodeAt(y, exited[s], torn) /\ (Path(x) => Path(y))
  <2>1. \/ x.tc \in {"emit", "claimed"} /\ y.tc \in {"claimed", "off"} /\ y.ta = x.ta
        \/ x.ta \in {"emit", "claimed"} /\ y.ta \in {"claimed", "off"} /\ y.tc = x.tc
    BY <1>6
  <2>2. y.sess = x.sess
    BY <1>1, <1>6
  <2>3. QED
    BY <1>3, <1>6, <2>1, <2>2, TaskMoves
<1>9. CASE elog' = elog
  <2>1. Becomes(c, y) /\ UNCHANGED <<elog, esess, tokens, records, exited, torn>> /\ blurred \subseteq blurred'
    BY <1>2, <1>4, <1>5, <1>9
  <2>2. Recorded(conns[c]) => Recorded(y)
    BY <1>7
  <2>3. y.sess = conns[c].sess /\ CodeAt(y, exited[y.sess], torn) /\ (y.sess \notin blurred' => Path(y))
    BY <1>1, <1>2, <1>3, <1>6, <1>8
  <2>4. QED
    BY <1>2, <1>6, <1>7, <2>1, <2>2, <2>3, StreamGoesOn
<1>10. CASE elog' = Append(elog, Event("ended", s, code))
  <2>1. PICK ev : ev = Event("ended", s, code)
    OBVIOUS
  <2>2. s \in Sessions /\ s <= esess /\ NotEnded(s) /\ conns[c].pc = "stream"
    BY <1>1, <1>2, <1>3, <1>7 DEF ExecInv, SessionInv, ClaimInv, Streaming, StreamRec
  <2>3. /\ code \in {NoCode, Ok, Code128, Wrong}
        /\ code = Ok <=> x.end = Ok
        /\ code = Wrong => s \in torn
    BY <1>1, <1>3 DEF StreamRec, CodeAt, Codeless, Ok, Code128, NoCode, Wrong
  <2>4. ev \in ExecEvent /\ ev.sess = s /\ ev.type = "ended" /\ ev.code = code
    BY <2>1, <2>2, <2>3 DEF Event, ExecEvent
  <2>5. RightCode(ev)
    <3>1. code = Ok => exited[s] = Ok
      BY <1>3, <2>3 DEF CodeAt
    <3>2. ASSUME s \notin blurred, exited[s] # NoCode PROVE code = exited[s]
      <4>1. exited[s] = Ok
        BY <2>2, <3>2 DEF ExecInv, ExecTypeOK
      <4>2. x.prog \in {"exited", "held", "done"}
        BY <1>3, <4>1 DEF CodeAt
      <4>3. x.end = Ok
        BY <1>3, <1>6, <3>2, <4>2 DEF Path, Copies, Delivers, OnItsWay, Arrived
      <4>4. QED
        BY <2>3, <4>1, <4>3
    <3>3. QED
      BY <2>3, <2>4, <3>1, <3>2 DEF RightCode
  <2>6. /\ elog' \in Seq(ExecEvent) /\ LogTrail' /\ ExitCodeRecorded'
        /\ (\A k \in 1 .. Len(elog) : elog[k].sess <= esess)'
        /\ (\A t \in 1 .. esess :
              \E k \in 1 .. Len(elog) : elog[k].sess = t /\ elog[k].type = "granted")'
        /\ \A t : t # s => (OnlyGranted(t)' <=> OnlyGranted(t)) /\ (NotEnded(t)' <=> NotEnded(t))
    BY <1>2, <1>10, <2>1, <2>2, <2>4, <2>5, HolderAppends
  <2>7. y \in Conn /\ y.pc = "stream"
    BY <1>6 DEF Conn, StreamRec
  <2>8. Becomes(c, y)
    BY <1>4, <1>5
  <2>9. QED
    BY <1>1, <1>2, <1>3, <1>6, <1>7, <1>8, <2>2, <2>6, <2>7, <2>8, HolderMoves
<1>11. QED
  BY <1>1, <1>9, <1>10 DEF EmitEnd

----------------------------------------------------------------------------
(* Granting and connecting.                                                *)

\* ConnsMove for one client.
LEMMA ClientRetreats ==
    ASSUME ExecInv, NEW c \in Clients, NEW y \in Conn, Becomes(c, y), Retreats(conns[c], y),
           UNCHANGED <<elog, esess, tokens, exited, blurred, torn>>, records' \in [Keys -> 0 .. esess]
    PROVE  ExecInv'
<1>1. ExecTypeOK
  BY DEF ExecInv
<1>2. /\ conns' \in [Clients -> Conn] /\ conns'[c] = y
      /\ \A d \in Clients : d # c => conns'[d] = conns[d]
  BY <1>1, ConnType
<1>3. ExecTypeOK'
  BY <1>1, <1>2 DEF ExecTypeOK
<1>4. \A d \in Clients : conns'[d] = conns[d] \/ Retreats(conns[d], conns'[d])
  BY <1>2
<1>5. QED
  BY <1>3, <1>4, ConnsMove

LEMMA DoneRetreats == \A x : Retreats(x, Done)
  BY DoneType DEF Retreats

\* Of a client whose request has its session.
LEMMA SessionFacts ==
    ASSUME ExecInv, NEW c \in Clients,
           conns[c].pc \in {"store", "wait", "granted", "load", "dial", "stream"}
    PROVE  conns[c].sess \in Sessions /\ conns[c].sess \in 1 .. esess /\ esess \in Nat
<1>1. conns[c] \in Conn /\ esess \in Nat
  BY ExecAssumption DEF ExecInv, ExecTypeOK
<1>2. conns[c].sess \in Sessions /\ conns[c].sess <= esess
  BY <1>1, ConnFacts DEF ExecInv, SessionInv
<1>3. QED
  BY <1>1, <1>2 DEF Sessions

LEMMA StreamOverStep ==
    ASSUME ExecInv, NEW c \in Clients, StreamOver(c)
    PROVE  ExecInv'
<1>1. /\ Becomes(c, Done) /\ UNCHANGED <<elog, esess, tokens, records, exited, blurred, torn>>
      /\ records \in [Keys -> 0 .. esess]
  BY DEF StreamOver, evars, svars, ExecInv, ExecTypeOK
<1>2. QED
  BY <1>1, DoneType, DoneRetreats, ClientRetreats

LEMMA RequestGrantStep ==
    ASSUME ExecInv, NEW c \in Clients, RequestGrant(c), UNCHANGED svars
    PROVE  ExecInv'
<1>1. UNCHANGED <<elog, esess, tokens, records, exited, blurred, torn>>
  BY DEF RequestGrant, evars, svars
<1>2. /\ records \in [Keys -> 0 .. esess] /\ esess \in 0 .. MaxSessions /\ MaxSessions \in Nat
      /\ KeysOf \in [Clients -> SUBSET Keys]
  BY ExecAssumption DEF ExecInv, ExecTypeOK
<1>3. PICK k \in KeysOf[c] :
        \/ records[k] # None /\ Becomes(c, [pc |-> "granted", sess |-> records[k]])
        \/ Becomes(c, [pc |-> "append", key |-> k])
  BY DEF RequestGrant
<1>4. k \in Keys
  BY <1>2
<1>5. CASE records[k] # None /\ Becomes(c, [pc |-> "granted", sess |-> records[k]])
  <2>1. PICK s \in Sessions : s = records[k] /\ s <= esess
    BY <1>2, <1>4, <1>5 DEF None, Sessions
  <2>2. PICK y : y = [pc |-> "granted", sess |-> s]
    OBVIOUS
  <2>3. y \in Conn /\ Retreats(conns[c], y)
    BY <2>1, <2>2 DEF Conn, Retreats
  <2>4. QED
    BY <1>1, <1>2, <1>5, <2>1, <2>2, <2>3, ClientRetreats
<1>6. CASE Becomes(c, [pc |-> "append", key |-> k])
  <2>1. PICK y : y = [pc |-> "append", key |-> k]
    OBVIOUS
  <2>2. y \in Conn /\ Retreats(conns[c], y)
    BY <1>4, <2>1 DEF Conn, Retreats
  <2>3. QED
    BY <1>1, <1>2, <1>6, <2>1, <2>2, ClientRetreats
<1>7. QED
  BY <1>3, <1>5, <1>6

LEMMA AnswerGrantStep ==
    ASSUME ExecInv, NEW c \in Clients, AnswerGrant(c), UNCHANGED svars
    PROVE  ExecInv'
<1>1. conns[c].pc = "wait" /\ UNCHANGED <<elog, esess, tokens, exited, blurred, torn>>
  BY DEF AnswerGrant, svars
<1>2. PICK s, k : s = conns[c].sess /\ k = conns[c].key
  OBVIOUS
<1>3. s \in Sessions /\ s \in 0 .. esess /\ s <= esess
  BY <1>1, <1>2, SessionFacts
<1>4. records \in [Keys -> 0 .. esess]
  BY DEF ExecInv, ExecTypeOK
<1>5. CASE /\ Becomes(c, [pc |-> "granted", sess |-> s])
           /\ records' = IF k = "none" \/ records[k] # None THEN records ELSE [records EXCEPT ![k] = s]
  <2>1. PICK y : y = [pc |-> "granted", sess |-> s]
    OBVIOUS
  <2>2. y \in Conn /\ Retreats(conns[c], y)
    BY <1>3, <2>1 DEF Conn, Retreats
  <2>3. records' \in [Keys -> 0 .. esess]
    BY <1>3, <1>4, <1>5
  <2>4. QED
    BY <1>1, <1>5, <2>1, <2>2, <2>3, ClientRetreats
<1>6. CASE Becomes(c, Done) /\ records' = records
  BY <1>1, <1>4, <1>6, DoneType, DoneRetreats, ClientRetreats
<1>7. QED
  BY <1>2, <1>5, <1>6 DEF AnswerGrant

LEMMA LoadSessionStep ==
    ASSUME ExecInv, NEW c \in Clients, LoadSession(c), UNCHANGED svars
    PROVE  ExecInv'
<1>1. /\ conns[c].pc = "load" /\ UNCHANGED <<elog, esess, tokens, records, exited, blurred, torn>>
      /\ records \in [Keys -> 0 .. esess] /\ conns[c] \in Conn
  BY DEF LoadSession, evars, svars, ExecInv, ExecTypeOK
<1>2. PICK y : y \in {[conns[c] EXCEPT !.pc = "dial"], Done} /\ Becomes(c, y)
  BY DEF LoadSession
<1>3. y \in Conn /\ Retreats(conns[c], y)
  <2>1. CASE y = [conns[c] EXCEPT !.pc = "dial"]
    <3>1. conns[c] \in [pc : {"granted", "load", "dial"}, sess : Sessions]
      BY <1>1 DEF Conn, StreamRec
    <3>2. y \in [pc : {"granted", "load", "dial"}, sess : Sessions] /\ y.pc = "dial" /\ y.sess = conns[c].sess
      BY <2>1, <3>1
    <3>3. QED
      BY <1>1, <3>2 DEF Conn, Retreats
  <2>2. CASE y = Done
    BY <2>2, DoneType, DoneRetreats
  <2>3. QED
    BY <1>2, <2>1, <2>2
<1>4. QED
  BY <1>1, <1>2, <1>3, ClientRetreats

LEMMA ControlPlaneDiesStep ==
    ASSUME ExecInv, ControlPlaneDies
    PROVE  ExecInv'
<1>1. UNCHANGED <<elog, esess, tokens, records, exited, blurred, torn>> /\ ExecTypeOK
  BY DEF ControlPlaneDies, evars, ExecInv
<1>2. conns' = [c \in Clients |-> IF conns[c] = NoConn THEN NoConn ELSE Done]
  BY DEF ControlPlaneDies
<1>3. conns' \in [Clients -> Conn] /\ \A c \in Clients : conns'[c] = conns[c] \/ conns'[c] = Done
  BY <1>2, DoneType
<1>4. ExecTypeOK'
  BY <1>1, <1>3 DEF ExecTypeOK
<1>5. QED
  BY <1>1, <1>3, <1>4, DoneRetreats, ConnsMove

\* Steps that touch no connection: of the view, the clock and the instance, or none.
LEMMA ConnsStayStep ==
    ASSUME ExecInv, UNCHANGED <<elog, esess, tokens, records, conns, exited, blurred, torn>>
    PROVE  ExecInv'
<1>1. ExecTypeOK'
  BY DEF ExecInv, ExecTypeOK
<1>2. QED
  BY <1>1, ConnsMove

\* A token is stored by the client that was granted its session, or used up by one that was
\* handed it.
LEMMA TokenMoves ==
    ASSUME ExecInv, NEW c \in Clients, NEW s, s = conns[c].sess, NEW y \in Conn, Becomes(c, y), y.sess = s,
           NEW v, tokens' = [tokens EXCEPT ![s] = v],
           \/ conns[c].pc = "store" /\ y.pc = "wait" /\ v = "fresh"
           \/ conns[c].pc = "granted" /\ tokens[s] = "fresh" /\ y.pc = "load" /\ v = "consumed",
           UNCHANGED <<elog, esess, records, exited, blurred, torn>>
    PROVE  ExecInv'
<1>1. /\ ExecTypeOK /\ SessionInv /\ TokenInv /\ ClaimInv /\ LogTrail /\ SoleHolder
      /\ CodeInv /\ PathInv /\ ExitCodeRecorded
  BY TrailParts DEF ExecInv
<1>2. /\ conns' \in [Clients -> Conn] /\ conns'[c] = y
      /\ \A d \in Clients : d # c => conns'[d] = conns[d]
  BY <1>1, ConnType
<1>3. s \in Sessions /\ s \in 1 .. esess /\ esess \in Nat
  BY SessionFacts
<1>4. tokens \in [Sessions -> {"none", "fresh", "consumed"}]
  BY <1>1 DEF ExecTypeOK
<1>5. /\ tokens' \in [Sessions -> {"none", "fresh", "consumed"}] /\ tokens'[s] = v
      /\ \A t \in Sessions : t # s => tokens'[t] = tokens[t]
  BY <1>3, <1>4
<1>6. ExecTypeOK'
  BY <1>1, <1>2, <1>5 DEF ExecTypeOK
<1>7. tokens[s] # "consumed"
  BY <1>1 DEF TokenInv
<1>8. \A d \in Clients : Holds(d) => conns[d].sess # s
  BY <1>1, <1>7 DEF TokenInv
<1>9. \A d \in Clients : conns[d].pc \in {"store", "wait", "granted", "load", "dial", "stream"} =>
        conns[d].sess \in Sessions
  BY SessionFacts
<1>10. \A d \in Clients : conns[d].pc = "store" /\ d # c => conns[d].sess # s
  BY <1>1 DEF TokenInv
<1>11. OnlyGranted(s) /\ exited[s] = NoCode
  BY <1>1, <1>3, <1>7 DEF TokenInv
<1>12. SessionInv'
  <2>1. \A t \in Sessions : t > esess => t # s
    BY <1>3 DEF Sessions
  <2>2. \A t \in Sessions : t > esess => tokens'[t] = "none"
    BY <1>1, <1>5, <2>1 DEF SessionInv
  <2>3. \A d \in Clients :
          conns'[d].pc \in {"store", "wait", "granted", "load", "dial", "stream"} =>
            conns'[d].sess <= esess
    <3>1. y.sess <= esess
      BY <1>3
    <3>2. \A d \in Clients :
            conns[d].pc \in {"store", "wait", "granted", "load", "dial", "stream"} =>
              conns[d].sess <= esess
      BY <1>1 DEF SessionInv
    <3>3. QED
      BY <1>2, <3>1, <3>2
  <2>4. /\ \A k \in 1 .. Len(elog) : elog[k].sess <= esess
        /\ \A t \in 1 .. esess : \E k \in 1 .. Len(elog) : elog[k].sess = t /\ elog[k].type = "granted"
    BY <1>1 DEF SessionInv
  <2>5. QED
    BY <2>2, <2>3, <2>4 DEF SessionInv
<1>13. \A t : OnlyGranted(t)' = OnlyGranted(t) /\ NotEnded(t)' = NotEnded(t)
  BY DEF OnlyGranted, NotEnded
<1>14. TokenInv'
  <2>1. /\ \A d \in Clients : conns'[d].pc = "store" => tokens'[conns'[d].sess] = "none"
        /\ \A d, b \in Clients :
             conns'[d].pc = "store" /\ conns'[b].pc = "store" /\ conns'[d].sess = conns'[b].sess => d = b
    BY <1>1, <1>2, <1>5, <1>9, <1>10 DEF TokenInv
  <2>2. \A t \in Sessions : tokens'[t] # "consumed" => OnlyGranted(t) /\ exited[t] = NoCode
    BY <1>1, <1>5, <1>11 DEF TokenInv
  <2>3. \A d \in Clients : Holds(d)' => tokens'[conns'[d].sess] = "consumed"
    BY <1>1, <1>2, <1>5, <1>8, <1>9 DEF TokenInv, Holds
  <2>4. ASSUME NEW d \in Clients, conns'[d].pc \in {"load", "dial"}
        PROVE  OnlyGranted(conns[d].sess)' /\ exited[conns'[d].sess] = NoCode
    <3>1. PICK t : t = conns'[d].sess
      OBVIOUS
    <3>2. OnlyGranted(t) /\ exited[t] = NoCode
      BY <1>1, <1>2, <1>11, <2>4, <3>1 DEF TokenInv
    <3>3. QED
      BY <3>1, <3>2 DEF OnlyGranted
  <2>5. QED
    BY <1>13, <2>1, <2>2, <2>3, <2>4 DEF TokenInv
<1>15. \A d \in Clients : conns'[d].pc = "stream" => conns'[d] = conns[d]
  BY <1>2
<1>16. ClaimInv'
  <2> SUFFICES ASSUME NEW d \in Clients, Streaming(d)'
               PROVE  (Claims(conns[d]) /\ (~Recorded(conns[d]) => NotEnded(conns[d].sess)))'
    BY DEF ClaimInv
  <2>1. conns'[d] = conns[d] /\ Streaming(d)
    BY <1>15 DEF Streaming
  <2>2. Claims(conns[d]) /\ (~Recorded(conns[d]) => NotEnded(conns[d].sess))
    BY <1>1, <2>1 DEF ClaimInv
  <2>3. QED
    BY <2>1, <2>2 DEF Claims, Recorded, NotEnded
<1>17. LogTrail'
  BY <1>1 DEF LogTrail, Before
<1>18. SoleHolder'
  BY <1>1, <1>2, <1>8 DEF SoleHolder, Holds
<1>19. CodeInv'
  <2> SUFFICES ASSUME NEW d \in Clients, conns'[d].pc = "stream"
               PROVE  CodeAt(conns'[d], exited[conns'[d].sess], torn)
    BY DEF CodeInv, CodeAt, Has, Streaming
  <2>1. conns'[d] = conns[d] /\ Streaming(d)
    BY <1>15 DEF Streaming
  <2>2. QED
    BY <1>1, <2>1 DEF CodeInv
<1>20. PathInv'
  <2> SUFFICES ASSUME NEW d \in Clients, Streaming(d)', conns'[d].sess \notin blurred'
               PROVE  Path(conns[d])'
    BY DEF PathInv
  <2>1. PICK x : x = conns[d] /\ x = conns'[d] /\ Streaming(d)
    BY <1>15 DEF Streaming
  <2>2. Path(x)
    BY <1>1, <2>1 DEF PathInv
  <2>3. QED
    BY <2>1, <2>2 DEF Path, NotBegun, NoGuest, Reads, Copies, Delivers, OnItsWay, Arrived, AllOut, EndsIn
<1>21. ExitCodeRecorded'
  BY <1>1 DEF ExitCodeRecorded
<1>22. QED
  BY <1>6, <1>12, <1>14, <1>16, <1>17, <1>18, <1>19, <1>20, <1>21, TrailParts DEF ExecInv

LEMMA StoreExecTokenStep ==
    ASSUME ExecInv, NEW c \in Clients, StoreExecToken(c), UNCHANGED svars
    PROVE  ExecInv'
<1>1. /\ conns[c].pc = "store" /\ UNCHANGED <<elog, esess, records, exited, blurred, torn>>
      /\ records \in [Keys -> 0 .. esess] /\ conns[c] \in Conn
  BY DEF StoreExecToken, svars, ExecInv, ExecTypeOK
<1>2. CASE /\ tokens' = [tokens EXCEPT ![conns[c].sess] = "fresh"]
           /\ Becomes(c, [conns[c] EXCEPT !.pc = "wait"])
  <2>1. PICK y : y = [conns[c] EXCEPT !.pc = "wait"]
    OBVIOUS
  <2>2. conns[c] \in [pc : {"store", "wait"}, key : Keys, sess : Sessions, event : Nat]
    BY <1>1 DEF Conn, StreamRec
  <2>3. /\ y \in [pc : {"store", "wait"}, key : Keys, sess : Sessions, event : Nat]
        /\ y.pc = "wait" /\ y.sess = conns[c].sess
    BY <2>1, <2>2
  <2>4. y \in Conn
    BY <2>3 DEF Conn
  <2>5. QED
    BY <1>1, <1>2, <2>1, <2>3, <2>4, TokenMoves
<1>3. CASE Becomes(c, Done) /\ UNCHANGED tokens
  BY <1>1, <1>3, DoneType, DoneRetreats, ClientRetreats
<1>4. QED
  BY <1>2, <1>3 DEF StoreExecToken

LEMMA ConsumeTokenStep ==
    ASSUME ExecInv, NEW c \in Clients, ConsumeToken(c), UNCHANGED svars
    PROVE  ExecInv'
<1>1. /\ conns[c].pc = "granted" /\ UNCHANGED <<elog, esess, records, exited, blurred, torn>>
      /\ records \in [Keys -> 0 .. esess] /\ conns[c] \in Conn
  BY DEF ConsumeToken, svars, ExecInv, ExecTypeOK
<1>2. CASE /\ tokens[conns[c].sess] = "fresh"
           /\ tokens' = [tokens EXCEPT ![conns[c].sess] = "consumed"]
           /\ Becomes(c, [conns[c] EXCEPT !.pc = "load"])
  <2>1. PICK y : y = [conns[c] EXCEPT !.pc = "load"]
    OBVIOUS
  <2>2. conns[c] \in [pc : {"granted", "load", "dial"}, sess : Sessions]
    BY <1>1 DEF Conn, StreamRec
  <2>3. /\ y \in [pc : {"granted", "load", "dial"}, sess : Sessions]
        /\ y.pc = "load" /\ y.sess = conns[c].sess
    BY <2>1, <2>2
  <2>4. y \in Conn
    BY <2>3 DEF Conn
  <2>5. QED
    BY <1>1, <1>2, <2>1, <2>3, <2>4, TokenMoves
<1>3. CASE Becomes(c, Done) /\ UNCHANGED tokens
  BY <1>1, <1>3, DoneType, DoneRetreats, ClientRetreats
<1>4. QED
  BY <1>2, <1>3 DEF ConsumeToken, TokenValid

LEMMA AppendGrantedStep ==
    ASSUME ExecInv, NEW c \in Clients, AppendGranted(c), UNCHANGED svars
    PROVE  ExecInv'
<1>1. /\ ExecTypeOK /\ SessionInv /\ TokenInv /\ ClaimInv /\ LogTrail /\ SoleHolder
      /\ CodeInv /\ PathInv /\ ExitCodeRecorded
  BY TrailParts DEF ExecInv
<1>2. PICK s, l : s = esess' /\ l = elog'
  OBVIOUS
<1>3. PICK y, ev :
        /\ y = [pc |-> "store", key |-> conns[c].key, sess |-> s, event |-> Len(l)]
        /\ ev = Event("granted", s, NoCode)
  OBVIOUS
<1>4. /\ conns[c].pc = "append" /\ s = esess + 1 /\ esess < MaxSessions
      /\ elog' = Append(elog, ev) /\ Becomes(c, y)
      /\ UNCHANGED <<tokens, records, exited, blurred, torn>>
  BY <1>2, <1>3 DEF AppendGranted, svars
<1>5. esess \in Nat /\ s \in Nat /\ s \in Sessions /\ ~(s <= esess) /\ s > esess
  <2>1. esess \in 0 .. MaxSessions /\ MaxSessions \in Nat
    BY <1>1, ExecAssumption DEF ExecTypeOK
  <2>2. QED
    BY <1>4, <2>1 DEF Sessions
<1>6. ev \in ExecEvent /\ ev.sess = s /\ ev.type = "granted"
  BY <1>3, <1>5 DEF Event, ExecEvent
<1>7. elog' \in Seq(ExecEvent) /\ Len(l) \in Nat
  <2>1. elog' \in Seq(ExecEvent)
    BY <1>1, <1>4, <1>6, ElogAppend
  <2>2. QED
    BY <1>2, <2>1
<1>8. y \in Conn /\ y.pc = "store" /\ y.sess = s
  <2>1. conns[c] \in Conn
    BY <1>1 DEF ExecTypeOK
  <2>2. conns[c].key \in Keys
    BY <1>4, <2>1, ConnFacts
  <2>3. QED
    BY <1>3, <1>5, <1>7, <2>2 DEF Conn
<1>9. /\ conns' \in [Clients -> Conn] /\ conns'[c] = y
      /\ \A d \in Clients : d # c => conns'[d] = conns[d]
  BY <1>1, <1>4, <1>8, ConnType
<1>10. ExecTypeOK'
  <2>1. esess' \in 0 .. MaxSessions
    BY <1>2, <1>5 DEF Sessions
  <2>2. 0 .. esess \subseteq 0 .. s
    BY <1>4, <1>5
  <2>3. records' \in [Keys -> 0 .. esess']
    <3>1. records \in [Keys -> 0 .. esess] /\ records' = records
      BY <1>1, <1>4 DEF ExecTypeOK
    <3>2. QED
      BY <1>2, <2>2, <3>1
  <2>4. QED
    BY <1>1, <1>4, <1>7, <1>9, <2>1, <2>3 DEF ExecTypeOK
<1>11. \A d \in Clients : conns[d].pc \in {"store", "wait", "granted", "load", "dial", "stream"} =>
         conns[d].sess \in Sessions /\ conns[d].sess # s /\ conns[d].sess <= esess /\ conns[d].sess <= s
  <2> SUFFICES ASSUME NEW d \in Clients,
                      conns[d].pc \in {"store", "wait", "granted", "load", "dial", "stream"}
               PROVE  conns[d].sess \in Sessions /\ conns[d].sess # s /\ conns[d].sess <= esess /\ conns[d].sess <= s
    OBVIOUS
  <2>1. conns[d].sess \in Sessions /\ conns[d].sess \in 1 .. esess
    BY SessionFacts
  <2>2. QED
    BY <1>4, <1>5, <2>1
<1>12. \A k \in 1 .. Len(elog) : elog[k].sess # s
  BY <1>1, <1>5 DEF SessionInv
<1>13. SessionInv'
  <2>1. /\ esess' \in Nat /\ esess <= esess' /\ ev.sess <= esess'
        /\ \A t \in 1 .. esess' : t \in 1 .. esess \/ (t = ev.sess /\ ev.type = "granted")
    BY <1>2, <1>4, <1>5, <1>6
  <2>2. /\ (\A k \in 1 .. Len(elog) : elog[k].sess <= esess)'
        /\ (\A t \in 1 .. esess :
              \E k \in 1 .. Len(elog) : elog[k].sess = t /\ elog[k].type = "granted")'
    BY <1>1, <1>4, <1>6, <2>1, SessionsGrow
  <2>3. \A t \in Sessions : t > s => t > esess
    BY <1>4, <1>5 DEF Sessions
  <2>4. \A t \in Sessions : t > esess' => tokens'[t] = "none"
    BY <1>1, <1>2, <1>4, <2>3 DEF SessionInv
  <2>5. \A d \in Clients : conns'[d].pc \in {"store", "wait", "granted", "load", "dial", "stream"} =>
          conns'[d].sess <= esess'
    BY <1>2, <1>5, <1>8, <1>9, <1>11
  <2>6. QED
    BY <2>2, <2>4, <2>5 DEF SessionInv
<1>14. \A t : t # s => (OnlyGranted(t)' <=> OnlyGranted(t)) /\ (NotEnded(t)' <=> NotEnded(t))
  BY <1>1, <1>4, <1>6, OtherSession
<1>15. OnlyGranted(s)'
  <2>1. OnlyGranted(s)
    BY <1>12 DEF OnlyGranted
  <2>2. QED
    BY <1>1, <1>4, <1>6, <2>1, SameSession
<1>16. \A d \in Clients : conns'[d].pc \in {"load", "dial", "stream"} =>
         d # c /\ conns'[d] = conns[d] /\ conns[d].sess # s
  BY <1>8, <1>9, <1>11
<1>17. TokenInv'
  <2>1. tokens[s] = "none"
    BY <1>1, <1>5 DEF SessionInv
  <2>2. /\ \A d \in Clients : conns'[d].pc = "store" => tokens'[conns'[d].sess] = "none"
        /\ \A d, b \in Clients :
             conns'[d].pc = "store" /\ conns'[b].pc = "store" /\ conns'[d].sess = conns'[b].sess => d = b
    BY <1>1, <1>4, <1>8, <1>9, <1>11, <2>1 DEF TokenInv
  <2>3. \A t \in Sessions : tokens'[t] # "consumed" => OnlyGranted(t)' /\ exited'[t] = NoCode
    BY <1>1, <1>4, <1>14, <1>15 DEF TokenInv
  <2>4. \A d \in Clients : Holds(d)' => tokens'[conns'[d].sess] = "consumed"
    BY <1>1, <1>4, <1>16 DEF TokenInv, Holds
  <2>5. ASSUME NEW d \in Clients, conns'[d].pc \in {"load", "dial"}
        PROVE  OnlyGranted(conns[d].sess)' /\ exited'[conns'[d].sess] = NoCode
    <3>1. PICK t : t = conns'[d].sess
      OBVIOUS
    <3>2. t # s /\ OnlyGranted(t) /\ exited[t] = NoCode
      BY <1>1, <1>16, <2>5, <3>1 DEF TokenInv
    <3>3. OnlyGranted(t)'
      BY <1>14, <3>2
    <3>4. QED
      BY <1>4, <3>1, <3>2, <3>3 DEF OnlyGranted
  <2>6. QED
    BY <2>2, <2>3, <2>4, <2>5 DEF TokenInv
<1>18. ClaimInv'
  <2> SUFFICES ASSUME NEW d \in Clients, conns'[d].pc = "stream"
               PROVE  (Claims(conns[d]) /\ (~Recorded(conns[d]) => NotEnded(conns[d].sess)))'
    BY DEF ClaimInv, Streaming
  <2>1. PICK x, t : x = conns'[d] /\ t = conns'[d].sess
    OBVIOUS
  <2>2. x = conns[d] /\ t = conns[d].sess /\ t # s /\ Streaming(d)
    BY <1>16, <2>1 DEF Streaming
  <2>3. Claims(x) /\ (~Recorded(x) => NotEnded(t))
    BY <1>1, <2>2 DEF ClaimInv
  <2>4. ~Recorded(x) => NotEnded(t)'
    BY <1>14, <2>2, <2>3
  <2>5. QED
    BY <2>1, <2>3, <2>4 DEF Claims, Recorded, NotEnded
<1>19. LogTrail'
  BY <1>1, <1>4, <1>6, <1>12, TrailGrows
<1>20. SoleHolder'
  BY <1>1, <1>16 DEF SoleHolder, Holds
<1>21. CodeInv'
  <2> SUFFICES ASSUME NEW d \in Clients, conns'[d].pc = "stream"
               PROVE  CodeAt(conns'[d], exited[conns'[d].sess], torn)
    BY <1>4 DEF CodeInv, CodeAt, Has, Streaming
  <2>1. conns'[d] = conns[d] /\ Streaming(d)
    BY <1>16 DEF Streaming
  <2>2. QED
    BY <1>1, <2>1 DEF CodeInv
<1>22. PathInv'
  <2> SUFFICES ASSUME NEW d \in Clients, Streaming(d)', conns'[d].sess \notin blurred'
               PROVE  Path(conns[d])'
    BY DEF PathInv
  <2>1. PICK x : x = conns[d] /\ x = conns'[d] /\ Streaming(d)
    BY <1>16 DEF Streaming
  <2>2. Path(x)
    BY <1>1, <1>4, <2>1 DEF PathInv
  <2>3. QED
    BY <2>1, <2>2 DEF Path, NotBegun, NoGuest, Reads, Copies, Delivers, OnItsWay, Arrived, AllOut, EndsIn
<1>23. ExitCodeRecorded'
  <2>1. RightCode(ev)
    BY <1>6 DEF RightCode
  <2>2. QED
    BY <1>1, <1>4, <1>6, <2>1, CodesGrow
<1>24. QED
  BY <1>10, <1>13, <1>17, <1>18, <1>19, <1>20, <1>21, <1>22, <1>23, TrailParts DEF ExecInv

----------------------------------------------------------------------------
(* Exec sessions: the invariant and the theorems.                          *)

LEMMA ExecInvInit == ExecInit /\ StreamInit => ExecInv
<1> SUFFICES ASSUME ExecInit, StreamInit
             PROVE  ExecInv
  OBVIOUS
<1>1. elog = <<>> /\ Len(elog) = 0 /\ elog \in Seq(ExecEvent)
  BY DEF ExecInit
<1>2. \A c \in Clients : conns[c] = NoConn
  BY DEF ExecInit
<1>3. \A c \in Clients : conns[c].pc = "idle"
  BY <1>2, DoneType
<1>4. ExecTypeOK
  <2>1. esess \in 0 .. MaxSessions /\ esess = 0
    BY ExecAssumption DEF ExecInit
  <2>2. records \in [Keys -> 0 .. esess]
    BY <2>1 DEF ExecInit, None
  <2>3. conns \in [Clients -> Conn]
    BY DoneType DEF ExecInit
  <2>4. QED
    BY <1>1, <2>1, <2>2, <2>3 DEF ExecInit, StreamInit, ExecTypeOK
<1>5. SessionInv
  <2>1. esess = 0 /\ \A s \in Sessions : tokens[s] = "none"
    BY DEF ExecInit
  <2>2. QED
    BY <1>1, <1>3, <2>1 DEF SessionInv
<1>6. TokenInv
  <2>1. \A s : OnlyGranted(s)
    BY <1>1 DEF OnlyGranted
  <2>2. \A s \in Sessions : exited[s] = NoCode
    BY DEF StreamInit
  <2>3. QED
    BY <1>3, <2>1, <2>2 DEF TokenInv, Holds
<1>7. ClaimInv /\ CodeInv /\ PathInv
  BY <1>3 DEF ClaimInv, CodeInv, PathInv, Streaming
<1>8. AuditTrail /\ ExitCodeRecorded
  BY <1>1, <1>3 DEF AuditTrail, ExitCodeRecorded, Holds
<1>9. QED
  BY <1>4, <1>5, <1>6, <1>7, <1>8 DEF ExecInv

LEMMA ExecStep == ExecInv /\ (ExecNext \/ UNCHANGED execvars) => ExecInv'
<1> SUFFICES ASSUME ExecInv, ExecNext \/ UNCHANGED execvars
             PROVE  ExecInv'
  OBVIOUS
<1>1. CASE (ProjectExec \/ SessionExpires \/ InstanceChanges) /\ UNCHANGED svars
  <2>1. UNCHANGED <<elog, esess, tokens, records, conns, exited, blurred, torn>>
    BY <1>1 DEF ProjectExec, SessionExpires, InstanceChanges, svars
  <2>2. QED
    BY <2>1, ConnsStayStep
<1>2. CASE ControlPlaneDies
  BY <1>2, ControlPlaneDiesStep
<1>3. ASSUME NEW c \in Clients, GrantStep(c) \/ ConnectStep(c), UNCHANGED svars
      PROVE  ExecInv'
  BY <1>3, RequestGrantStep, AppendGrantedStep, StoreExecTokenStep, AnswerGrantStep,
     ConsumeTokenStep, LoadSessionStep, DialFailsStep DEF GrantStep, ConnectStep
<1>4. ASSUME NEW c \in Clients, Machinery(c)
      PROVE  ExecInv'
  BY <1>4, GatewayAcceptsStep, ReaderReadsStep, ReaderEofStep, GatewayEndsStep, GuestStartsStep,
     CopyToClientStep, ClaimEndStep, EmitEndStep, StreamOverStep DEF Machinery
<1>5. ASSUME NEW c \in Clients,
             \/ OpenStream(c) \/ ReaderFails(c) \/ GuestSends(c) \/ GuestSendFails(c) \/ ProgramExits(c)
             \/ OutputReleased(c) \/ GuestFinishes(c) \/ ClientLeaves(c) \/ ClientSends(c) \/ ClientDone(c)
      PROVE  ExecInv'
  BY <1>5, OpenStreamStep, ReaderFailsStep, GuestSendsStep, GuestSendFailsStep, ProgramExitsStep,
     OutputReleasedStep, GuestFinishesStep, ClientLeavesStep, ClientSendsStep, ClientDoneStep
<1>6. CASE UNCHANGED execvars
  BY <1>6, ConnsStayStep DEF execvars, evars, svars
<1>7. QED
  BY <1>1, <1>2, <1>3, <1>4, <1>5, <1>6 DEF ExecNext

\* The inductive invariant of both sides of the specification: every step of a request, a
\* task, the gateway, the guest or the token endpoints keeps it.
THEOREM AccessInvariant == AccessSpec => [](AuthInv /\ ExecInv)
<1>1. AccessInit => AuthInv /\ ExecInv
  BY AuthInvInit, ExecInvInit DEF AccessInit
<1>2. AuthInv /\ ExecInv /\ [AccessNext]_accessvars => (AuthInv /\ ExecInv)'
  <2>1. [AccessNext]_accessvars => (AuthNext \/ UNCHANGED avars) /\ (ExecNext \/ UNCHANGED execvars)
    BY DEF AccessNext, accessvars
  <2>2. QED
    BY <2>1, AuthStep, ExecStep
<1>3. QED
  BY <1>1, <1>2, PTL DEF AccessSpec

\* However polls, refreshes and revocations of a login overlap, at most one of its refresh
\* tokens can be used, and no access token outlives the refresh token issued with it when that
\* one is replaced or revoked.
THEOREM LoginHasOneLineage == AccessSpec => []OneLineage
<1>1. AuthInv /\ ExecInv => OneLineage
  BY LineageOfInv
<1>2. QED
  BY <1>1, AccessInvariant, PTL

\* Once a revocation of the login was confirmed, none of its refresh tokens and access tokens in
\* the tables can be used, it stays so, and no token is issued from it any more, whatever polls
\* and refreshes were on their way.
THEOREM SignOutIsForGood == AccessSpec => []SignedOutMeansOut /\ [][signedOut => signedOut']_accessvars
<1>1. AccessInit => OutInv
  BY DEF AccessInit, AuthInit, OutInv, Revocable
<1>2. AuthInv /\ OutInv /\ [AccessNext]_accessvars => OutInv' /\ (signedOut => signedOut')
  <2>1. [AccessNext]_accessvars => AuthNext \/ UNCHANGED avars
    BY DEF AccessNext, accessvars
  <2> QED
    BY <2>1, OutStep
<1>3. AuthInv /\ OutInv => SignedOutMeansOut
  BY OutFollows
<1>4. AuthInv /\ ExecInv => AuthInv
  OBVIOUS
<1> QED
  BY <1>1, <1>2, <1>3, <1>4, AccessInvariant, PTL DEF AccessSpec

\* The audit log of exec sessions says once, and in order, what happened once, for any number
\* of clients that race for a session's token.
THEOREM AuditTrailHolds == AccessSpec => []AuditTrail
<1>1. AuthInv /\ ExecInv => AuditTrail
  BY DEF ExecInv
<1>2. QED
  BY <1>1, AccessInvariant, PTL

\* The exit code recorded for a session is the one its program ended with, unless something
\* that loses codes has happened to the session.
THEOREM ExitCodesAreRight == AccessSpec => []ExitCodeRecorded
<1>1. AuthInv /\ ExecInv => ExitCodeRecorded
  BY DEF ExecInv
<1>2. QED
  BY <1>1, AccessInvariant, PTL

=============================================================================
