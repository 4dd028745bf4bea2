--------------------------- MODULE Ingress_proofs ---------------------------
(***************************************************************************)
(* Proofs about Ingress, for any number of connections, clients,           *)
(* listeners, routes, instances and events, and whatever route sync,       *)
(* backends and faults do meanwhile.                                       *)
(*                                                                         *)
(* The streams: a connection only learns.  What was read of its stream is  *)
(* nothing or all that inspect reads, and neither it nor the route the     *)
(* connection was given changes until the stream begins.                   *)
(*                                                                         *)
(* The routes: the log grows at its end or by an event marked as late, so  *)
(* a part of it that was read and has no late event does not change any    *)
(* more.  The loop's routes, the saved ones and the table are each what    *)
(* applying such a part gives, and a response continues where the cursor   *)
(* is: applying it after the part before is applying both parts.  A pool   *)
(* has instances of its route's environment only, and a route of a         *)
(* connection keeps the owner it had when the table was looked at.         *)
(***************************************************************************)
EXTENDS Ingress, FiniteSetTheorems, SequenceTheorems, WellFoundedInduction, TLAPS

----------------------------------------------------------------------------
(* The streams.                                                              *)

\* What is known of a connection, by how far it has come.
ConnOK(x) ==
    /\ "pc" \in DOMAIN x
    /\ x.pc \in {"idle", "refused", "sniff", "route", "select", "try", "connect", "open"}
    /\ x.pc \notin {"idle", "refused"} =>
          /\ {"who", "listener", "sni", "buf"} \subseteq DOMAIN x
          /\ x.buf = <<>> \/ (x.pc # "sniff" /\ x.buf = Inspect(x.who))
    /\ x.pc \in {"select", "try", "connect", "open"} => {"route", "tried", "n"} \subseteq DOMAIN x
    /\ x.pc = "open" => x.sent = Preamble(x) \o CopiedRest(x)

ConnInv == DOMAIN conns = Conns /\ \A c \in Conns : ConnOK(conns[c])

LEMMA NoConnOK == ConnOK(NoConn) /\ ConnOK([pc |-> "refused"])
  BY DEF ConnOK, NoConn

\* What was known stays, unless it is found out anew.
LEMMA StillKnown ==
    ASSUME NEW x, NEW new
    PROVE  /\ DOMAIN Knowing(x, new) = DOMAIN new \cup DOMAIN x
           /\ \A a \in DOMAIN new : Knowing(x, new)[a] = new[a]
           /\ \A a \in DOMAIN x \ DOMAIN new : Knowing(x, new)[a] = x[a]
  BY DEF Knowing

\* One connection moves.
LEMMA OneConnMoves ==
    ASSUME ConnInv, NEW c \in Conns, NEW y, ConnOK(y), Becomes(c, y)
    PROVE  ConnInv'
<1>1. conns' = [conns EXCEPT ![c] = y] /\ DOMAIN conns = Conns
  BY DEF Becomes, ConnInv
<1>2. DOMAIN conns' = Conns /\ conns'[c] = y /\ \A d \in Conns \ {c} : conns'[d] = conns[d]
  BY <1>1
<1>3. \A d \in Conns : ConnOK(conns'[d])
  BY <1>2 DEF ConnInv
<1> QED
  BY <1>2, <1>3 DEF ConnInv

\* A connection on its way keeps what it read and, once it has one, its route.
LEMMA OnItsWay ==
    ASSUME NEW x, ConnOK(x), x.pc \in {"route", "select", "try", "connect"},
           NEW y, y.pc \in {"select", "try", "connect"},
           {"pc", "who", "listener", "sni", "buf", "route", "tried", "n"} \subseteq DOMAIN y,
           y.who = x.who, y.buf = x.buf
    PROVE  ConnOK(y)
<1>1. x.buf = <<>> \/ x.buf = Inspect(x.who)
  BY DEF ConnOK
<1>2. y.buf = <<>> \/ (y.pc # "sniff" /\ y.buf = Inspect(y.who))
  BY <1>1
<1> QED
  BY <1>2 DEF ConnOK

LEMMA ConnStepKeeps ==
    ASSUME ConnInv, NEW c \in Conns, ConnStep(c)
    PROVE  ConnInv'
<1>0. PICK x : x = conns[c]
  OBVIOUS
<1>00. ConnOK(x)
  BY <1>0 DEF ConnInv
<1>1. CASE Accept(c)
  <2>1. PICK who \in Clients, p \in {"sniff", "route"} :
            Becomes(c, [pc |-> p, who |-> who, listener |-> who.to, sni |-> "none", buf |-> <<>>])
    BY <1>1 DEF Accept
  <2>2. PICK y : y = [pc |-> p, who |-> who, listener |-> who.to, sni |-> "none", buf |-> <<>>]
    OBVIOUS
  <2>3. /\ DOMAIN y = {"pc", "who", "listener", "sni", "buf"} /\ y.pc \in {"sniff", "route"}
        /\ y.buf = <<>>
    BY <2>2
  <2>4. ConnOK(y)
    BY <2>3 DEF ConnOK
  <2> QED
    BY <2>1, <2>2, <2>4, OneConnMoves
<1>2. CASE Sniff(c)
  <2>1. PICK y : y = [x EXCEPT !.pc = "route", !.sni = ParseSni(x.who), !.buf = Inspect(x.who)]
    OBVIOUS
  <2>2. x.pc = "sniff" /\ Becomes(c, y)
    BY <1>0, <1>2, <2>1 DEF Sniff
  <2>3. {"pc", "who", "listener", "sni", "buf"} \subseteq DOMAIN x
    BY <1>00, <2>2 DEF ConnOK
  <2>4. DOMAIN y = DOMAIN x /\ y.pc = "route" /\ y.who = x.who /\ y.buf = Inspect(x.who)
    BY <2>1, <2>3
  <2>5. ConnOK(y)
    BY <2>3, <2>4 DEF ConnOK
  <2> QED
    BY <2>2, <2>5, OneConnMoves
<1>3. CASE RouteConnection(c)
  <2>1. CASE Becomes(c, NoConn)
    BY <2>1, NoConnOK, OneConnMoves
  <2>2. ASSUME NEW r, Becomes(c, Knowing(x, [pc |-> "select", route |-> table[r], tried |-> {}, n |-> 0,
                                             from |-> from, shown |-> shown]))
        PROVE  ConnInv'
    <3>1. PICK new : new = [pc |-> "select", route |-> table[r], tried |-> {}, n |-> 0,
                            from |-> from, shown |-> shown]
      OBVIOUS
    <3>2. PICK y : y = Knowing(x, new)
      OBVIOUS
    <3>3. x.pc = "route" /\ {"pc", "who", "listener", "sni", "buf"} \subseteq DOMAIN x
      BY <1>0, <1>00, <1>3 DEF RouteConnection, ConnOK
    <3>4. DOMAIN new = {"pc", "route", "tried", "n", "from", "shown"} /\ new["pc"] = "select"
      BY <3>1
    <3>5. /\ DOMAIN y = DOMAIN new \cup DOMAIN x
          /\ \A a \in DOMAIN new : y[a] = new[a]
          /\ \A a \in DOMAIN x \ DOMAIN new : y[a] = x[a]
      BY <3>2, StillKnown
    <3>6. y.pc = "select" /\ y.who = x.who /\ y.buf = x.buf
      BY <3>3, <3>4, <3>5
    <3>7. {"pc", "who", "listener", "sni", "buf", "route", "tried", "n"} \subseteq DOMAIN y
      BY <3>3, <3>4, <3>5
    <3>8. ConnOK(y)
      BY <1>00, <3>3, <3>6, <3>7, OnItsWay
    <3> QED
      BY <2>2, <3>1, <3>2, <3>8, OneConnMoves
  <2> QED
    BY <1>0, <1>3, <2>1, <2>2 DEF RouteConnection
<1>4. CASE SelectBackend(c)
  <2>1. CASE Becomes(c, NoConn)
    BY <2>1, NoConnOK, OneConnMoves
  <2>2. ASSUME NEW s, NEW at, Becomes(c, Knowing(x, [pc |-> "try", sel |-> s, at |-> at]))
        PROVE  ConnInv'
    <3>1. PICK new : new = [pc |-> "try", sel |-> s, at |-> at]
      OBVIOUS
    <3>2. PICK y : y = Knowing(x, new)
      OBVIOUS
    <3>3. /\ x.pc = "select"
          /\ {"pc", "who", "listener", "sni", "buf", "route", "tried", "n"} \subseteq DOMAIN x
      BY <1>0, <1>00, <1>4 DEF SelectBackend, ConnOK
    <3>4. DOMAIN new = {"pc", "sel", "at"} /\ new["pc"] = "try"
      BY <3>1
    <3>5. /\ DOMAIN y = DOMAIN new \cup DOMAIN x
          /\ \A a \in DOMAIN new : y[a] = new[a]
          /\ \A a \in DOMAIN x \ DOMAIN new : y[a] = x[a]
      BY <3>2, StillKnown
    <3>6. y.pc = "try" /\ y.who = x.who /\ y.buf = x.buf
      BY <3>3, <3>4, <3>5
    <3>7. {"pc", "who", "listener", "sni", "buf", "route", "tried", "n"} \subseteq DOMAIN y
      BY <3>3, <3>5
    <3>8. ConnOK(y)
      BY <1>00, <3>3, <3>6, <3>7, OnItsWay
    <3> QED
      BY <2>2, <3>1, <3>2, <3>8, OneConnMoves
  <2> QED
    BY <1>0, <1>4, <2>1, <2>2 DEF SelectBackend
<1>5. CASE TryBackend(c)
  <2>1. /\ x.pc = "try"
        /\ {"pc", "who", "listener", "sni", "buf", "route", "tried", "n"} \subseteq DOMAIN x
    BY <1>0, <1>00, <1>5 DEF TryBackend, ConnOK
  <2>2. CASE Becomes(c, NoConn) \/ Becomes(c, [pc |-> "refused"])
    BY <2>2, NoConnOK, OneConnMoves
  <2>3. CASE Becomes(c, [x EXCEPT !.n = @ + 1])
    <3>1. PICK y : y = [x EXCEPT !.n = @ + 1]
      OBVIOUS
    <3>2. DOMAIN y = DOMAIN x /\ y.pc = "try" /\ y.who = x.who /\ y.buf = x.buf
      BY <2>1, <3>1
    <3>3. ConnOK(y)
      BY <1>00, <2>1, <3>2, OnItsWay
    <3> QED
      BY <2>3, <3>1, <3>3, OneConnMoves
  <2>4. ASSUME NEW b, Becomes(c, Knowing(x, [pc |-> "connect", tried |-> x.tried \cup {b}, b |-> b]))
        PROVE  ConnInv'
    <3>1. PICK new : new = [pc |-> "connect", tried |-> x.tried \cup {b}, b |-> b]
      OBVIOUS
    <3>2. PICK y : y = Knowing(x, new)
      OBVIOUS
    <3>4. DOMAIN new = {"pc", "tried", "b"} /\ new["pc"] = "connect"
      BY <3>1
    <3>5. /\ DOMAIN y = DOMAIN new \cup DOMAIN x
          /\ \A a \in DOMAIN new : y[a] = new[a]
          /\ \A a \in DOMAIN x \ DOMAIN new : y[a] = x[a]
      BY <3>2, StillKnown
    <3>6. y.pc = "connect" /\ y.who = x.who /\ y.buf = x.buf
      BY <2>1, <3>4, <3>5
    <3>7. {"pc", "who", "listener", "sni", "buf", "route", "tried", "n"} \subseteq DOMAIN y
      BY <2>1, <3>5
    <3>8. ConnOK(y)
      BY <1>00, <2>1, <3>6, <3>7, OnItsWay
    <3> QED
      BY <2>4, <3>1, <3>2, <3>8, OneConnMoves
  <2>5. \/ Becomes(c, NoConn) \/ Becomes(c, [pc |-> "refused"]) \/ Becomes(c, [x EXCEPT !.n = @ + 1])
        \/ \E b : Becomes(c, Knowing(x, [pc |-> "connect", tried |-> x.tried \cup {b}, b |-> b]))
    BY <1>0, <1>5 DEF TryBackend
  <2> QED
    BY <2>2, <2>3, <2>4, <2>5
<1>6. CASE ConnectBackend(c)
  <2>1. /\ x.pc = "connect"
        /\ {"pc", "who", "listener", "sni", "buf", "route", "tried", "n"} \subseteq DOMAIN x
    BY <1>0, <1>00, <1>6 DEF ConnectBackend, ConnOK
  <2>2. CASE Becomes(c, Knowing(x, [pc |-> "open", sent |-> Preamble(x) \o CopiedRest(x)]))
    <3>1. PICK new : new = [pc |-> "open", sent |-> Preamble(x) \o CopiedRest(x)]
      OBVIOUS
    <3>2. PICK y : y = Knowing(x, new)
      OBVIOUS
    <3>4. DOMAIN new = {"pc", "sent"} /\ new["pc"] = "open" /\ new["sent"] = Preamble(x) \o CopiedRest(x)
      BY <3>1
    <3>5. /\ DOMAIN y = DOMAIN new \cup DOMAIN x
          /\ \A a \in DOMAIN new : y[a] = new[a]
          /\ \A a \in DOMAIN x \ DOMAIN new : y[a] = x[a]
      BY <3>2, StillKnown
    <3>6. /\ y.pc = "open" /\ y.who = x.who /\ y.buf = x.buf /\ y.route = x.route /\ y.listener = x.listener
          /\ y.sent = Preamble(x) \o CopiedRest(x)
      BY <2>1, <3>4, <3>5
    <3>7. {"pc", "who", "listener", "sni", "buf", "route", "tried", "n"} \subseteq DOMAIN y
      BY <2>1, <3>5
    <3>8. Preamble(y) = Preamble(x) /\ CopiedRest(y) = CopiedRest(x)
      BY <3>6 DEF Preamble, CopiedRest
    <3>9. y.buf = <<>> \/ y.buf = Inspect(y.who)
      BY <1>00, <2>1, <3>6 DEF ConnOK
    <3>10. ConnOK(y)
      BY <3>6, <3>7, <3>8, <3>9 DEF ConnOK
    <3> QED
      BY <2>2, <3>1, <3>2, <3>10, OneConnMoves
  <2>3. CASE Becomes(c, [x EXCEPT !.pc = "try", !.n = @ + 1])
    <3>1. PICK y : y = [x EXCEPT !.pc = "try", !.n = @ + 1]
      OBVIOUS
    <3>2. DOMAIN y = DOMAIN x /\ y.pc = "try" /\ y.who = x.who /\ y.buf = x.buf
      BY <2>1, <3>1
    <3>3. ConnOK(y)
      BY <1>00, <2>1, <3>2, OnItsWay
    <3> QED
      BY <2>3, <3>1, <3>3, OneConnMoves
  <2> QED
    BY <1>0, <1>6, <2>2, <2>3 DEF ConnectBackend
<1>7. CASE CloseConnection(c)
  BY <1>7, NoConnOK, OneConnMoves DEF CloseConnection
<1> QED
  BY <1>1, <1>2, <1>3, <1>4, <1>5, <1>6, <1>7 DEF ConnStep

\* Whatever else happens leaves the connections alone or ends them all.
LEMMA IngressNextKeeps ==
    ASSUME ConnInv, [IngressNext]_ingressvars
    PROVE  ConnInv'
<1>1. CASE \E c \in Conns : ConnStep(c)
  BY <1>1, ConnStepKeeps
<1>2. CASE conns' = conns \/ conns' = [c \in Conns |-> NoConn]
  BY <1>2, NoConnOK DEF ConnInv
<1>3. RouteSync \/ BackendSync \/ Feed \/ Faults \/ Cooldown \/ UNCHANGED ingressvars =>
         conns' = conns \/ conns' = [c \in Conns |-> NoConn]
  BY DEF RouteSync, WithProcess, BackendSync, Feed, Faults, Cooldown, ingressvars
<1> QED
  BY <1>1, <1>2, <1>3 DEF IngressNext

LEMMA ConnFollows == ConnInv => StreamIntact
<1>1. SUFFICES ASSUME ConnInv, NEW c \in Conns, conns[c].pc = "open",
                      ~(conns[c].who.says = "slow" /\ conns[c].buf # <<>>)
               PROVE  conns[c].sent = (IF conns[c].route.proxy THEN <<ProxyHeader(conns[c].listener)>> ELSE <<>>)
                                         \o Bytes(conns[c].who)
  BY DEF StreamIntact
<1>2. PICK x : x = conns[c]
  OBVIOUS
<1>3. /\ x.buf = <<>> \/ x.buf = Inspect(x.who)
      /\ x.sent = Preamble(x) \o CopiedRest(x)
  BY <1>1, <1>2 DEF ConnInv, ConnOK
<1>4. PICK S : S = {"proxy_v4", "proxy_v6", "begin", "rest", x.who.says}
  OBVIOUS
<1>5. PICK h : h = IF x.route.proxy THEN <<ProxyHeader(x.listener)>> ELSE <<>>
  OBVIOUS
<1>6. h \in Seq(S)
  <2>1. ProxyHeader(x.listener) \in S
    BY <1>4 DEF ProxyHeader
  <2>2. <<ProxyHeader(x.listener)>> \in Seq(S) /\ <<>> \in Seq(S)
    BY <2>1
  <2> QED
    BY <1>5, <2>2
<1>7. Bytes(x.who) \in Seq(S)
  <2>1. "begin" \in S /\ "rest" \in S /\ x.who.says \in S
    BY <1>4
  <2>2. <<"begin", "rest">> \in Seq(S) /\ <<x.who.says>> \in Seq(S)
    BY <2>1
  <2> QED
    BY <2>2 DEF Bytes
<1>8. x.sent = (h \o x.buf) \o CopiedRest(x)
  BY <1>3, <1>5 DEF Preamble
<1>9. CASE x.buf = <<>>
  <2>1. x.sent = (h \o <<>>) \o Bytes(x.who)
    BY <1>8, <1>9 DEF CopiedRest
  <2> QED
    BY <1>2, <1>5, <1>6, <2>1
<1>10. CASE x.buf # <<>>
  <2>1. x.who.says # "slow" /\ x.buf = Bytes(x.who) /\ CopiedRest(x) = <<>>
    BY <1>1, <1>2, <1>3, <1>10 DEF Inspect, CopiedRest
  <2>2. x.sent = (h \o Bytes(x.who)) \o <<>>
    BY <1>8, <2>1
  <2>3. h \o Bytes(x.who) \in Seq(S)
    BY <1>6, <1>7
  <2>4. x.sent = h \o Bytes(x.who)
    BY <2>2, <2>3
  <2> QED
    BY <1>2, <1>5, <2>4
<1> QED
  BY <1>9, <1>10

\* What was read of a stream and where it goes are known from the moment they are found out.
THEOREM ConnInvariant == IngressSpec => []ConnInv
<1>1. IngressInit => ConnInv
  BY NoConnOK DEF IngressInit, ConnInv
<1>2. ConnInv /\ [IngressNext]_ingressvars => ConnInv'
  BY IngressNextKeeps
<1> QED
  BY <1>1, <1>2, PTL DEF IngressSpec

\* A backend receives the bytes of its client, after a PROXY header if its route asks for one and
\* nothing else, unless looking for a name timed out: for any number of connections, and whatever
\* happens to routes, pools and backends while they are routed.
THEOREM StreamsAreIntact == IngressSpec => []StreamIntact
  BY ConnInvariant, ConnFollows, PTL

----------------------------------------------------------------------------
(* Numbers, and events by their numbers, in order.                           *)

\* The rank of a number in a set: how many members are smaller.
Below(A, i) == {j \in A : j < i}

\* The members of a finite set below one of them are fewer than all.
LEMMA RankFacts ==
    ASSUME NEW A, A \subseteq Nat, IsFiniteSet(A), NEW i \in A
    PROVE  /\ Cardinality(A) \in Nat
           /\ IsFiniteSet(Below(A, i)) /\ Cardinality(Below(A, i)) \in Nat
           /\ Cardinality(Below(A, i)) < Cardinality(A)
<1>1. Below(A, i) \in SUBSET A /\ i \notin Below(A, i)
  BY DEF Below
<1>2. Below(A, i) # A
  BY <1>1
<1>3. IsFiniteSet(Below(A, i)) /\ Cardinality(Below(A, i)) <= Cardinality(A)
  BY <1>1, FS_Subset
<1>4. Cardinality(A) # Cardinality(Below(A, i))
  BY <1>1, <1>2, FS_Subset
<1>5. Cardinality(A) \in Nat /\ Cardinality(Below(A, i)) \in Nat
  BY <1>3, FS_CardinalityType
<1> QED
  BY <1>3, <1>4, <1>5

\* Ranks are ordered as the members are.
LEMMA RankGrows ==
    ASSUME NEW A, A \subseteq Nat, IsFiniteSet(A), NEW i \in A, NEW j \in A
    PROVE  Cardinality(Below(A, i)) < Cardinality(Below(A, j)) <=> i < j
<1>1. ASSUME NEW x \in A, NEW y \in A, x < y
      PROVE  Cardinality(Below(A, x)) < Cardinality(Below(A, y))
  <2>1. x \in Nat /\ y \in Nat
    OBVIOUS
  <2>7. \A z \in A : z \in Nat /\ (z < x => z < y)
    BY <1>1, <2>1
  <2>8. Below(A, x) \in SUBSET Below(A, y)
    BY <2>7 DEF Below
  <2>9. x \in Below(A, y) /\ x \notin Below(A, x)
    BY <1>1, <2>1 DEF Below
  <2>2. Below(A, x) \in SUBSET Below(A, y) /\ x \in Below(A, y) /\ x \notin Below(A, x)
    BY <2>8, <2>9
  <2>3. Below(A, x) # Below(A, y)
    BY <2>2
  <2>4. IsFiniteSet(Below(A, y))
    BY RankFacts
  <2>5. /\ Cardinality(Below(A, x)) <= Cardinality(Below(A, y))
        /\ Cardinality(Below(A, y)) # Cardinality(Below(A, x))
    BY <2>2, <2>3, <2>4, FS_Subset
  <2>6. Cardinality(Below(A, x)) \in Nat /\ Cardinality(Below(A, y)) \in Nat
    BY RankFacts
  <2> QED
    BY <2>5, <2>6
<1>2. i \in Nat /\ j \in Nat
  OBVIOUS
<1>3. Cardinality(Below(A, i)) \in Nat /\ Cardinality(Below(A, j)) \in Nat
  BY RankFacts
<1>4. i < j \/ i = j \/ j < i
  BY <1>2
<1>5. CASE i < j
  BY <1>1, <1>5
<1>6. CASE i = j
  BY <1>2, <1>3, <1>6
<1>7. CASE j < i
  <2>1. Cardinality(Below(A, j)) < Cardinality(Below(A, i))
    BY <1>1, <1>7
  <2> QED
    BY <1>2, <1>3, <1>7, <2>1
<1> QED
  BY <1>4, <1>5, <1>6, <1>7

\* Members have different ranks.
LEMMA RankDistinct ==
    ASSUME NEW A, A \subseteq Nat, IsFiniteSet(A), NEW i \in A, NEW j \in A,
           Cardinality(Below(A, i)) = Cardinality(Below(A, j))
    PROVE  i = j
<1>1. Cardinality(Below(A, i)) \in Nat /\ i \in Nat /\ j \in Nat
  BY RankFacts
<1>2. Cardinality(Below(A, i)) < Cardinality(Below(A, j)) <=> i < j
  BY RankGrows
<1>3. Cardinality(Below(A, j)) < Cardinality(Below(A, i)) <=> j < i
  BY RankGrows
<1> QED
  BY <1>1, <1>2, <1>3

\* Every rank below the size of the set is taken.
LEMMA RankTaken ==
    ASSUME NEW A, A \subseteq Nat, IsFiniteSet(A), NEW k \in Nat, k < Cardinality(A)
    PROVE  \E i \in A : Cardinality(Below(A, i)) = k
<1>1. Cardinality(A) \in Nat
  BY FS_CardinalityType
<1>2. PICK n : n = Cardinality(A) - 1
  OBVIOUS
<1>3. n \in Nat /\ n + 1 = Cardinality(A)
  BY <1>1, <1>2
<1>4. PICK f : f = [i \in A |-> Cardinality(Below(A, i))]
  OBVIOUS
<1>5. ASSUME NEW i \in A PROVE Cardinality(Below(A, i)) \in 0 .. n
  <2>1. Cardinality(Below(A, i)) \in Nat /\ Cardinality(Below(A, i)) < Cardinality(A)
    BY RankFacts
  <2> QED
    BY <1>3, <2>1
<1>6. f \in [A -> 0 .. n]
  BY <1>4, <1>5
<1>7. ASSUME NEW i \in A, NEW j \in A, f[i] = f[j] PROVE i = j
  <2>1. Cardinality(Below(A, i)) = Cardinality(Below(A, j))
    BY <1>4, <1>7
  <2> QED
    BY <2>1, RankDistinct
<1>8. f \in Injection(A, 0 .. n)
  BY <1>6, <1>7 DEF Injection, IsInjective
<1>9. IsFiniteSet(0 .. n) /\ Cardinality(0 .. n) = n + 1
  <2>1. 0 \in Int /\ n \in Int /\ ~(0 > n) /\ (n - 0) + 1 = n + 1
    BY <1>3
  <2>2. IsFiniteSet(0 .. n) /\ Cardinality(0 .. n) = IF 0 > n THEN 0 ELSE (n - 0) + 1
    BY <2>1, FS_Interval
  <2> QED
    BY <2>1, <2>2
<1>10. f \in Surjection(A, 0 .. n)
  BY <1>3, <1>8, <1>9, FS_Injection
<1>11. k \in 0 .. n
  BY <1>1, <1>3
<1>12. PICK i \in A : f[i] = k
  BY <1>10, <1>11 DEF Surjection
<1> QED
  BY <1>4, <1>12

\* The k-th number has k - 1 others below it.
LEMMA AscendingRanks ==
    ASSUME NEW A, A \subseteq Nat, IsFiniteSet(A), NEW k \in 1 .. Cardinality(A)
    PROVE  Ascending(A)[k] \in A /\ Cardinality(Below(A, Ascending(A)[k])) = k - 1
<1>1. Cardinality(A) \in Nat
  BY FS_CardinalityType
<1>2. k - 1 \in Nat /\ k - 1 < Cardinality(A)
  BY <1>1
<1>3. \E i \in A : Cardinality(Below(A, i)) = k - 1
  BY <1>2, RankTaken
<1>4. Ascending(A)[k] = CHOOSE i \in A : Cardinality(Below(A, i)) = k - 1
  BY DEF Ascending, Below
<1> QED
  BY <1>3, <1>4

\* A set of numbers in ascending order.
LEMMA AscendingFacts ==
    ASSUME NEW A, A \subseteq Nat, IsFiniteSet(A)
    PROVE  /\ Ascending(A) \in Seq(A) /\ Len(Ascending(A)) = Cardinality(A)
           /\ \A i, j \in 1 .. Len(Ascending(A)) : i < j => Ascending(A)[i] < Ascending(A)[j]
           /\ \A a \in A : \E k \in 1 .. Len(Ascending(A)) : Ascending(A)[k] = a
<1>0. PICK s : s = Ascending(A)
  OBVIOUS
<1>1. PICK n : n = Cardinality(A)
  OBVIOUS
<1>2. n \in Nat
  BY <1>1, FS_CardinalityType
<1>3. s = [k \in 1 .. n |-> CHOOSE i \in A : Cardinality(Below(A, i)) = k - 1]
  BY <1>0, <1>1 DEF Ascending, Below
<1>4. ASSUME NEW k \in 1 .. n PROVE s[k] \in A /\ Cardinality(Below(A, s[k])) = k - 1
  BY <1>0, <1>1, AscendingRanks
<1>5. s \in Seq(A) /\ Len(s) = n
  BY <1>2, <1>3, <1>4
<1>6. ASSUME NEW i \in 1 .. n, NEW j \in 1 .. n, i < j PROVE s[i] < s[j]
  <2>1. s[i] \in A /\ s[j] \in A /\ Cardinality(Below(A, s[i])) = i - 1 /\ Cardinality(Below(A, s[j])) = j - 1
    BY <1>4
  <2>2. Cardinality(Below(A, s[i])) < Cardinality(Below(A, s[j]))
    BY <1>2, <1>6, <2>1
  <2> QED
    BY <2>1, <2>2, RankGrows
<1>7. ASSUME NEW a \in A PROVE \E k \in 1 .. n : s[k] = a
  <2>1. Cardinality(Below(A, a)) \in Nat /\ Cardinality(Below(A, a)) < n
    BY <1>1, RankFacts
  <2>2. PICK k : k = Cardinality(Below(A, a)) + 1
    OBVIOUS
  <2>3. k \in 1 .. n /\ Cardinality(Below(A, a)) = k - 1
    BY <1>2, <2>1, <2>2
  <2>4. s[k] \in A /\ Cardinality(Below(A, s[k])) = Cardinality(Below(A, a))
    BY <1>4, <2>3
  <2>5. s[k] = a
    BY <2>4, RankDistinct
  <2> QED
    BY <2>3, <2>5
<1> QED
  BY <1>0, <1>1, <1>5, <1>6, <1>7

\* Whatever is ascending is the ascending order of its members.
LEMMA AscendingUnique ==
    ASSUME NEW A, A \subseteq Nat, NEW s \in Seq(A),
           \A i, j \in 1 .. Len(s) : i < j => s[i] < s[j],
           \A a \in A : \E k \in 1 .. Len(s) : s[k] = a
    PROVE  IsFiniteSet(A) /\ s = Ascending(A)
<1>1. PICK n \in Nat : n = Len(s)
  OBVIOUS
<1>2. s \in [1 .. n -> A]
  BY <1>1
<1>3. \A i, j \in 1 .. n : s[i] = s[j] => i = j
  <2>1. ASSUME NEW i \in 1 .. n, NEW j \in 1 .. n, s[i] = s[j] PROVE i = j
    <3>1. s[i] \in Nat
      BY <1>2
    <3>2. ~(i < j) /\ ~(j < i)
      BY <1>1, <2>1, <3>1
    <3> QED
      BY <3>2
  <2> QED
    BY <2>1
<1>4. \A i, j \in 1 .. n : s[i] < s[j] <=> i < j
  <2>1. ASSUME NEW i \in 1 .. n, NEW j \in 1 .. n PROVE s[i] < s[j] <=> i < j
    <3>1. s[i] \in Nat /\ s[j] \in Nat
      BY <1>2
    <3>2. i < j => s[i] < s[j]
      BY <1>1
    <3>3. j < i => s[j] < s[i]
      BY <1>1
    <3> QED
      BY <3>1, <3>2, <3>3
  <2> QED
    BY <2>1
<1>5. ASSUME NEW m \in 0 .. n, NEW B, B = {s[j] : j \in 1 .. m}
      PROVE  IsFiniteSet(B) /\ Cardinality(B) = m
  <2>1. PICK f : f = [j \in 1 .. m |-> s[j]]
    OBVIOUS
  <2>2. f \in Bijection(1 .. m, B)
    <3>1. f \in [1 .. m -> B]
      BY <1>5, <2>1
    <3>2. \A i, j \in 1 .. m : f[i] = f[j] => i = j
      BY <1>3, <2>1
    <3>3. \A b \in B : \E j \in 1 .. m : f[j] = b
      BY <1>5, <2>1
    <3> QED
      BY <3>1, <3>2, <3>3 DEF Bijection, Injection, Surjection, IsInjective
  <2>3. ExistsBijection(1 .. m, B)
    BY <2>2 DEF ExistsBijection
  <2>4. m \in Nat /\ 1 \in Int /\ m \in Int
    OBVIOUS
  <2>5. IsFiniteSet(1 .. m)
    BY <2>4, FS_Interval
  <2>6. IsFiniteSet(B)
    BY <2>3, <2>5, FS_Bijection
  <2>7. Cardinality(B) = m
    BY <2>3, <2>4, FS_CountingElements
  <2> QED
    BY <2>6, <2>7
<1>6. A = {s[j] : j \in 1 .. n}
  BY <1>1, <1>2
<1>7. IsFiniteSet(A) /\ Cardinality(A) = n
  <2>1. n \in 0 .. n
    OBVIOUS
  <2> QED
    BY <1>5, <1>6, <2>1
<1>8. ASSUME NEW k \in 1 .. n PROVE s[k] \in A /\ Cardinality(Below(A, s[k])) = k - 1
  <2>1. k - 1 \in 0 .. n
    OBVIOUS
  <2>2. Below(A, s[k]) = {s[j] : j \in 1 .. (k - 1)}
    <3>1. \A j \in 1 .. n : j < k <=> j \in 1 .. (k - 1)
      OBVIOUS
    <3> QED
      BY <1>4, <1>6, <3>1 DEF Below
  <2>3. Cardinality(Below(A, s[k])) = k - 1
    BY <1>5, <2>1, <2>2
  <2> QED
    BY <1>2, <2>3
<1>9. PICK t : t = Ascending(A)
  OBVIOUS
<1>10. t = [k \in 1 .. n |-> CHOOSE i \in A : Cardinality(Below(A, i)) = k - 1]
  BY <1>7, <1>9 DEF Ascending, Below
<1>11. ASSUME NEW k \in 1 .. n PROVE t[k] = s[k]
  <2>1. s[k] \in A /\ Cardinality(Below(A, s[k])) = k - 1
    BY <1>8
  <2>2. t[k] \in A /\ Cardinality(Below(A, t[k])) = k - 1
    BY <1>10, <2>1
  <2>3. Cardinality(Below(A, t[k])) = Cardinality(Below(A, s[k]))
    BY <2>1, <2>2
  <2> QED
    BY <1>7, <2>1, <2>2, <2>3, RankDistinct
<1>12. s = t
  BY <1>2, <1>10, <1>11
<1> QED
  BY <1>7, <1>9, <1>12

\* Events have numbers of their own.
Numbered(S) == (\A e \in S : e.id \in Nat) /\ \A e, f \in S : e.id = f.id => e = f

\* s has the events of S and no others, in the order of their numbers.
Sorted(s, S) ==
    /\ s \in Seq(S)
    /\ \A i, j \in 1 .. Len(s) : i < j => s[i].id < s[j].id
    /\ \A e \in S : \E k \in 1 .. Len(s) : s[k] = e

\* The events with smaller numbers: events are ranked as their numbers are.
Earlier(S, e) == {f \in S : f.id < e.id}
Ids(S) == {e.id : e \in S}

LEMMA RankedByIds ==
    ASSUME NEW S, IsFiniteSet(S), Numbered(S), NEW A, A = Ids(S)
    PROVE  /\ A \subseteq Nat /\ IsFiniteSet(A) /\ Cardinality(A) = Cardinality(S)
           /\ \A e \in S : Cardinality(Earlier(S, e)) = Cardinality(Below(A, e.id))
<1>1. ASSUME NEW T \in SUBSET S, NEW B, B = {e.id : e \in T}
      PROVE  IsFiniteSet(B) /\ Cardinality(B) = Cardinality(T)
  <2>1. PICK g : g = [e \in T |-> e.id]
    OBVIOUS
  <2>2. g \in Bijection(T, B)
    <3>1. g \in [T -> B]
      BY <1>1, <2>1
    <3>2. \A e, f \in T : g[e] = g[f] => e = f
      BY <2>1 DEF Numbered
    <3>3. \A b \in B : \E e \in T : g[e] = b
      BY <1>1, <2>1
    <3> QED
      BY <3>1, <3>2, <3>3 DEF Bijection, Injection, Surjection, IsInjective
  <2>3. ExistsBijection(T, B)
    BY <2>2 DEF ExistsBijection
  <2>4. IsFiniteSet(T)
    BY FS_Subset
  <2> QED
    BY <2>3, <2>4, FS_Bijection
<1>2. A \subseteq Nat
  BY DEF Numbered, Ids
<1>3. S \in SUBSET S
  OBVIOUS
<1>4. IsFiniteSet(A) /\ Cardinality(A) = Cardinality(S)
  BY <1>1, <1>3 DEF Ids
<1>5. ASSUME NEW e \in S PROVE Cardinality(Earlier(S, e)) = Cardinality(Below(A, e.id))
  <2>1. PICK T : T = Earlier(S, e)
    OBVIOUS
  <2>2. T \in SUBSET S
    BY <2>1 DEF Earlier
  <2>3. Below(A, e.id) = {f.id : f \in T}
    BY <2>1 DEF Below, Earlier, Ids
  <2>4. Cardinality(Below(A, e.id)) = Cardinality(T)
    BY <1>1, <2>2, <2>3
  <2> QED
    BY <2>1, <2>4
<1> QED
  BY <1>2, <1>4, <1>5

LEMMA InOrderByIds ==
    ASSUME NEW S, IsFiniteSet(S), Numbered(S), NEW A, A = Ids(S), NEW ids, ids = Ascending(A)
    PROVE  /\ Len(ids) = Cardinality(S)
           /\ DOMAIN InOrder(S) = 1 .. Len(ids)
           /\ InOrder(S) = [k \in 1 .. Len(ids) |-> InOrder(S)[k]]
           /\ \A k \in 1 .. Len(ids) : InOrder(S)[k] \in S /\ InOrder(S)[k].id = ids[k]
<1>1. /\ A \subseteq Nat /\ IsFiniteSet(A) /\ Cardinality(A) = Cardinality(S)
      /\ \A e \in S : Cardinality(Earlier(S, e)) = Cardinality(Below(A, e.id))
  BY RankedByIds
<1>2. Len(Ascending(A)) = Cardinality(A)
  BY <1>1, AscendingFacts
<1>3. PICK n : n = Cardinality(S)
  OBVIOUS
<1>4. Len(ids) = n /\ n = Cardinality(A)
  BY <1>1, <1>2, <1>3
<1>5. PICK s : s = InOrder(S)
  OBVIOUS
<1>6. s = [k \in 1 .. n |-> CHOOSE e \in S : Cardinality(Earlier(S, e)) = k - 1]
  BY <1>3, <1>5 DEF InOrder, Earlier
<1>7. ASSUME NEW k \in 1 .. n PROVE s[k] \in S /\ s[k].id = ids[k]
  <2>1. PICK i : i = ids[k]
    OBVIOUS
  <2>2. i \in A /\ Cardinality(Below(A, i)) = k - 1
    BY <1>1, <1>4, <2>1, AscendingRanks
  <2>3. PICK e \in S : e.id = i
    BY <2>2 DEF Ids
  <2>4. Cardinality(Earlier(S, e)) = k - 1
    BY <1>1, <2>2, <2>3
  <2>5. PICK x : x = s[k]
    OBVIOUS
  <2>6. x \in S /\ Cardinality(Earlier(S, x)) = k - 1
    BY <1>6, <2>4, <2>5
  <2>7. Cardinality(Below(A, x.id)) = k - 1 /\ x.id \in A
    BY <1>1, <2>6 DEF Ids
  <2>8. x.id = i
    BY <1>1, <2>2, <2>7, RankDistinct
  <2> QED
    BY <2>1, <2>5, <2>6, <2>8
<1> QED
  BY <1>3, <1>4, <1>5, <1>6, <1>7

LEMMA InOrderSorts ==
    ASSUME NEW S, IsFiniteSet(S), Numbered(S)
    PROVE  Sorted(InOrder(S), S)
<1>1. PICK A : A = Ids(S)
  OBVIOUS
<1>2. A \subseteq Nat /\ IsFiniteSet(A)
  BY <1>1, RankedByIds
<1>4. PICK ids : ids = Ascending(A)
  OBVIOUS
<1>5. /\ ids \in Seq(A) /\ Len(ids) = Cardinality(A)
      /\ \A i, j \in 1 .. Len(ids) : i < j => ids[i] < ids[j]
      /\ \A a \in A : \E k \in 1 .. Len(ids) : ids[k] = a
  <2>1. /\ Ascending(A) \in Seq(A) /\ Len(Ascending(A)) = Cardinality(A)
        /\ \A i, j \in 1 .. Len(Ascending(A)) : i < j => Ascending(A)[i] < Ascending(A)[j]
        /\ \A a \in A : \E k \in 1 .. Len(Ascending(A)) : Ascending(A)[k] = a
    BY <1>2, AscendingFacts
  <2> QED
    BY <1>4, <2>1
<1>6. PICK n \in Nat : n = Len(ids)
  BY <1>5
<1>7. PICK s : s = InOrder(S)
  OBVIOUS
<1>8. /\ Len(ids) = Cardinality(S)
      /\ DOMAIN InOrder(S) = 1 .. Len(ids)
      /\ InOrder(S) = [k \in 1 .. Len(ids) |-> InOrder(S)[k]]
      /\ \A k \in 1 .. Len(ids) : InOrder(S)[k] \in S /\ InOrder(S)[k].id = ids[k]
  BY <1>1, <1>4, InOrderByIds
<1>9. s = [k \in 1 .. n |-> s[k]] /\ \A k \in 1 .. n : s[k] \in S /\ s[k].id = ids[k]
  BY <1>6, <1>7, <1>8
<1>10. s \in Seq(S) /\ Len(s) = n
  BY <1>9
<1>11. \A i, j \in 1 .. n : i < j => s[i].id < s[j].id
  BY <1>5, <1>6, <1>9
<1>12. ASSUME NEW e \in S PROVE \E k \in 1 .. n : s[k] = e
  <2>1. PICK k \in 1 .. n : ids[k] = e.id
    BY <1>1, <1>5, <1>6 DEF Ids
  <2> QED
    BY <1>9, <2>1 DEF Numbered
<1> QED
  BY <1>7, <1>10, <1>11, <1>12 DEF Sorted

LEMMA SortedIsInOrder ==
    ASSUME NEW S, Numbered(S), NEW s, Sorted(s, S)
    PROVE  s = InOrder(S)
<1>1. PICK A : A = Ids(S)
  OBVIOUS
<1>2. A \subseteq Nat
  BY <1>1 DEF Numbered, Ids
<1>3. PICK n \in Nat : n = Len(s)
  BY DEF Sorted
<1>4. s \in [1 .. n -> S]
  BY <1>3 DEF Sorted
<1>5. PICK ids : ids = [k \in 1 .. n |-> s[k].id]
  OBVIOUS
<1>6. ids \in Seq(A) /\ Len(ids) = n
  BY <1>1, <1>4, <1>5 DEF Ids
<1>7. \A i, j \in 1 .. Len(ids) : i < j => ids[i] < ids[j]
  BY <1>3, <1>5, <1>6 DEF Sorted
<1>8. \A a \in A : \E k \in 1 .. Len(ids) : ids[k] = a
  BY <1>1, <1>3, <1>5, <1>6 DEF Sorted, Ids
<1>9. ids = Ascending(A)
  BY <1>2, <1>6, <1>7, <1>8, AscendingUnique
<1>10. PICK t : t = InOrder(S)
  OBVIOUS
<1>11. IsFiniteSet(S)
  <2>1. 1 \in Int /\ n \in Int
    OBVIOUS
  <2>2. IsFiniteSet(1 .. n)
    BY <2>1, FS_Interval
  <2>3. s \in Surjection(1 .. n, S)
    BY <1>3, <1>4 DEF Sorted, Surjection
  <2> QED
    BY <2>2, <2>3, FS_Surjection
<1>12. /\ Len(ids) = Cardinality(S)
       /\ DOMAIN InOrder(S) = 1 .. Len(ids)
       /\ InOrder(S) = [k \in 1 .. Len(ids) |-> InOrder(S)[k]]
       /\ \A k \in 1 .. Len(ids) : InOrder(S)[k] \in S /\ InOrder(S)[k].id = ids[k]
  BY <1>1, <1>9, <1>11, InOrderByIds
<1>13. t = [k \in 1 .. n |-> t[k]] /\ \A k \in 1 .. n : t[k] \in S /\ t[k].id = ids[k]
  BY <1>6, <1>10, <1>12
<1>14. ASSUME NEW k \in 1 .. n PROVE t[k] = s[k]
  <2>1. s[k] \in S /\ s[k].id = ids[k]
    BY <1>4, <1>5
  <2> QED
    BY <1>13, <2>1 DEF Numbered
<1>15. s = t
  BY <1>4, <1>13, <1>14
<1> QED
  BY <1>10, <1>15

\* The first events of a sorted sequence are those up to the last of them.
LEMMA FirstSorted ==
    ASSUME NEW S, Numbered(S), NEW s, Sorted(s, S), NEW n \in Nat, NEW t, t = FirstOf(s, n), t # <<>>,
           NEW h, h = Last(t).id
    PROVE  /\ Sorted(t, {e \in S : e.id <= h})
           /\ Last(t) \in S
<1>1. PICK m \in Nat : m = Len(s)
  BY DEF Sorted
<1>2. s \in [1 .. m -> S]
  BY <1>1 DEF Sorted
<1>3. PICK l \in Nat : l = IF Len(s) < n THEN Len(s) ELSE n
  BY <1>1
<1>4. l <= m
  BY <1>1, <1>3
<1>5. t = [k \in 1 .. l |-> s[k]]
  <2>1. t = SubSeq(s, 1, l)
    BY <1>3 DEF FirstOf
  <2>2. s \in Seq(S)
    BY DEF Sorted
  <2> QED
    BY <1>1, <1>4, <2>1, <2>2
<1>6. Len(t) = l /\ t \in Seq(S)
  BY <1>2, <1>4, <1>5
<1>7. l > 0
  BY <1>5, <1>6
<1>8. Last(t) = s[l]
  BY <1>5, <1>6, <1>7 DEF Last
<1>9. \A k \in 1 .. m : s[k].id \in Nat
  BY <1>2 DEF Numbered
<1>10. h = s[l].id
  BY <1>8
<1>11. \A k \in 1 .. m : s[k].id <= h <=> k <= l
  <2>1. ASSUME NEW k \in 1 .. m PROVE s[k].id <= h <=> k <= l
    <3>1. k < l => s[k].id < s[l].id
      BY <1>1, <1>4, <1>7 DEF Sorted
    <3>2. l < k => s[l].id < s[k].id
      BY <1>1, <1>4, <1>7 DEF Sorted
    <3>3. s[k].id \in Nat /\ s[l].id \in Nat
      BY <1>4, <1>7, <1>9
    <3> QED
      BY <1>10, <3>1, <3>2, <3>3
  <2> QED
    BY <2>1
<1>12. PICK T : T = {e \in S : e.id <= h}
  OBVIOUS
<1>13. \A k \in 1 .. l : t[k] \in T
  <2>1. ASSUME NEW k \in 1 .. l PROVE t[k] \in T
    <3>1. k \in 1 .. m /\ k <= l
      BY <1>4
    <3>2. s[k] \in S /\ s[k].id <= h
      BY <1>2, <1>11, <3>1
    <3> QED
      BY <1>5, <1>12, <3>2
  <2> QED
    BY <2>1
<1>14. t \in Seq(T)
  BY <1>5, <1>13
<1>15. \A i, j \in 1 .. l : i < j => t[i].id < t[j].id
  BY <1>1, <1>4, <1>5 DEF Sorted
<1>16. ASSUME NEW e \in T PROVE \E k \in 1 .. l : t[k] = e
  <2>1. e \in S /\ e.id <= h
    BY <1>12
  <2>2. PICK k \in 1 .. m : s[k] = e
    BY <1>1, <2>1 DEF Sorted
  <2>3. k \in 1 .. l
    BY <1>11, <2>1, <2>2
  <2> QED
    BY <1>5, <2>2, <2>3
<1>17. Sorted(t, T)
  BY <1>6, <1>14, <1>15, <1>16 DEF Sorted
<1>18. Last(t) \in S
  BY <1>2, <1>4, <1>7, <1>8
<1> QED
  BY <1>12, <1>17, <1>18

\* Sorted sequences one after the other.
LEMMA ConcatSorted ==
    ASSUME NEW A, NEW B, NEW s, NEW t, Sorted(s, A), Sorted(t, B),
           \A a \in A, b \in B : a.id < b.id
    PROVE  Sorted(s \o t, A \cup B)
<1>2. s \in Seq(A) /\ t \in Seq(B)
  BY DEF Sorted
<1>a. Len(s) \in Nat /\ Len(t) \in Nat
  BY <1>2
<1>1. PICK m \in Nat, n \in Nat : m = Len(s) /\ n = Len(t)
  BY <1>a
<1>3. s \in Seq(A \cup B) /\ t \in Seq(A \cup B)
  BY <1>2
<1>4. PICK u : u = s \o t
  OBVIOUS
<1>5. u \in Seq(A \cup B) /\ Len(u) = m + n
  BY <1>1, <1>3, <1>4
<1>6. /\ \A k \in 1 .. m : u[k] = s[k] /\ s[k] \in A
      /\ \A k \in 1 .. n : u[m + k] = t[k] /\ t[k] \in B
  BY <1>1, <1>2, <1>4
<1>7. \A k \in (m + 1) .. (m + n) : u[k] = t[k - m] /\ t[k - m] \in B /\ k - m \in 1 .. n
  <2>1. ASSUME NEW k \in (m + 1) .. (m + n) PROVE u[k] = t[k - m] /\ t[k - m] \in B /\ k - m \in 1 .. n
    <3>1. k - m \in 1 .. n /\ m + (k - m) = k
      OBVIOUS
    <3> QED
      BY <1>6, <3>1
  <2> QED
    BY <2>1
<1>8. ASSUME NEW i \in 1 .. (m + n), NEW j \in 1 .. (m + n), i < j PROVE u[i].id < u[j].id
  <2>1. CASE j <= m
    <3>1. i \in 1 .. m /\ j \in 1 .. m
      BY <1>8, <2>1
    <3>2. s[i].id < s[j].id
      BY <1>1, <1>8, <3>1 DEF Sorted
    <3> QED
      BY <1>6, <3>1, <3>2
  <2>2. CASE i <= m /\ m < j
    <3>1. i \in 1 .. m /\ j \in (m + 1) .. (m + n)
      BY <2>2
    <3> QED
      BY <1>6, <1>7, <3>1
  <2>3. CASE m < i
    <3>1. i \in (m + 1) .. (m + n) /\ j \in (m + 1) .. (m + n) /\ i - m < j - m
      BY <1>8, <2>3
    <3>2. i - m \in 1 .. n /\ j - m \in 1 .. n
      BY <3>1
    <3>3. t[i - m].id < t[j - m].id
      BY <1>1, <3>1, <3>2 DEF Sorted
    <3> QED
      BY <1>7, <3>1, <3>3
  <2> QED
    BY <1>8, <2>1, <2>2, <2>3
<1>9. ASSUME NEW e \in A \cup B PROVE \E k \in 1 .. (m + n) : u[k] = e
  <2>1. CASE e \in A
    <3>1. PICK k \in 1 .. m : s[k] = e
      BY <1>1, <2>1 DEF Sorted
    <3>2. k \in 1 .. (m + n)
      OBVIOUS
    <3> QED
      BY <1>6, <3>1, <3>2
  <2>2. CASE e \in B
    <3>1. PICK k \in 1 .. n : t[k] = e
      BY <1>1, <2>2 DEF Sorted
    <3>2. m + k \in 1 .. (m + n)
      OBVIOUS
    <3> QED
      BY <1>6, <3>1, <3>2
  <2> QED
    BY <2>1, <2>2
<1> QED
  BY <1>4, <1>5, <1>8, <1>9 DEF Sorted

----------------------------------------------------------------------------
(* Applying events one after the other.                                      *)

\* The least-number principle, and induction over a set of numbers.
LEMMA LeastNatural ==
    ASSUME NEW S \in SUBSET Nat, S # {}
    PROVE  \E m \in S : \A k \in S : m <= k
<1>1. PICK m \in S : \A k \in S : ~(<<k, m>> \in OpToRel(<, Nat))
  BY NatLessThanWellFounded, WFMin
<1>2. \A k \in S : ~(k < m)
  BY <1>1 DEF OpToRel
<1> QED
  BY <1>2

LEMMA NaturalsBySteps ==
    ASSUME NEW S \in SUBSET Nat, 0 \in S, \A k \in S : k + 1 \in S
    PROVE  \A k \in Nat : k \in S
<1>1. SUFFICES ASSUME Nat \ S # {} PROVE FALSE
  OBVIOUS
<1>2. PICK m \in Nat \ S : \A k \in Nat \ S : m <= k
  <2>1. PICK T : T = Nat \ S
    OBVIOUS
  <2>2. T \in SUBSET Nat /\ T # {}
    BY <1>1, <2>1
  <2>3. PICK l \in T : \A k \in T : l <= k
    BY <2>2, LeastNatural
  <2> QED
    BY <2>1, <2>3
<1>3. m - 1 \in Nat /\ m - 1 \notin Nat \ S
  BY <1>2
<1>4. (m - 1) + 1 \in S
  BY <1>3
<1> QED
  BY <1>2, <1>4

\* g[k] is what the first k items make of rs.
Follows(g, rs, items, n) ==
    /\ g = [k \in 0 .. n |-> g[k]]
    /\ g[0] = rs
    /\ \A k \in 1 .. n : g[k] = ApplyRouteEvent(g[k - 1], items[k])

LEMMA FollowsExists ==
    ASSUME NEW rs, NEW items, NEW N \in Nat
    PROVE  \E g : Follows(g, rs, items, N)
<1>1. PICK S : S = {n \in Nat : \E g : Follows(g, rs, items, n)}
  OBVIOUS
<1>2. 0 \in S
  <2>1. PICK g : g = [k \in 0 .. 0 |-> rs]
    OBVIOUS
  <2>2. Follows(g, rs, items, 0)
    BY <2>1 DEF Follows
  <2> QED
    BY <1>1, <2>2
<1>3. ASSUME NEW n \in S PROVE n + 1 \in S
  <2>1. n \in Nat
    BY <1>1
  <2>2. PICK g : Follows(g, rs, items, n)
    BY <1>1
  <2>3. PICK x : x = ApplyRouteEvent(g[n], items[n + 1])
    OBVIOUS
  <2>4. PICK h : h = [k \in 0 .. (n + 1) |-> IF k = n + 1 THEN x ELSE g[k]]
    OBVIOUS
  <2>5. h[0] = rs
    BY <2>1, <2>2, <2>4 DEF Follows
  <2>6. ASSUME NEW k \in 1 .. (n + 1) PROVE h[k] = ApplyRouteEvent(h[k - 1], items[k])
    <3>1. k - 1 \in 0 .. n /\ h[k - 1] = g[k - 1]
      BY <2>1, <2>4
    <3>2. CASE k = n + 1
      <4>1. k - 1 = n /\ h[k] = x
        BY <2>1, <2>4, <3>2
      <4> QED
        BY <2>3, <3>1, <3>2, <4>1
    <3>3. CASE k # n + 1
      <4>1. k \in 1 .. n /\ h[k] = g[k]
        BY <2>1, <2>4, <3>3
      <4>2. g[k] = ApplyRouteEvent(g[k - 1], items[k])
        BY <2>2, <4>1 DEF Follows
      <4> QED
        BY <3>1, <4>1, <4>2
    <3> QED
      BY <3>2, <3>3
  <2>7. Follows(h, rs, items, n + 1)
    BY <2>4, <2>5, <2>6 DEF Follows
  <2> QED
    BY <1>1, <2>1, <2>7
<1>4. S \in SUBSET Nat
  BY <1>1
<1>5. N \in S
  BY <1>2, <1>3, <1>4, NaturalsBySteps
<1> QED
  BY <1>1, <1>5

LEMMA AppliedFollows ==
    ASSUME NEW rs, NEW items, Len(items) \in Nat
    PROVE  Follows(Applied(rs, items), rs, items, Len(items))
<1>1. PICK N \in Nat : N = Len(items)
  OBVIOUS
<1>2. PICK g : Follows(g, rs, items, N)
  BY FollowsExists
<1>3. g = [k \in 0 .. N |-> IF k = 0 THEN rs ELSE ApplyRouteEvent(g[k - 1], items[k])]
  <2>1. PICK h : h = [k \in 0 .. N |-> IF k = 0 THEN rs ELSE ApplyRouteEvent(g[k - 1], items[k])]
    OBVIOUS
  <2>2. ASSUME NEW k \in 0 .. N PROVE h[k] = g[k]
    <3>1. CASE k = 0
      BY <1>2, <2>1, <3>1 DEF Follows
    <3>2. CASE k # 0
      <4>1. k \in 1 .. N
        BY <3>2
      <4> QED
        BY <1>2, <2>1, <3>2, <4>1 DEF Follows
    <3> QED
      BY <3>1, <3>2
  <2>3. g = [k \in 0 .. N |-> g[k]]
    BY <1>2 DEF Follows
  <2>4. h = g
    BY <2>1, <2>2, <2>3
  <2> QED
    BY <2>1, <2>4
<1>4. PICK f : f = Applied(rs, items)
  OBVIOUS
<1>5. f = [k \in 0 .. N |-> IF k = 0 THEN rs ELSE ApplyRouteEvent(f[k - 1], items[k])]
  BY <1>1, <1>3, <1>4, Zenon DEF Applied
<1>6. Follows(f, rs, items, N)
  <2>1. f = [k \in 0 .. N |-> f[k]] /\ f[0] = rs
    BY <1>5
  <2>2. ASSUME NEW k \in 1 .. N PROVE f[k] = ApplyRouteEvent(f[k - 1], items[k])
    <3>1. k \in 0 .. N /\ k # 0
      OBVIOUS
    <3> QED
      BY <1>5, <3>1
  <2> QED
    BY <2>1, <2>2 DEF Follows
<1> QED
  BY <1>1, <1>4, <1>6

\* Two computations over the same items agree, wherever the first begins.
StepsFrom(g, a, items, n) == \A k \in 1 .. n : g[a + k] = ApplyRouteEvent(g[(a + k) - 1], items[k])

LEMMA FollowsSteps ==
    ASSUME NEW g, NEW rs, NEW items, NEW n \in Nat, Follows(g, rs, items, n)
    PROVE  StepsFrom(g, 0, items, n)
<1>1. ASSUME NEW k \in 1 .. n PROVE g[0 + k] = ApplyRouteEvent(g[(0 + k) - 1], items[k])
  <2>1. g[k] = ApplyRouteEvent(g[k - 1], items[k])
    BY DEF Follows
  <2>2. 0 + k = k
    OBVIOUS
  <2> QED
    BY <2>1, <2>2
<1> QED
  BY <1>1 DEF StepsFrom

LEMMA SameSteps ==
    ASSUME NEW g, NEW h, NEW items, NEW a \in Nat, NEW n \in Nat, g[a] = h[0],
           StepsFrom(g, a, items, n), StepsFrom(h, 0, items, n)
    PROVE  g[a + n] = h[n]
<1>1. PICK S : S = {k \in Nat : k <= n => g[a + k] = h[k]}
  OBVIOUS
<1>2. 0 \in S
  BY <1>1
<1>3. ASSUME NEW k \in S PROVE k + 1 \in S
  <2>1. k \in Nat
    BY <1>1
  <2>2. SUFFICES ASSUME k + 1 <= n PROVE g[a + (k + 1)] = h[k + 1]
    BY <1>1, <2>1
  <2>3. k + 1 \in 1 .. n /\ k <= n /\ (a + (k + 1)) - 1 = a + k /\ (k + 1) - 1 = k
    BY <2>1, <2>2
  <2>4. g[a + k] = h[k]
    BY <1>1, <2>3
  <2>5. g[a + (k + 1)] = ApplyRouteEvent(g[(a + (k + 1)) - 1], items[k + 1])
    BY <2>3 DEF StepsFrom
  <2>6. h[0 + (k + 1)] = ApplyRouteEvent(h[(0 + (k + 1)) - 1], items[k + 1])
    BY <2>3 DEF StepsFrom
  <2>7. 0 + (k + 1) = k + 1 /\ (0 + (k + 1)) - 1 = k
    BY <2>1
  <2> QED
    BY <2>3, <2>4, <2>5, <2>6, <2>7
<1>4. S \in SUBSET Nat
  BY <1>1
<1>5. n \in S
  BY <1>2, <1>3, <1>4, NaturalsBySteps
<1> QED
  BY <1>1, <1>5

\* Applying nothing, and applying two sequences one after the other.
LEMMA ApplyNothing ==
    ASSUME NEW rs PROVE ApplyItems(rs, <<>>) = rs
<1>1. Len(<<>>) = 0 /\ 0 \in Nat
  OBVIOUS
<1>2. Follows(Applied(rs, <<>>), rs, <<>>, 0)
  BY <1>1, AppliedFollows
<1> QED
  BY <1>1, <1>2 DEF Follows, ApplyItems

LEMMA ApplyConcat ==
    ASSUME NEW rs, NEW T, NEW s \in Seq(T), NEW t \in Seq(T)
    PROVE  ApplyItems(rs, s \o t) = ApplyItems(ApplyItems(rs, s), t)
<1>1. PICK u : u = s \o t
  OBVIOUS
<1>2. PICK m \in Nat, n \in Nat : m = Len(s) /\ n = Len(t)
  <2>1. Len(s) \in Nat /\ Len(t) \in Nat
    OBVIOUS
  <2> QED
    BY <2>1
<1>3. /\ Len(u) = m + n
      /\ \A k \in 1 .. m : u[k] = s[k]
      /\ \A k \in 1 .. n : u[m + k] = t[k]
  BY <1>1, <1>2
<1>4. PICK f, g : f = Applied(rs, u) /\ g = Applied(rs, s)
  OBVIOUS
<1>5. PICK h : h = Applied(g[m], t)
  OBVIOUS
<1>6. Follows(f, rs, u, m + n)
  <2>1. Len(u) \in Nat
    BY <1>3
  <2>2. Follows(Applied(rs, u), rs, u, Len(u))
    BY <2>1, AppliedFollows
  <2> QED
    BY <1>3, <1>4, <2>2
<1>7. Follows(g, rs, s, m)
  <2>2. Follows(Applied(rs, s), rs, s, Len(s))
    BY <1>2, AppliedFollows
  <2> QED
    BY <1>2, <1>4, <2>2
<1>8. Follows(h, g[m], t, n)
  <2>2. Follows(Applied(g[m], t), g[m], t, Len(t))
    BY <1>2, AppliedFollows
  <2> QED
    BY <1>2, <1>5, <2>2
<1>9. f[m] = g[m]
  <2>1. f[0] = g[0]
    BY <1>6, <1>7 DEF Follows
  <2>2. ASSUME NEW k \in 1 .. m PROVE f[0 + k] = ApplyRouteEvent(f[(0 + k) - 1], s[k])
    <3>1. k \in 1 .. (m + n) /\ 0 + k = k
      OBVIOUS
    <3>2. f[k] = ApplyRouteEvent(f[k - 1], u[k])
      BY <1>6, <3>1 DEF Follows
    <3> QED
      BY <1>3, <3>1, <3>2
  <2>3. StepsFrom(g, 0, s, m)
    BY <1>7, FollowsSteps
  <2>4. 0 \in Nat /\ StepsFrom(f, 0, s, m)
    BY <2>2 DEF StepsFrom
  <2>5. f[0 + m] = g[m]
    BY <2>1, <2>3, <2>4, SameSteps
  <2> QED
    BY <2>5
<1>10. f[m + n] = h[n]
  <2>1. f[m] = h[0]
    BY <1>8, <1>9 DEF Follows
  <2>2. ASSUME NEW k \in 1 .. n PROVE f[m + k] = ApplyRouteEvent(f[(m + k) - 1], t[k])
    <3>1. m + k \in 1 .. (m + n)
      OBVIOUS
    <3>2. f[m + k] = ApplyRouteEvent(f[(m + k) - 1], u[m + k])
      BY <1>6, <3>1 DEF Follows
    <3> QED
      BY <1>3, <3>2
  <2>3. StepsFrom(h, 0, t, n)
    BY <1>8, FollowsSteps
  <2>4. StepsFrom(f, m, t, n)
    BY <2>2 DEF StepsFrom
  <2> QED
    BY <2>1, <2>3, <2>4, SameSteps
<1>11. ApplyItems(rs, u) = f[m + n] /\ ApplyItems(rs, s) = g[m]
  BY <1>2, <1>3, <1>4 DEF ApplyItems
<1>12. ApplyItems(g[m], t) = h[n]
  BY <1>2, <1>5 DEF ApplyItems
<1> QED
  BY <1>1, <1>10, <1>11, <1>12

\* What holds of the routes before the events and is kept by each of them: a route has the id
\* of its place and the environment of its id.
RoutesOK(rs) ==
    /\ DOMAIN rs = RouteIds
    /\ \A r \in RouteIds :
          rs[r] = NoRoute \/ ({"id", "env"} \subseteq DOMAIN rs[r] /\ rs[r].id = r /\ rs[r].env = EnvOf[r])
ItemOK(e) ==
    e.type \in {"route.created", "route.updated", "route.deleted"} =>
        e.route \in RouteIds /\ e.env = EnvOf[e.route]

LEMMA EventKeepsRoutes ==
    ASSUME NEW rs, RoutesOK(rs), NEW e, ItemOK(e)
    PROVE  RoutesOK(ApplyRouteEvent(rs, e))
<1>1. CASE e.type = "route.created"
  <2>1. e.route \in RouteIds /\ e.env = EnvOf[e.route]
    BY <1>1 DEF ItemOK
  <2>2. ApplyRouteEvent(rs, e) = [rs EXCEPT ![e.route] = FromCreated(e)]
    BY <1>1 DEF ApplyRouteEvent
  <2>3. PICK x : x = FromCreated(e)
    OBVIOUS
  <2>4. {"id", "env"} \subseteq DOMAIN x /\ x.id = e.route /\ x.env = e.env
    BY <2>3 DEF FromCreated, Knowing
  <2> QED
    BY <2>1, <2>2, <2>3, <2>4 DEF RoutesOK
<1>2. CASE e.type = "route.updated" /\ rs[e.route] # NoRoute
  <2>1. e.route \in RouteIds
    BY <1>2 DEF ItemOK
  <2>2. ApplyRouteEvent(rs, e) = [rs EXCEPT ![e.route] = ApplyUpdate(rs[e.route], e)]
    BY <1>2 DEF ApplyRouteEvent
  <2>3. PICK x : x = rs[e.route]
    OBVIOUS
  <2>4. {"id", "env"} \subseteq DOMAIN x /\ x.id = e.route /\ x.env = EnvOf[e.route]
    BY <1>2, <2>1, <2>3 DEF RoutesOK
  <2>5. PICK y : y = ApplyUpdate(x, e)
    OBVIOUS
  <2>6. {"id", "env"} \subseteq DOMAIN y /\ y.id = x.id /\ y.env = x.env
    BY <2>4, <2>5 DEF ApplyUpdate
  <2> QED
    BY <2>1, <2>2, <2>3, <2>4, <2>5, <2>6 DEF RoutesOK
<1>3. CASE e.type = "route.deleted"
  <2>1. e.route \in RouteIds
    BY <1>3 DEF ItemOK
  <2>2. ApplyRouteEvent(rs, e) = [rs EXCEPT ![e.route] = NoRoute]
    BY <1>3 DEF ApplyRouteEvent
  <2> QED
    BY <2>1, <2>2 DEF RoutesOK
<1>4. CASE /\ e.type \notin {"route.created", "route.deleted"}
           /\ ~(e.type = "route.updated" /\ rs[e.route] # NoRoute)
  BY <1>4 DEF ApplyRouteEvent
<1> QED
  BY <1>1, <1>2, <1>3, <1>4

LEMMA ItemsKeepRoutes ==
    ASSUME NEW rs, RoutesOK(rs), NEW T, NEW items \in Seq(T), \A e \in T : ItemOK(e)
    PROVE  RoutesOK(ApplyItems(rs, items))
<1>1. PICK n \in Nat : n = Len(items)
  OBVIOUS
<1>2. PICK f : f = Applied(rs, items)
  OBVIOUS
<1>3. Follows(f, rs, items, n)
  BY <1>1, <1>2, AppliedFollows
<1>4. PICK S : S = {k \in Nat : k <= n => RoutesOK(f[k])}
  OBVIOUS
<1>5. 0 \in S
  BY <1>3, <1>4 DEF Follows
<1>6. ASSUME NEW k \in S PROVE k + 1 \in S
  <2>1. k \in Nat
    BY <1>4
  <2>2. SUFFICES ASSUME k + 1 <= n PROVE RoutesOK(f[k + 1])
    BY <1>4, <2>1
  <2>3. k + 1 \in 1 .. n /\ k <= n /\ (k + 1) - 1 = k
    BY <2>1, <2>2
  <2>4. RoutesOK(f[k])
    BY <1>4, <2>3
  <2>5. f[k + 1] = ApplyRouteEvent(f[(k + 1) - 1], items[k + 1])
    BY <1>3, <2>3 DEF Follows
  <2>6. ItemOK(items[k + 1])
    BY <1>1, <2>3
  <2>7. RoutesOK(ApplyRouteEvent(f[k], items[k + 1]))
    BY <2>4, <2>6, EventKeepsRoutes
  <2> QED
    BY <2>3, <2>5, <2>7
<1>7. S \in SUBSET Nat
  BY <1>4
<1>8. n \in S
  BY <1>5, <1>6, <1>7, NaturalsBySteps
<1> QED
  BY <1>1, <1>2, <1>4, <1>8 DEF ApplyItems

\* Other events change nothing.
LEMMA OthersChangeNothing ==
    ASSUME NEW rs, NEW T, NEW items \in Seq(T), \A k \in 1 .. Len(items) : items[k].type = "other"
    PROVE  ApplyItems(rs, items) = rs
<1>1. PICK n \in Nat : n = Len(items)
  OBVIOUS
<1>2. PICK f : f = Applied(rs, items)
  OBVIOUS
<1>3. Follows(f, rs, items, n)
  BY <1>1, <1>2, AppliedFollows
<1>4. PICK S : S = {k \in Nat : k <= n => f[k] = rs}
  OBVIOUS
<1>5. 0 \in S
  BY <1>3, <1>4 DEF Follows
<1>6. ASSUME NEW k \in S PROVE k + 1 \in S
  <2>1. k \in Nat
    BY <1>4
  <2>2. SUFFICES ASSUME k + 1 <= n PROVE f[k + 1] = rs
    BY <1>4, <2>1
  <2>3. k + 1 \in 1 .. n /\ k <= n /\ (k + 1) - 1 = k
    BY <2>1, <2>2
  <2>4. f[k] = rs
    BY <1>4, <2>3
  <2>5. f[k + 1] = ApplyRouteEvent(f[(k + 1) - 1], items[k + 1])
    BY <1>3, <2>3 DEF Follows
  <2>6. items[k + 1].type = "other"
    BY <1>1, <2>3
  <2> QED
    BY <2>3, <2>4, <2>5, <2>6 DEF ApplyRouteEvent
<1>7. S \in SUBSET Nat
  BY <1>4
<1>8. n \in S
  BY <1>5, <1>6, <1>7, NaturalsBySteps
<1> QED
  BY <1>1, <1>2, <1>4, <1>8 DEF ApplyItems

----------------------------------------------------------------------------
(* The invariant.                                                            *)

EventKeys == {"id", "org", "type", "route", "env", "body", "late"}
EventOK(e) == DOMAIN e = EventKeys /\ e.id \in Nat \ {0} /\ (e.org = "mine" => ItemOK(e))

LogInv ==
    /\ nextId \in Nat \ {0} /\ IsFiniteSet(rows)
    /\ \A e \in rows \cup open : EventOK(e) /\ e.id < nextId
    /\ \A e, f \in rows : e.id = f.id => e = f
    /\ \A e, f \in open : e.id = f.id => e = f
    /\ \A e \in rows, f \in open : e.id # f.id

\* A cursor is where some response ended, or the beginning.
Seen(h) == h = 0 \/ \E e \in rows : e.id = h

\* rs are the routes of the log from lo to hi.
Reads(rs, lo, hi) ==
    /\ RoutesOK(rs)
    /\ lo \in Nat /\ hi \in Nat /\ lo <= hi /\ Seen(hi)
    /\ ~LateIn(lo, hi) => rs = Logged(lo, hi)

\* A response has the rows up to its last one.
RespOK(resp) ==
    /\ resp.items \in Seq({e \in rows : e.org = "mine"})
    /\ resp.next \in Nat /\ cursor < resp.next /\ Seen(resp.next)
    /\ ~LateIn(cursor, resp.next) => Sorted(resp.items, Window(cursor, resp.next))

SyncInv ==
    /\ table = routes /\ shown = cursor
    /\ store \in {"state", "cursor", "none"}
    /\ DOMAIN sync = {"pc", "resp"}
    /\ Reads(routes, from, cursor)
    /\ Reads(saved.routes, saved.from, saved.cursor)
    /\ sync.pc = "apply" => RespOK(sync.resp)

\* The pool of a route has instances of its environment.
OfRouteEnv(b, r) == InstanceOf[b.inst].env = EnvOf[r]
PoolOK(p, r) ==
    /\ Len(p) \in Nat /\ p = [k \in 1 .. Len(p) |-> p[k]]
    /\ \A k \in 1 .. Len(p) : {"inst", "target", "health"} \subseteq DOMAIN p[k] /\ OfRouteEnv(p[k], r)
BackendInv ==
    /\ ready \subseteq Instances
    /\ rr \in [RouteIds -> Nat]
    /\ DOMAIN pools = RouteIds /\ \A r \in RouteIds : PoolOK(pools[r], r)
    /\ bsync # IdleSync =>
          /\ bsync.id \in RouteIds /\ Len(bsync.got) \in Nat
          /\ \A k \in 1 .. Len(bsync.got) : OfRouteEnv(bsync.got[k], bsync.id)

\* A connection with a route: it is the owner's, and so is the backend it is given.
RoutedOK(x) ==
    /\ {"from", "shown"} \subseteq DOMAIN x
    /\ x.route.id \in RouteIds /\ x.route.env = EnvOf[x.route.id]
    /\ Seen(x.shown)
    /\ ~LateIn(x.from, x.shown) => x.route.env \in Owners(x)
TargetOK(x) ==
    /\ x.pc \in {"select", "try", "connect"} => x.n \in Nat
    /\ x.pc \in {"try", "connect"} => "sel" \in DOMAIN x /\ x.sel.n \in Nat \ {0} /\ x.sel.start \in Nat
    /\ x.pc \in {"connect", "open"} => "b" \in DOMAIN x /\ OfRouteEnv(x.b, x.route.id)
RoutedInv ==
    \A c \in Conns : conns[c].pc \in {"select", "try", "connect", "open"} =>
        RoutedOK(conns[c]) /\ TargetOK(conns[c])

EdgeInv == LogInv /\ SyncInv /\ BackendInv /\ RoutedInv

----------------------------------------------------------------------------
(* The log.                                                                  *)

\* Rows are added, at the end or marked as late.
Grows ==
    /\ rows \subseteq rows'
    /\ \A e \in rows' \ rows : e.late \/ \A f \in rows : f.id < e.id

LEMMA NewEventsOK ==
    ASSUME nextId \in Nat \ {0}, NEW e \in NewEvents
    PROVE  EventOK(e) /\ e.id = nextId /\ e.late = FALSE
<1>1. PICK org, type, r, body :
          /\ e = Event(nextId, org, type, r, body)
          /\ org # "mine" \/ type = "other" \/ r \in RouteIds
  <2>1. \/ \E r \in RouteIds, b \in NewRoutes : e = Event(nextId, "mine", "route.created", r, b)
        \/ \E r \in RouteIds, t \in Targets : e = Event(nextId, "mine", "route.updated", r, [target |-> t])
        \/ \E r \in RouteIds : e = Event(nextId, "mine", "route.deleted", r, NoBody)
        \/ e = Event(nextId, "mine", "other", None, NoBody)
        \/ e = Event(nextId, "other", "route.created", None, NoBody)
    BY DEF NewEvents
  <2>2. "other" # "mine"
    OBVIOUS
  <2> QED
    BY <2>1, <2>2, Zenon
<1>2. PICK env : env = IF r = None THEN "none" ELSE EnvOf[r]
  OBVIOUS
<1>3. e = [id |-> nextId, org |-> org, type |-> type, route |-> r, env |-> env, body |-> body, late |-> FALSE]
  BY <1>1, <1>2 DEF Event
<1>4. DOMAIN e = EventKeys
  BY <1>3 DEF EventKeys
<1>5. r \in RouteIds => env = EnvOf[r]
  BY <1>2, FeedAssumption DEF None
<1>6. e.org = "mine" => ItemOK(e)
  BY <1>1, <1>3, <1>5 DEF ItemOK
<1> QED
  BY <1>3, <1>4, <1>6 DEF EventOK

LEMMA AppendKeepsLog ==
    ASSUME LogInv, AppendEvent
    PROVE  LogInv' /\ Grows
<1>1. PICK e \in NewEvents : rows' = rows \cup {e}
  BY DEF AppendEvent
<1>2. EventOK(e) /\ e.id = nextId
  BY NewEventsOK DEF LogInv
<1>3. nextId' = nextId + 1 /\ open' = open /\ nextId \in Nat \ {0}
  BY DEF AppendEvent, LogInv
<1>4. IsFiniteSet(rows')
  BY <1>1, FS_AddElement DEF LogInv
<1>5. \A f \in rows \cup open : EventOK(f) /\ f.id < nextId /\ f.id \in Nat
  BY DEF LogInv, EventOK
<1>6. \A f \in rows' \cup open' : EventOK(f) /\ f.id < nextId'
  BY <1>1, <1>2, <1>3, <1>5
<1>7. \A f, g \in rows' : f.id = g.id => f = g
  <2>1. ASSUME NEW f \in rows PROVE f.id # e.id
    BY <1>2, <1>3, <1>5
  <2> QED
    BY <1>1, <2>1 DEF LogInv
<1>8. \A f \in rows', g \in open' : f.id # g.id
  <2>1. ASSUME NEW g \in open PROVE e.id # g.id
    BY <1>2, <1>3, <1>5
  <2> QED
    BY <1>1, <1>3, <2>1 DEF LogInv
<1>9. LogInv'
  <2>1. nextId' \in Nat \ {0}
    BY <1>3
  <2>2. \A f, g \in open' : f.id = g.id => f = g
    BY <1>3 DEF LogInv
  <2> QED
    BY <1>4, <1>6, <1>7, <1>8, <2>1, <2>2 DEF LogInv, EventOK, ItemOK
<1>10. Grows
  BY <1>1, <1>2, <1>5 DEF Grows
<1> QED
  BY <1>9, <1>10

LEMMA InsertKeepsLog ==
    ASSUME LogInv, InsertEvent
    PROVE  LogInv' /\ Grows
<1>1. PICK e \in NewEvents : open' = {e}
  BY DEF InsertEvent
<1>2. EventOK(e) /\ e.id = nextId
  BY NewEventsOK DEF LogInv
<1>3. nextId' = nextId + 1 /\ rows' = rows /\ nextId \in Nat \ {0}
  BY DEF InsertEvent, LogInv
<1>4. \A f \in rows : EventOK(f) /\ f.id < nextId /\ f.id \in Nat
  BY DEF LogInv, EventOK
<1>5. \A f \in rows' \cup open' : EventOK(f) /\ f.id < nextId'
  BY <1>1, <1>2, <1>3, <1>4
<1>6. \A f \in rows', g \in open' : f.id # g.id
  BY <1>1, <1>2, <1>3, <1>4
<1>7. nextId' \in Nat \ {0}
  BY <1>3
<1>8. LogInv'
  BY <1>1, <1>3, <1>5, <1>6, <1>7 DEF LogInv, EventOK, ItemOK
<1> QED
  BY <1>3, <1>8 DEF Grows

LEMMA CommitKeepsLog ==
    ASSUME LogInv, CommitEvent
    PROVE  LogInv' /\ Grows
<1>1. PICK e \in open : /\ open' = open \ {e}
                        /\ rows' = rows \cup {[e EXCEPT !.late = \E f \in rows : f.id > e.id]}
  BY DEF CommitEvent
<1>2. PICK g : g = [e EXCEPT !.late = \E f \in rows : f.id > e.id]
  OBVIOUS
<1>3. EventOK(e) /\ e.id < nextId /\ e.id \in Nat
  BY DEF LogInv, EventOK
<1>4. /\ DOMAIN g = EventKeys /\ g.id = e.id /\ g.org = e.org /\ g.type = e.type
      /\ g.route = e.route /\ g.env = e.env
  BY <1>2, <1>3 DEF EventOK, EventKeys
<1>5. EventOK(g)
  BY <1>3, <1>4 DEF EventOK, ItemOK
<1>6. nextId' = nextId /\ nextId \in Nat \ {0} /\ rows' = rows \cup {g}
  BY <1>1, <1>2 DEF CommitEvent, LogInv
<1>7. IsFiniteSet(rows')
  BY <1>6, FS_AddElement DEF LogInv
<1>8. \A f \in rows \cup open : EventOK(f) /\ f.id < nextId /\ f.id \in Nat
  BY DEF LogInv, EventOK
<1>9. \A f \in rows' \cup open' : EventOK(f) /\ f.id < nextId'
  BY <1>1, <1>3, <1>4, <1>5, <1>6, <1>8
<1>10. \A f \in rows : f.id # g.id
  BY <1>4 DEF LogInv
<1>11. \A f, h \in rows' : f.id = h.id => f = h
  BY <1>6, <1>10 DEF LogInv
<1>12. \A f \in rows', h \in open' : f.id # h.id
  <2>1. ASSUME NEW h \in open' PROVE h \in open /\ h.id # g.id
    BY <1>1, <1>4 DEF LogInv
  <2> QED
    BY <1>6, <2>1 DEF LogInv
<1>13. \A f, h \in open' : f.id = h.id => f = h
  BY <1>1 DEF LogInv
<1>14. LogInv'
  BY <1>6, <1>7, <1>9, <1>11, <1>12, <1>13 DEF LogInv, EventOK, ItemOK
<1>15. g.late \/ \A f \in rows : f.id < g.id
  <2>1. SUFFICES ASSUME NEW h \in rows, ~(h.id < g.id) PROVE g.late
    OBVIOUS
  <2>2. h.id \in Nat /\ h.id # g.id /\ g.id = e.id /\ e.id \in Nat
    BY <1>3, <1>4, <1>8, <1>10
  <2>3. h.id > e.id
    BY <2>1, <2>2
  <2>4. "late" \in DOMAIN e
    BY <1>3 DEF EventOK, EventKeys
  <2>5. g.late = (\E f \in rows : f.id > e.id)
    BY <1>2, <2>4
  <2> QED
    BY <2>3, <2>5
<1>16. Grows
  BY <1>6, <1>15 DEF Grows
<1> QED
  BY <1>14, <1>16

LEMMA LogStays ==
    ASSUME LogInv, UNCHANGED <<rows, open, nextId>>
    PROVE  LogInv' /\ Grows
<1>1. rows' = rows /\ open' = open /\ nextId' = nextId
  OBVIOUS
<1>2. LogInv'
  BY <1>1 DEF LogInv, EventOK, ItemOK
<1> QED
  BY <1>1, <1>2 DEF Grows

LEMMA LogStep ==
    ASSUME LogInv, IngressNext
    PROVE  LogInv' /\ Grows
<1>1. \/ AppendEvent \/ InsertEvent \/ CommitEvent
      \/ UNCHANGED <<rows, open, nextId>>
  <2>1. CASE RouteSync
    BY <2>1 DEF RouteSync, fvars
  <2>2. CASE BackendSync
    BY <2>2 DEF BackendSync, fvars
  <2>3. CASE Feed
    BY <2>3 DEF Feed, FeedNext, StreamPoll, StreamLine
  <2>4. CASE Faults
    BY <2>4 DEF Faults
  <2>5. CASE Cooldown
    BY <2>5 DEF Cooldown, fvars
  <2>6. ASSUME NEW c \in Conns, ConnStep(c) PROVE UNCHANGED <<rows, open, nextId>>
    BY <2>6 DEF ConnStep, Accept, Sniff, RouteConnection, SelectBackend, TryBackend, ConnectBackend,
                CloseConnection, fvars
  <2> QED
    BY <2>1, <2>2, <2>3, <2>4, <2>5, <2>6 DEF IngressNext
<1> QED
  BY <1>1, AppendKeepsLog, InsertKeepsLog, CommitKeepsLog, LogStays

\* What has been seen stays as it was, but for late events.
LEMMA SeenStays ==
    ASSUME Grows, NEW h, Seen(h)
    PROVE  Seen(h)'
  BY DEF Grows, Seen

LEMMA WindowStays ==
    ASSUME LogInv, LogInv', Grows, NEW lo, NEW hi, Seen(hi), ~LateIn(lo, hi)'
    PROVE  /\ ~LateIn(lo, hi)
           /\ Window(lo, hi)' = Window(lo, hi)
           /\ Logged(lo, hi)' = Logged(lo, hi)
<1>1. rows \subseteq rows'
  BY DEF Grows
<1>2. ~LateIn(lo, hi)
  BY <1>1 DEF LateIn
<1>3. ASSUME NEW e \in rows', lo < e.id, e.id <= hi PROVE e \in rows
  <2>1. SUFFICES ASSUME e \notin rows PROVE FALSE
    OBVIOUS
  <2>2. e.id \in Nat \ {0}
    BY DEF LogInv, EventOK
  <2>3. hi # 0
    BY <1>3, <2>2
  <2>4. PICK f \in rows : f.id = hi
    BY <2>3 DEF Seen
  <2>5. f \in rows' /\ f # e
    BY <1>1, <2>1
  <2>6. f.id # e.id /\ f.id \in Nat
    BY <2>5 DEF LogInv, EventOK
  <2>7. ~(f.id < e.id)
    BY <1>3, <2>2, <2>4, <2>6
  <2>8. e.late
    BY <2>1, <2>7 DEF Grows
  <2> QED
    BY <1>3, <2>8 DEF LateIn
<1>4. Window(lo, hi)' = Window(lo, hi)
  BY <1>1, <1>3 DEF Window
<1> QED
  BY <1>2, <1>4 DEF Logged

LEMMA ReadsStays ==
    ASSUME LogInv, LogInv', Grows, NEW rs, NEW lo, NEW hi, Reads(rs, lo, hi)
    PROVE  Reads(rs, lo, hi)'
<1>1. Seen(hi)'
  BY SeenStays DEF Reads
<1>2. ~LateIn(lo, hi)' => rs = Logged(lo, hi)'
  BY WindowStays DEF Reads
<1> QED
  BY <1>1, <1>2 DEF Reads

----------------------------------------------------------------------------
(* The route sync loop.                                                      *)

LEMMA RowsNumbered ==
    ASSUME LogInv, NEW S \in SUBSET rows
    PROVE  IsFiniteSet(S) /\ Numbered(S)
<1>1. IsFiniteSet(S)
  BY FS_Subset DEF LogInv
<1>2. Numbered(S)
  BY DEF LogInv, EventOK, Numbered
<1> QED
  BY <1>1, <1>2

\* A response has all rows past the cursor, up to its last one.
LEMMA FetchAnswers ==
    ASSUME LogInv, NEW c \in Nat, NEW resp, resp = ListEvents(c, FetchLimit), resp.items # <<>>
    PROVE  /\ resp.items \in Seq({e \in rows : e.org = "mine"})
           /\ resp.next \in Nat /\ c < resp.next /\ Seen(resp.next)
           /\ Sorted(resp.items, Window(c, resp.next))
<1>1. PICK S : S = {e \in rows : e.org = "mine" /\ e.id > c}
  OBVIOUS
<1>2. IsFiniteSet(S) /\ Numbered(S)
  BY <1>1, RowsNumbered
<1>3. PICK s : s = InOrder(S)
  OBVIOUS
<1>4. Sorted(s, S)
  BY <1>2, <1>3, InOrderSorts
<1>5. PICK t : t = FirstOf(s, FetchLimit)
  OBVIOUS
<1>6. t = QueryByOrg(c, FetchLimit)
  BY <1>1, <1>3, <1>5 DEF QueryByOrg
<1>7. resp.items = t /\ resp.next = IF t = <<>> THEN c ELSE Last(t).id
  BY <1>6 DEF ListEvents
<1>8. t # <<>>
  BY <1>7
<1>9. PICK h : h = Last(t).id
  OBVIOUS
<1>10. resp.next = h
  BY <1>7, <1>8, <1>9
<1>11. FetchLimit \in Nat
  BY RoutesAssumption
<1>12. Sorted(t, {e \in S : e.id <= h}) /\ Last(t) \in S
  BY <1>2, <1>4, <1>5, <1>8, <1>9, <1>11, FirstSorted
<1>13. h \in Nat /\ c < h /\ Seen(h)
  BY <1>1, <1>9, <1>12 DEF LogInv, EventOK, Seen
<1>14. {e \in S : e.id <= h} = Window(c, h)
  <2>1. \A e \in rows : e.id \in Nat
    BY DEF LogInv, EventOK
  <2> QED
    BY <1>1, <2>1 DEF Window
<1>15. Sorted(t, Window(c, h))
  BY <1>12, <1>14
<1>16. t \in Seq({e \in rows : e.org = "mine"})
  <2>1. t \in Seq(Window(c, h))
    BY <1>15 DEF Sorted
  <2>2. Window(c, h) \subseteq {e \in rows : e.org = "mine"}
    BY DEF Window
  <2> QED
    BY <2>1, <2>2
<1> QED
  BY <1>7, <1>10, <1>13, <1>15, <1>16

\* Reading on from where the routes were read to.
LEMMA LoggedExtends ==
    ASSUME LogInv, NEW lo \in Nat, NEW mid \in Nat, NEW hi \in Nat, lo <= mid, mid <= hi,
           NEW items, Sorted(items, Window(mid, hi))
    PROVE  Logged(lo, hi) = ApplyItems(Logged(lo, mid), items)
<1>1. PICK A, B, C : A = Window(lo, mid) /\ B = Window(mid, hi) /\ C = Window(lo, hi)
  OBVIOUS
<1>2. A \in SUBSET rows /\ B \in SUBSET rows /\ C \in SUBSET rows
  BY <1>1 DEF Window
<1>3. \A e \in rows : e.id \in Nat
  BY DEF LogInv, EventOK
<1>4. C = A \cup B /\ \A a \in A, b \in B : a.id < b.id
  BY <1>1, <1>3 DEF Window
<1>5. IsFiniteSet(A) /\ Numbered(A)
  BY <1>2, RowsNumbered
<1>6. Numbered(C)
  BY <1>2, RowsNumbered
<1>7. PICK s : s = InOrder(A)
  OBVIOUS
<1>8. Sorted(s, A) /\ Sorted(items, B)
  BY <1>1, <1>5, <1>7, InOrderSorts
<1>9. Sorted(s \o items, A \cup B)
  BY <1>4, <1>8, ConcatSorted
<1>10. PICK u : u = s \o items
  OBVIOUS
<1>11. u = InOrder(C)
  <2>1. Sorted(u, C)
    BY <1>4, <1>9, <1>10
  <2> QED
    BY <1>6, <2>1, SortedIsInOrder
<1>12. s \in Seq(rows) /\ items \in Seq(rows)
  <2>1. s \in Seq(A) /\ items \in Seq(B)
    BY <1>8 DEF Sorted
  <2> QED
    BY <1>2, <2>1
<1>13. ApplyItems(NoRoutes, s \o items) = ApplyItems(ApplyItems(NoRoutes, s), items)
  BY <1>12, ApplyConcat
<1>14. Logged(lo, mid) = ApplyItems(NoRoutes, s) /\ Logged(lo, hi) = ApplyItems(NoRoutes, u)
  BY <1>1, <1>7, <1>11 DEF Logged
<1> QED
  BY <1>10, <1>13, <1>14

LEMMA LoggedNothing ==
    ASSUME LogInv, NEW c \in Nat
    PROVE  Logged(c, c) = NoRoutes
<1>1. Window(c, c) = {}
  BY DEF Window, LogInv, EventOK
<1>2. Numbered({}) /\ Sorted(<<>>, {})
  BY DEF Numbered, Sorted
<1>3. <<>> = InOrder({})
  BY <1>2, SortedIsInOrder
<1> QED
  BY <1>1, <1>3, ApplyNothing DEF Logged

LEMMA NoRoutesOK == RoutesOK(NoRoutes)
  BY DEF RoutesOK, NoRoutes

\* From the parts of a state to the invariant.
LEMMA ReadsNext ==
    ASSUME NEW rs, NEW lo, NEW hi, Reads(rs, lo, hi)', routes' = rs, from' = lo, cursor' = hi
    PROVE  Reads(routes, from, cursor)'
  BY DEF Reads, Seen, LateIn, Logged, Window

LEMMA SavedNext ==
    ASSUME NEW rs, NEW lo, NEW hi, Reads(rs, lo, hi)',
           saved'.routes = rs, saved'.from = lo, saved'.cursor = hi
    PROVE  Reads(saved.routes, saved.from, saved.cursor)'
  BY DEF Reads, Seen, LateIn, Logged, Window

\* A response that has not been applied is as good as it was.
LEMMA RespStays ==
    ASSUME LogInv, LogInv', Grows, cursor' = cursor, NEW resp, RespOK(resp)
    PROVE  RespOK(resp)'
<1>1. PICK c : c = cursor
  OBVIOUS
<1>2. resp.items \in Seq({e \in rows' : e.org = "mine"})
  BY DEF RespOK, Grows
<1>3. Seen(resp.next)'
  <2>1. PICK h : h = resp.next
    OBVIOUS
  <2>2. Seen(h)'
    BY <2>1, SeenStays DEF RespOK
  <2> QED
    BY <2>1, <2>2 DEF Seen
<1>4. PICK h : h = resp.next
  OBVIOUS
<1>5. Seen(h) /\ (~LateIn(c, h) => Sorted(resp.items, Window(c, h)))
  BY <1>1, <1>4 DEF RespOK
<1>6. ~LateIn(c, h)' => ~LateIn(c, h) /\ Window(c, h)' = Window(c, h)
  BY <1>5, WindowStays
<1>7. ~LateIn(c, h)' => Sorted(resp.items, Window(c, h)')
  BY <1>5, <1>6
<1>8. LateIn(cursor, resp.next)' <=> LateIn(c, h)'
  BY <1>1, <1>4 DEF LateIn
<1>9. Window(cursor, resp.next)' = Window(c, h)'
  BY <1>1, <1>4 DEF Window
<1>10. ~LateIn(cursor, resp.next)' => Sorted(resp.items, Window(cursor, resp.next)')
  BY <1>7, <1>8, <1>9
<1>11. resp.next \in Nat /\ cursor' < resp.next
  BY DEF RespOK
<1> QED
  BY <1>2, <1>3, <1>10, <1>11 DEF RespOK

\* Nothing of the loop changes, whatever happens to the log.
LEMMA SyncStays ==
    ASSUME LogInv, LogInv', Grows, SyncInv, UNCHANGED rvars
    PROVE  SyncInv'
<1>1. /\ routes' = routes /\ table' = table /\ cursor' = cursor /\ sync' = sync /\ store' = store
      /\ saved' = saved /\ from' = from /\ shown' = shown
  BY DEF rvars
<1>2. Reads(routes, from, cursor)'
  <2>1. PICK rs, lo, hi : rs = routes /\ lo = from /\ hi = cursor
    OBVIOUS
  <2>2. Reads(rs, lo, hi)'
    BY <2>1, ReadsStays DEF SyncInv
  <2> QED
    BY <1>1, <2>1, <2>2, ReadsNext
<1>3. Reads(saved.routes, saved.from, saved.cursor)'
  <2>1. PICK rs, lo, hi : rs = saved.routes /\ lo = saved.from /\ hi = saved.cursor
    OBVIOUS
  <2>2. Reads(rs, lo, hi)'
    BY <2>1, ReadsStays DEF SyncInv
  <2> QED
    BY <1>1, <2>1, <2>2, SavedNext
<1>4. ASSUME sync'.pc = "apply" PROVE RespOK(sync.resp)'
  <2>1. PICK resp : resp = sync.resp
    OBVIOUS
  <2>2. RespOK(resp)'
    BY <1>1, <1>4, <2>1, RespStays DEF SyncInv
  <2>3. sync'.resp = resp
    BY <1>1, <2>1
  <2> QED
    BY <2>2, <2>3 DEF RespOK, Seen, LateIn, Window
<1> QED
  BY <1>1, <1>2, <1>3, <1>4 DEF SyncInv

\* The steps of the loop, over a log that does not change.
LEMMA SyncStep ==
    ASSUME LogInv, LogInv', Grows, SyncInv, UNCHANGED rows,
           FetchEvents \/ ApplyResponse \/ RejectResponse \/ SaveState \/ SyncStarts \/ SaveFails \/ SyncDies
    PROVE  SyncInv'
<1>1. PICK rs, lo, hi : rs = routes /\ lo = from /\ hi = cursor
  OBVIOUS
<1>2. PICK srs, slo, shi : srs = saved.routes /\ slo = saved.from /\ shi = saved.cursor
  OBVIOUS
<1>3. Reads(rs, lo, hi) /\ Reads(srs, slo, shi)
  BY <1>1, <1>2 DEF SyncInv
<1>4. Reads(rs, lo, hi)'
  BY <1>3, ReadsStays
<1>5. Reads(srs, slo, shi)'
  BY <1>3, ReadsStays
<1>6. ASSUME UNCHANGED <<routes, table, cursor, from, shown, store, saved>>, DOMAIN sync' = {"pc", "resp"},
             sync'.pc # "apply"
      PROVE  SyncInv'
  <2>1. Reads(routes, from, cursor)'
    BY <1>1, <1>4, <1>6, ReadsNext
  <2>2. Reads(saved.routes, saved.from, saved.cursor)'
    BY <1>2, <1>5, <1>6, SavedNext
  <2> QED
    BY <1>6, <2>1, <2>2 DEF SyncInv
<1>7. CASE FetchEvents
  <2>1. UNCHANGED <<routes, table, cursor, store, saved, from, shown>>
    BY <1>7 DEF FetchEvents
  <2>2. Reads(routes, from, cursor)'
    BY <1>1, <1>4, <2>1, ReadsNext
  <2>3. Reads(saved.routes, saved.from, saved.cursor)'
    BY <1>2, <1>5, <2>1, SavedNext
  <2>4. PICK resp : resp = ListEvents(hi, FetchLimit)
    OBVIOUS
  <2>5. sync' = [pc |-> "apply", resp |-> resp] /\ resp.items # <<>>
    BY <1>1, <1>7, <2>4 DEF FetchEvents
  <2>6. hi \in Nat
    BY <1>3 DEF Reads
  <2>7. /\ resp.items \in Seq({e \in rows : e.org = "mine"})
        /\ resp.next \in Nat /\ hi < resp.next /\ Seen(resp.next)
        /\ Sorted(resp.items, Window(hi, resp.next))
    BY <2>4, <2>5, <2>6, FetchAnswers
  <2>8. RespOK(resp)
    BY <1>1, <2>7 DEF RespOK
  <2>9. RespOK(resp)'
    BY <2>1, <2>8, RespStays
  <2>10. RespOK(sync.resp)'
    BY <2>5, <2>9 DEF RespOK, Seen, LateIn, Window
  <2> QED
    BY <2>1, <2>2, <2>3, <2>5, <2>10 DEF SyncInv
<1>8. CASE ApplyResponse
  <2>1. PICK resp : resp = sync.resp
    OBVIOUS
  <2>2. /\ sync.pc = "apply" /\ RespOK(resp)
    BY <1>8, <2>1 DEF ApplyResponse, SyncInv
  <2>3. PICK items, nx : items = resp.items /\ nx = resp.next
    OBVIOUS
  <2>4. PICK T : T = {e \in rows : e.org = "mine"}
    OBVIOUS
  <2>5. items \in Seq(T) /\ nx \in Nat /\ hi < nx /\ Seen(nx)
    BY <1>1, <2>2, <2>3, <2>4 DEF RespOK
  <2>6. PICK nrs : nrs = ApplyItems(rs, items)
    OBVIOUS
  <2>7. /\ routes' = nrs /\ cursor' = nx /\ shown' = nx /\ from' = lo
        /\ store' = store /\ saved' = saved /\ sync' = [sync EXCEPT !.pc = "save"]
    BY <1>1, <1>8, <2>1, <2>3, <2>6 DEF ApplyResponse
  <2>8. table' = nrs
    <3>1. table = rs
      BY <1>1 DEF SyncInv
    <3>2. CASE \A k \in 1 .. Len(items) : items[k].type = "other"
      <4>1. nrs = rs
        BY <2>5, <2>6, <3>2, OthersChangeNothing
      <4>2. table' = table
        BY <1>8, <2>1, <2>3, <3>2 DEF ApplyResponse
      <4> QED
        BY <3>1, <4>1, <4>2
    <3>3. CASE ~\A k \in 1 .. Len(items) : items[k].type = "other"
      BY <1>8, <2>1, <2>3, <2>7, <3>3 DEF ApplyResponse
    <3> QED
      BY <3>2, <3>3
  <2>9. RoutesOK(nrs)
    <3>1. RoutesOK(rs)
      BY <1>3 DEF Reads
    <3>2. \A e \in T : ItemOK(e)
      BY <2>4 DEF LogInv, EventOK
    <3> QED
      BY <2>5, <2>6, <3>1, <3>2, ItemsKeepRoutes
  <2>10. lo \in Nat /\ hi \in Nat /\ lo <= hi
    BY <1>3 DEF Reads
  <2>11. ASSUME ~LateIn(lo, nx) PROVE nrs = Logged(lo, nx)
    <3>1. \A e \in rows : e.id \in Nat
      BY DEF LogInv, EventOK
    <3>2. ~LateIn(lo, hi) /\ ~LateIn(hi, nx)
      BY <2>5, <2>10, <2>11, <3>1 DEF LateIn
    <3>3. rs = Logged(lo, hi)
      BY <1>3, <3>2 DEF Reads
    <3>4. Sorted(items, Window(hi, nx))
      BY <1>1, <2>2, <2>3, <3>2 DEF RespOK
    <3>5. hi <= nx
      BY <2>5, <2>10
    <3>6. Logged(lo, nx) = ApplyItems(Logged(lo, hi), items)
      BY <2>5, <2>10, <3>4, <3>5, LoggedExtends
    <3> QED
      BY <2>6, <3>3, <3>6
  <2>12. Reads(nrs, lo, nx)
    BY <2>5, <2>9, <2>10, <2>11 DEF Reads
  <2>13. Reads(nrs, lo, nx)'
    BY <2>12, ReadsStays
  <2>14. Reads(routes, from, cursor)'
    BY <2>7, <2>13, ReadsNext
  <2>15. Reads(saved.routes, saved.from, saved.cursor)'
    BY <1>2, <1>5, <2>7, SavedNext
  <2>16. DOMAIN sync' = {"pc", "resp"} /\ sync'.pc = "save"
    BY <2>7 DEF SyncInv
  <2>17. store' \in {"state", "cursor", "none"}
    BY <2>7 DEF SyncInv
  <2> QED
    BY <2>7, <2>8, <2>14, <2>15, <2>16, <2>17 DEF SyncInv
<1>9. CASE RejectResponse
  <2>1. UNCHANGED <<routes, table, cursor, from, shown, store, saved>> /\ sync' = [pc |-> "dead", resp |-> NoResp]
    BY <1>9 DEF RejectResponse
  <2>2. DOMAIN sync' = {"pc", "resp"} /\ sync'.pc # "apply"
    BY <2>1
  <2> QED
    BY <1>6, <2>1, <2>2
<1>10. CASE SaveState
  <2>1. UNCHANGED <<routes, table, cursor, from, shown, store>> /\ sync' = [pc |-> "fetch", resp |-> NoResp]
    BY <1>10 DEF SaveState
  <2>2. DOMAIN sync' = {"pc", "resp"} /\ sync'.pc # "apply"
    BY <2>1
  <2>3. CASE store = "none"
    <3>1. saved' = saved
      BY <1>10, <2>3 DEF SaveState
    <3> QED
      BY <1>6, <2>1, <2>2, <3>1
  <2>4. CASE store # "none"
    <3>1. saved' = [cursor |-> hi, routes |-> rs, from |-> lo]
      BY <1>1, <1>10, <2>4 DEF SaveState
    <3>2. saved'.routes = rs /\ saved'.from = lo /\ saved'.cursor = hi
      BY <3>1
    <3>3. Reads(saved.routes, saved.from, saved.cursor)'
      BY <1>4, <3>2, SavedNext
    <3>4. Reads(routes, from, cursor)'
      BY <1>1, <1>4, <2>1, ReadsNext
    <3> QED
      BY <2>1, <2>2, <3>3, <3>4 DEF SyncInv
  <2> QED
    BY <2>3, <2>4
<1>11. CASE SyncStarts
  <2>1. PICK s : s = Load(store, saved)
    OBVIOUS
  <2>2. /\ routes' = s.routes /\ table' = s.routes /\ cursor' = s.cursor /\ shown' = s.cursor /\ from' = s.from
        /\ sync' = [pc |-> "fetch", resp |-> NoResp] /\ store' = store /\ saved' = saved
    BY <1>11, <2>1 DEF SyncStarts
  <2>3. shi \in Nat /\ Seen(shi)
    BY <1>3 DEF Reads
  <2>4. \A c \in Nat : Seen(c) => Reads(NoRoutes, c, c)
    BY NoRoutesOK, LoggedNothing DEF Reads
  <2>5. Reads(s.routes, s.from, s.cursor)
    <3>1. CASE store = "state"
      <4>1. s = saved
        BY <2>1, <3>1 DEF Load
      <4> QED
        BY <1>2, <1>3, <4>1
    <3>2. CASE store = "cursor"
      <4>1. s = [FreshState EXCEPT !.cursor = saved.cursor, !.from = saved.cursor]
        BY <2>1, <3>2 DEF Load
      <4>2. s.routes = NoRoutes /\ s.from = shi /\ s.cursor = shi
        BY <1>2, <4>1 DEF FreshState
      <4> QED
        BY <2>3, <2>4, <4>2
    <3>3. CASE store = "none"
      <4>1. s = FreshState
        BY <2>1, <3>3 DEF Load
      <4>2. s.routes = NoRoutes /\ s.from = 0 /\ s.cursor = 0
        BY <4>1 DEF FreshState
      <4>3. Seen(0)
        BY DEF Seen
      <4> QED
        BY <2>4, <4>2, <4>3
    <3> QED
      BY <3>1, <3>2, <3>3 DEF SyncInv
  <2>6. PICK nrs, nlo, nhi : nrs = s.routes /\ nlo = s.from /\ nhi = s.cursor
    OBVIOUS
  <2>7. Reads(nrs, nlo, nhi)'
    BY <2>5, <2>6, ReadsStays
  <2>8. Reads(routes, from, cursor)'
    BY <2>2, <2>6, <2>7, ReadsNext
  <2>9. Reads(saved.routes, saved.from, saved.cursor)'
    BY <1>2, <1>5, <2>2, SavedNext
  <2>10. DOMAIN sync' = {"pc", "resp"} /\ sync'.pc = "fetch"
    BY <2>2
  <2> QED
    BY <2>2, <2>8, <2>9, <2>10 DEF SyncInv
<1>12. CASE SaveFails
  <2>1. /\ UNCHANGED <<routes, table, cursor, from, shown, store, saved>>
        /\ sync' = [pc |-> IF store = "state" THEN "fetch" ELSE "dead", resp |-> NoResp]
    BY <1>12 DEF SaveFails
  <2>2. DOMAIN sync' = {"pc", "resp"} /\ sync'.pc # "apply"
    BY <2>1
  <2> QED
    BY <1>6, <2>1, <2>2
<1>13. CASE SyncDies
  <2>1. UNCHANGED <<routes, table, cursor, from, shown, store, saved>> /\ sync' = [pc |-> "dead", resp |-> NoResp]
    BY <1>13 DEF SyncDies
  <2>2. DOMAIN sync' = {"pc", "resp"} /\ sync'.pc # "apply"
    BY <2>1
  <2> QED
    BY <1>6, <2>1, <2>2
<1> QED
  BY <1>7, <1>8, <1>9, <1>10, <1>11, <1>12, <1>13

LEMMA SyncKept ==
    ASSUME LogInv, LogInv', Grows, SyncInv, IngressNext
    PROVE  SyncInv'
<1>1. \/ UNCHANGED rvars
      \/ /\ UNCHANGED rows
         /\ FetchEvents \/ ApplyResponse \/ RejectResponse \/ SaveState \/ SyncStarts \/ SaveFails \/ SyncDies
  <2>1. CASE RouteSync
    BY <2>1 DEF RouteSync, RouteSyncStep, fvars
  <2>2. CASE BackendSync
    BY <2>2 DEF BackendSync
  <2>3. CASE Feed
    BY <2>3 DEF Feed
  <2>4. CASE Faults
    BY <2>4 DEF Faults
  <2>5. CASE Cooldown
    BY <2>5 DEF Cooldown
  <2>6. ASSUME NEW c \in Conns, ConnStep(c) PROVE UNCHANGED rvars
    BY <2>6 DEF ConnStep, Accept, Sniff, RouteConnection, SelectBackend, TryBackend, ConnectBackend,
                CloseConnection
  <2> QED
    BY <2>1, <2>2, <2>3, <2>4, <2>5, <2>6 DEF IngressNext
<1> QED
  BY <1>1, SyncStays, SyncStep

----------------------------------------------------------------------------
(* The pools.                                                                *)

\* The elements of a sequence given by its elements.
LEMMA PoolBuilt ==
    ASSUME NEW n \in Nat, NEW p, p = [k \in 1 .. n |-> p[k]], NEW r,
           \A k \in 1 .. n : {"inst", "target", "health"} \subseteq DOMAIN p[k] /\ OfRouteEnv(p[k], r)
    PROVE  PoolOK(p, r) /\ Len(p) = n
<1>1. Len(p) = n
  OBVIOUS
<1> QED
  BY <1>1 DEF PoolOK

\* Ready instances of a route's environment.
LEMMA FetchedOK ==
    ASSUME ready \subseteq Instances, NEW r \in RouteIds, NEW route, route.env = EnvOf[r],
           NEW got, got = FetchRouteBackends(route)
    PROVE  Len(got) \in Nat /\ \A k \in 1 .. Len(got) : OfRouteEnv(got[k], r)
<1>0. PICK all : all = Serving(route)
  OBVIOUS
<1>1. PICK S : S = {i \in ListInstances(route) : ParsesAsIpv6(AddressText)}
  OBVIOUS
<1>a. ListInstances(route) \subseteq all
  BY <1>0 DEF ListInstances
<1>2. S \subseteq all /\ S \in SUBSET Instances /\ S \subseteq Nat
  BY <1>0, <1>1, <1>a, BackendsAssumption DEF Serving
<1>3. IsFiniteSet(S)
  BY <1>2, BackendsAssumption, FS_Subset
<1>4. PICK n : n = Cardinality(S)
  OBVIOUS
<1>5. n \in Nat
  BY <1>3, <1>4, FS_CardinalityType
<1>6. Ascending(S) \in Seq(S) /\ Len(Ascending(S)) = Cardinality(S)
  BY <1>2, <1>3, AscendingFacts
<1>7. got = [k \in 1 .. n |-> [inst |-> Ascending(S)[k], target |-> route.target]]
  BY <1>1, <1>4 DEF FetchRouteBackends
<1>8. Len(got) = n
  BY <1>5, <1>7
<1>9. ASSUME NEW k \in 1 .. n PROVE OfRouteEnv(got[k], r)
  <2>1. Ascending(S)[k] \in S
    BY <1>4, <1>6
  <2>2. InstanceOf[Ascending(S)[k]].env = route.env
    <3>1. PICK i : i = Ascending(S)[k]
      OBVIOUS
    <3>2. i \in Serving(route)
      BY <1>0, <1>2, <2>1, <3>1
    <3>3. InstanceOf[i] = [env |-> route.env, target |-> route.target]
      BY <3>2 DEF Serving
    <3> QED
      BY <3>1, <3>3
  <2>3. got[k].inst = Ascending(S)[k]
    BY <1>7
  <2> QED
    BY <2>2, <2>3 DEF OfRouteEnv
<1> QED
  BY <1>5, <1>8, <1>9

LEMMA UpdatedOK ==
    ASSUME NEW r, NEW old, PoolOK(old, r), NEW new, Len(new) \in Nat,
           \A k \in 1 .. Len(new) : OfRouteEnv(new[k], r)
    PROVE  PoolOK(UpdateBackends(old, new), r)
<1>1. PICK n \in Nat : n = Len(new)
  OBVIOUS
<1>2. PICK p : p = UpdateBackends(old, new)
  OBVIOUS
<1>3. p = [k \in 1 .. n |->
             IF {j \in 1 .. Len(old) : old[j].inst = new[k].inst /\ old[j].target = new[k].target} = {}
             THEN [inst |-> new[k].inst, target |-> new[k].target, health |-> "unknown"]
             ELSE old[CHOOSE j \in {j \in 1 .. Len(old) : old[j].inst = new[k].inst /\ old[j].target = new[k].target} :
                        TRUE]]
  BY <1>1, <1>2 DEF UpdateBackends
<1>4. ASSUME NEW k \in 1 .. n
      PROVE  {"inst", "target", "health"} \subseteq DOMAIN p[k] /\ OfRouteEnv(p[k], r)
  <2>1. PICK same : same = {j \in 1 .. Len(old) : old[j].inst = new[k].inst /\ old[j].target = new[k].target}
    OBVIOUS
  <2>2. p[k] = IF same = {} THEN [inst |-> new[k].inst, target |-> new[k].target, health |-> "unknown"]
               ELSE old[CHOOSE j \in same : TRUE]
    BY <1>3, <2>1
  <2>3. CASE same = {}
    <3>1. p[k] = [inst |-> new[k].inst, target |-> new[k].target, health |-> "unknown"]
      BY <2>2, <2>3
    <3>2. {"inst", "target", "health"} \subseteq DOMAIN p[k] /\ p[k].inst = new[k].inst
      BY <3>1
    <3> QED
      BY <1>1, <3>2 DEF OfRouteEnv
  <2>4. CASE same # {}
    <3>1. PICK j : j = CHOOSE i \in same : TRUE
      OBVIOUS
    <3>2. j \in same /\ p[k] = old[j]
      BY <2>2, <2>4, <3>1
    <3>3. j \in 1 .. Len(old)
      BY <2>1, <3>2
    <3> QED
      BY <3>2, <3>3 DEF PoolOK
  <2> QED
    BY <2>3, <2>4
<1>5. p = [k \in 1 .. n |-> p[k]]
  BY <1>3
<1>6. PoolOK(p, r)
  BY <1>4, <1>5, PoolBuilt
<1> QED
  BY <1>2, <1>6

\* A backend's health is marked.
LEMMA MarkedOK ==
    ASSUME NEW r, NEW p, PoolOK(p, r), NEW b, NEW health, NEW q,
           q = [k \in 1 .. Len(p) |->
                  IF p[k].inst = b.inst /\ p[k].target = b.target THEN [p[k] EXCEPT !.health = health] ELSE p[k]]
    PROVE  PoolOK(q, r)
<1>1. PICK n \in Nat : n = Len(p)
  BY DEF PoolOK
<1>2. ASSUME NEW k \in 1 .. n
      PROVE  {"inst", "target", "health"} \subseteq DOMAIN q[k] /\ OfRouteEnv(q[k], r)
  <2>1. {"inst", "target", "health"} \subseteq DOMAIN p[k] /\ OfRouteEnv(p[k], r)
    BY <1>1 DEF PoolOK
  <2>2. q[k] = p[k] \/ q[k] = [p[k] EXCEPT !.health = health]
    BY <1>1
  <2>3. PICK x : x = [p[k] EXCEPT !.health = health]
    OBVIOUS
  <2>4. DOMAIN x = DOMAIN p[k] /\ x.inst = p[k].inst
    BY <2>1, <2>3
  <2>5. {"inst", "target", "health"} \subseteq DOMAIN x /\ OfRouteEnv(x, r)
    BY <2>1, <2>4 DEF OfRouteEnv
  <2> QED
    BY <2>1, <2>2, <2>3, <2>5
<1>3. q = [k \in 1 .. n |-> q[k]]
  BY <1>1
<1> QED
  BY <1>2, <1>3, PoolBuilt

LEMMA MarkKeepsPools ==
    ASSUME BackendInv, NEW r, NEW b, NEW health, pools' = Mark(r, b, health),
           UNCHANGED <<ready, rr, bsync>>
    PROVE  BackendInv'
<1>1. PICK ps : ps = pools
  OBVIOUS
<1>2. DOMAIN ps = RouteIds /\ \A s \in RouteIds : PoolOK(ps[s], s)
  BY <1>1 DEF BackendInv
<1>3. PICK q : q = [k \in 1 .. Len(ps[r]) |->
                      IF ps[r][k].inst = b.inst /\ ps[r][k].target = b.target
                      THEN [ps[r][k] EXCEPT !.health = health] ELSE ps[r][k]]
  OBVIOUS
<1>4. pools' = [ps EXCEPT ![r] = q]
  BY <1>1, <1>3 DEF Mark
<1>5. r \in RouteIds => PoolOK(q, r)
  BY <1>2, <1>3, MarkedOK
<1>6. DOMAIN pools' = RouteIds /\ \A s \in RouteIds : PoolOK(pools'[s], s)
  BY <1>2, <1>4, <1>5
<1>7. ready' = ready /\ rr' = rr /\ bsync' = bsync
  OBVIOUS
<1> QED
  BY <1>6, <1>7 DEF BackendInv, PoolOK, OfRouteEnv

LEMMA CooldownKeepsPools ==
    ASSUME BackendInv, CooldownEnds
    PROVE  BackendInv'
<1>0. PICK r \in RouteIds : \E k \in 1 .. Len(pools[r]) : pools' = [pools EXCEPT ![r][k].health = "retry"]
  BY DEF CooldownEnds
<1>1. PICK k \in 1 .. Len(pools[r]) : pools' = [pools EXCEPT ![r][k].health = "retry"]
  BY <1>0
<1>2. PICK ps, p : ps = pools /\ p = ps[r]
  OBVIOUS
<1>3. DOMAIN ps = RouteIds /\ \A s \in RouteIds : PoolOK(ps[s], s)
  BY <1>2 DEF BackendInv
<1>4. PICK n \in Nat : n = Len(p)
  BY <1>2, <1>3 DEF PoolOK
<1>5. p = [j \in 1 .. n |-> p[j]] /\ k \in 1 .. n
  BY <1>1, <1>2, <1>3, <1>4 DEF PoolOK
<1>6. PICK x : x = [p[k] EXCEPT !.health = "retry"]
  OBVIOUS
<1>7. {"inst", "target", "health"} \subseteq DOMAIN p[k] /\ OfRouteEnv(p[k], r)
  BY <1>2, <1>3, <1>4, <1>5 DEF PoolOK
<1>8. {"inst", "target", "health"} \subseteq DOMAIN x /\ OfRouteEnv(x, r)
  <2>1. DOMAIN x = DOMAIN p[k] /\ x.inst = p[k].inst
    BY <1>6, <1>7
  <2> QED
    BY <1>7, <2>1 DEF OfRouteEnv
<1>9. PICK q : q = [p EXCEPT ![k] = x]
  OBVIOUS
<1>10. q = [j \in 1 .. n |-> q[j]]
  BY <1>5, <1>9
<1>11. ASSUME NEW j \in 1 .. n
       PROVE  {"inst", "target", "health"} \subseteq DOMAIN q[j] /\ OfRouteEnv(q[j], r)
  <2>1. q[j] = IF j = k THEN x ELSE p[j]
    BY <1>5, <1>9
  <2> QED
    BY <1>2, <1>3, <1>4, <1>8, <2>1 DEF PoolOK
<1>12. PoolOK(q, r)
  BY <1>10, <1>11, PoolBuilt
<1>13. pools' = [ps EXCEPT ![r] = q]
  BY <1>1, <1>2, <1>3, <1>5, <1>6, <1>9
<1>14. DOMAIN pools' = RouteIds /\ \A s \in RouteIds : PoolOK(pools'[s], s)
  BY <1>3, <1>12, <1>13
<1>15. ready' = ready /\ rr' = rr /\ bsync' = bsync
  BY DEF CooldownEnds
<1> QED
  BY <1>14, <1>15 DEF BackendInv, PoolOK, OfRouteEnv

LEMMA FetchKeepsPools ==
    ASSUME BackendInv, RoutesOK(table), FetchBackends \/ UpdateRouteBackends \/ FetchBackendsFails
    PROVE  BackendInv'
<1>1. CASE FetchBackends
  <2>1. PICK r \in InTable : bsync' = [id |-> r, got |-> FetchRouteBackends(table[r])]
    BY <1>1 DEF FetchBackends
  <2>2. r \in RouteIds /\ table[r].env = EnvOf[r]
    BY DEF InTable, RoutesOK
  <2>3. PICK route, got : route = table[r] /\ got = FetchRouteBackends(route)
    OBVIOUS
  <2>4. route.env = EnvOf[r] /\ ready \subseteq Instances
    BY <2>2, <2>3 DEF BackendInv
  <2>5. Len(got) \in Nat /\ \A k \in 1 .. Len(got) : OfRouteEnv(got[k], r)
    BY <2>2, <2>3, <2>4, FetchedOK
  <2>6. bsync'.id = r /\ bsync'.got = got
    BY <2>1, <2>3
  <2>7. ready' = ready /\ rr' = rr /\ pools' = pools
    BY <1>1 DEF FetchBackends
  <2> QED
    BY <2>2, <2>5, <2>6, <2>7 DEF BackendInv, PoolOK, OfRouteEnv
<1>2. CASE UpdateRouteBackends
  <2>1. PICK ps, r, new : ps = pools /\ r = bsync.id /\ new = bsync.got
    OBVIOUS
  <2>2. r \in RouteIds /\ Len(new) \in Nat /\ \A k \in 1 .. Len(new) : OfRouteEnv(new[k], r)
    BY <1>2, <2>1 DEF UpdateRouteBackends, BackendInv
  <2>3. DOMAIN ps = RouteIds /\ \A s \in RouteIds : PoolOK(ps[s], s)
    BY <2>1 DEF BackendInv
  <2>4. PICK p : p = ps[r]
    OBVIOUS
  <2>5. PoolOK(UpdateBackends(p, new), r)
    BY <2>2, <2>3, <2>4, UpdatedOK
  <2>6. pools' = [ps EXCEPT ![r] = UpdateBackends(p, new)]
    BY <1>2, <2>1, <2>4 DEF UpdateRouteBackends
  <2>7. DOMAIN pools' = RouteIds /\ \A s \in RouteIds : PoolOK(pools'[s], s)
    BY <2>3, <2>5, <2>6
  <2>8. ready' = ready /\ rr' = rr /\ bsync' = IdleSync
    BY <1>2 DEF UpdateRouteBackends
  <2> QED
    BY <2>7, <2>8 DEF BackendInv, PoolOK, OfRouteEnv, IdleSync
<1>3. CASE FetchBackendsFails
  <2>1. ready' = ready /\ rr' = rr /\ bsync' = IdleSync /\ pools' = pools
    BY <1>3 DEF FetchBackendsFails
  <2> QED
    BY <2>1 DEF BackendInv, PoolOK, OfRouteEnv, IdleSync
<1> QED
  BY <1>1, <1>2, <1>3

LEMMA PoolsStay ==
    ASSUME BackendInv, ready' \subseteq Instances, rr' \in [RouteIds -> Nat], UNCHANGED <<pools, bsync>>
    PROVE  BackendInv'
<1>1. pools' = pools /\ bsync' = bsync
  OBVIOUS
<1>2. DOMAIN pools' = RouteIds /\ \A r \in RouteIds : PoolOK(pools'[r], r)
  BY <1>1 DEF BackendInv
<1>3. bsync' # IdleSync =>
          /\ bsync'.id \in RouteIds /\ Len(bsync'.got) \in Nat
          /\ \A k \in 1 .. Len(bsync'.got) : OfRouteEnv(bsync'.got[k], bsync'.id)
  BY <1>1 DEF BackendInv
<1> QED
  BY <1>2, <1>3 DEF BackendInv

LEMMA ProcessKeepsPools ==
    ASSUME BackendInv, WithProcess
    PROVE  BackendInv'
<1>1. CASE UNCHANGED bvars
  <2>1. ready' = ready /\ rr' = rr /\ pools' = pools /\ bsync' = bsync
    BY <1>1 DEF bvars
  <2>2. ready' \subseteq Instances /\ rr' \in [RouteIds -> Nat]
    BY <2>1 DEF BackendInv
  <2> QED
    BY <2>1, <2>2, PoolsStay
<1>2. CASE ~UNCHANGED bvars
  <2>1. /\ pools' = [r \in RouteIds |-> <<>>] /\ rr' = [r \in RouteIds |-> 0] /\ bsync' = IdleSync
        /\ ready' = ready
    BY <1>2 DEF WithProcess
  <2>2. ASSUME NEW r \in RouteIds PROVE PoolOK(<<>>, r)
    BY DEF PoolOK
  <2>3. \A r \in RouteIds : PoolOK(pools'[r], r)
    BY <2>1, <2>2
  <2>4. rr' \in [RouteIds -> Nat] /\ DOMAIN pools' = RouteIds
    BY <2>1
  <2> QED
    BY <2>1, <2>3, <2>4 DEF BackendInv, PoolOK, OfRouteEnv, IdleSync
<1> QED
  BY <1>1, <1>2

----------------------------------------------------------------------------
(* Connections and the owners of their routes.                               *)

LEMMA EligibleOK ==
    ASSUME NEW r, NEW p, PoolOK(p, r)
    PROVE  /\ Len(EligibleIn(p)) \in Nat
           /\ \A k \in 1 .. Len(EligibleIn(p)) : OfRouteEnv(EligibleIn(p)[k], r)
<1>1. PICK A : A = {k \in 1 .. Len(p) : IsEligible(p[k])}
  OBVIOUS
<1>2. Len(p) \in Nat
  BY DEF PoolOK
<1>3. A \in SUBSET (1 .. Len(p)) /\ A \subseteq Nat
  BY <1>1, <1>2
<1>4. IsFiniteSet(A)
  <2>1. 1 \in Int /\ Len(p) \in Int
    BY <1>2
  <2>2. IsFiniteSet(1 .. Len(p))
    BY <2>1, FS_Interval
  <2> QED
    BY <1>3, <2>2, FS_Subset
<1>5. PICK at : at = Ascending(A)
  OBVIOUS
<1>6. at \in Seq(A)
  <2>1. Ascending(A) \in Seq(A)
    BY <1>3, <1>4, AscendingFacts
  <2> QED
    BY <1>5, <2>1
<1>7. PICK n \in Nat : n = Len(at)
  BY <1>6
<1>8. PICK q : q = EligibleIn(p)
  OBVIOUS
<1>9. q = [i \in 1 .. n |-> p[at[i]]]
  BY <1>1, <1>5, <1>7, <1>8 DEF EligibleIn
<1>10. Len(q) = n
  BY <1>9
<1>11. ASSUME NEW k \in 1 .. n PROVE OfRouteEnv(q[k], r)
  <2>0. at[k] \in A
    BY <1>6, <1>7
  <2>1. at[k] \in 1 .. Len(p)
    BY <1>3, <2>0
  <2> QED
    BY <1>9, <2>1 DEF PoolOK
<1> QED
  BY <1>8, <1>10, <1>11

LEMMA PickedOK ==
    ASSUME BackendInv, NEW r \in RouteIds, NEW s, s.n \in Nat \ {0}, s.start \in Nat, NEW i \in Nat,
           NEW b \in PickBackend(r, s, i)
    PROVE  OfRouteEnv(b, r)
<1>1. PICK p : p = pools[r]
  OBVIOUS
<1>2. PoolOK(p, r)
  BY <1>1 DEF BackendInv
<1>3. PICK q : q = EligibleIn(p)
  OBVIOUS
<1>4. /\ Len(EligibleIn(p)) \in Nat
      /\ \A k \in 1 .. Len(EligibleIn(p)) : OfRouteEnv(EligibleIn(p)[k], r)
  BY <1>2, EligibleOK
<1>5. Len(q) \in Nat /\ \A k \in 1 .. Len(q) : OfRouteEnv(q[k], r)
  BY <1>3, <1>4
<1>6. PICK idx : idx = (s.start + i) % s.n
  OBVIOUS
<1>7. idx \in Nat
  BY <1>6
<1>8. b \in (IF idx >= Len(q) THEN {} ELSE {q[idx + 1]})
  BY <1>1, <1>3, <1>6 DEF PickBackend
<1>9. b = q[idx + 1] /\ idx + 1 \in 1 .. Len(q)
  BY <1>5, <1>7, <1>8
<1> QED
  BY <1>5, <1>9

LEMMA SelectedOK ==
    ASSUME BackendInv, NEW r \in RouteIds, NEW s \in SelectStart(r)
    PROVE  s.n \in Nat \ {0} /\ s.start \in Nat
<1>1. PICK p : p = pools[r]
  OBVIOUS
<1>2. PoolOK(p, r) /\ rr[r] \in Nat
  BY <1>1 DEF BackendInv
<1>3. /\ Len(EligibleIn(p)) \in Nat
      /\ \A k \in 1 .. Len(EligibleIn(p)) : OfRouteEnv(EligibleIn(p)[k], r)
  BY <1>2, EligibleOK
<1>4. PICK n \in Nat : n = Len(EligibleIn(p))
  BY <1>3
<1>5. s \in (IF n = 0 THEN {} ELSE {[n |-> n, start |-> rr[r] % n]})
  BY <1>1, <1>4 DEF SelectStart
<1>6. n # 0 /\ s = [n |-> n, start |-> rr[r] % n]
  BY <1>5
<1>7. rr[r] % n \in Nat
  BY <1>2, <1>6
<1> QED
  BY <1>6, <1>7

\* What a connection was given stays right: its owners are those of a part of the log that has
\* been read.
LEMMA OwnersStay ==
    ASSUME LogInv, LogInv', Grows, NEW x, RoutedOK(x)
    PROVE  RoutedOK(x)'
<1>1. PICK lo, hi : lo = x.from /\ hi = x.shown
  OBVIOUS
<1>2. Seen(hi) /\ (~LateIn(lo, hi) => x.route.env \in Owners(x))
  BY <1>1 DEF RoutedOK
<1>3. Seen(hi)'
  BY <1>2, SeenStays
<1>4. ASSUME ~LateIn(lo, hi)' PROVE x.route.env \in Owners(x)'
  <2>1. ~LateIn(lo, hi) /\ Window(lo, hi)' = Window(lo, hi) /\ Logged(lo, hi)' = Logged(lo, hi)
    BY <1>2, <1>4, WindowStays
  <2>2. Owners(x)' = Owners(x)
    BY <1>1, <2>1 DEF Owners
  <2> QED
    BY <1>2, <2>1, <2>2
<1> QED
  BY <1>1, <1>3, <1>4 DEF RoutedOK

LEMMA OnceRouted ==
    ASSUME NEW x, RoutedOK(x), NEW y, {"from", "shown"} \subseteq DOMAIN y, y.route = x.route,
           y.listener = x.listener, y.sni = x.sni, y.from = x.from, y.shown = x.shown
    PROVE  RoutedOK(y)
<1>1. Owners(y) = Owners(x)
  BY DEF Owners
<1> QED
  BY <1>1 DEF RoutedOK

Routed == {"select", "try", "connect", "open"}

LEMMA RoutedNext ==
    ASSUME NEW c \in Conns, NEW x, x = conns'[c], RoutedOK(x)', TargetOK(x)
    PROVE  RoutedOK(conns[c])' /\ TargetOK(conns[c])'
<1>1. TargetOK(conns[c])'
  BY DEF TargetOK, OfRouteEnv
<1>2. RoutedOK(conns[c])'
  BY DEF RoutedOK, Seen, LateIn, Owners, Logged, Window
<1> QED
  BY <1>1, <1>2

LEMMA RoutedAll ==
    ASSUME LogInv, LogInv', Grows, NEW f, f = conns',
           \A c \in Conns : f[c].pc \in Routed => RoutedOK(f[c]) /\ TargetOK(f[c])
    PROVE  RoutedInv'
<1>1. ASSUME NEW c \in Conns, conns'[c].pc \in Routed
      PROVE  RoutedOK(conns[c])' /\ TargetOK(conns[c])'
  <2>1. PICK x : x = f[c]
    OBVIOUS
  <2>2. RoutedOK(x) /\ TargetOK(x) /\ x = conns'[c]
    BY <1>1, <2>1
  <2>3. RoutedOK(x)'
    BY <2>2, OwnersStay
  <2> QED
    BY <2>2, <2>3, RoutedNext
<1> QED
  BY <1>1 DEF RoutedInv, Routed

LEMMA OneRoutedMoves ==
    ASSUME LogInv, LogInv', Grows, ConnInv, RoutedInv, NEW c \in Conns, NEW y, Becomes(c, y),
           y.pc \in Routed => RoutedOK(y) /\ TargetOK(y)
    PROVE  RoutedInv'
<1>1. PICK f : f = conns'
  OBVIOUS
<1>2. f = [conns EXCEPT ![c] = y] /\ DOMAIN conns = Conns
  BY <1>1 DEF Becomes, ConnInv
<1>3. ASSUME NEW d \in Conns, f[d].pc \in Routed PROVE RoutedOK(f[d]) /\ TargetOK(f[d])
  <2>1. CASE d = c
    <3>1. f[d] = y
      BY <1>2, <2>1
    <3> QED
      BY <1>3, <3>1
  <2>2. CASE d # c
    <3>1. f[d] = conns[d]
      BY <1>2, <2>2
    <3> QED
      BY <1>3, <3>1 DEF RoutedInv, Routed
  <2> QED
    BY <2>1, <2>2
<1> QED
  BY <1>1, <1>3, RoutedAll

\* The table gives a connection to the owner the log names.
LEMMA DecidedOK ==
    ASSUME LogInv, SyncInv, NEW l, NEW sni, NEW r \in Decide(l, sni), NEW y,
           {"from", "shown"} \subseteq DOMAIN y, y.route = table[r],
           y.listener = l, y.sni = sni, y.from = from, y.shown = shown
    PROVE  RoutedOK(y)
<1>1. PICK t : t = table
  OBVIOUS
<1>2. r \in RouteIds /\ t[r] # NoRoute
  BY <1>1 DEF Decide, ByKey, InTable
<1>3. t[r].id = r /\ t[r].env = EnvOf[r]
  BY <1>1, <1>2 DEF SyncInv, Reads, RoutesOK
<1>4. Seen(y.shown)
  BY DEF SyncInv, Reads
<1>5. ASSUME ~LateIn(y.from, y.shown) PROVE y.route.env \in Owners(y)
  <2>1. Logged(y.from, y.shown) = t
    BY <1>1, <1>5 DEF SyncInv, Reads
  <2>2. RouteMatchesListener(l, t[r])
    BY <1>1 DEF Decide
  <2>3. PICK there : there = {q \in RouteIds : t[q] # NoRoute /\ RouteMatchesListener(l, t[q])}
    OBVIOUS
  <2>4. r \in there
    BY <1>2, <2>2, <2>3
  <2>5. Owners(y) = IF sni # "none" THEN {t[q].env : q \in {p \in there : t[p].host = sni}}
                    ELSE IF Cardinality(there) = 1 THEN {t[q].env : q \in there} ELSE {}
    BY <2>1, <2>3 DEF Owners
  <2>6. CASE sni # "none"
    <3>1. t[r].host = sni
      BY <1>1, <2>6 DEF Decide, ByKey
    <3> QED
      BY <1>1, <2>4, <2>5, <2>6, <3>1
  <2>7. CASE sni = "none"
    <3>1. \A q \in InTable : RouteMatchesListener(l, t[q]) => q = r
      BY <1>1, <2>7 DEF Decide
    <3>2. there = {r}
      BY <1>1, <2>3, <2>4, <3>1 DEF InTable
    <3>3. Cardinality(there) = 1
      BY <3>2, FS_Singleton
    <3> QED
      BY <1>1, <2>4, <2>5, <2>7, <3>3
  <2> QED
    BY <2>6, <2>7
<1> QED
  BY <1>1, <1>2, <1>3, <1>4, <1>5 DEF RoutedOK

\* A connection with a route goes on with it.
LEMMA GoesOn ==
    ASSUME NEW x, RoutedOK(x), {"route", "listener", "sni", "from", "shown"} \subseteq DOMAIN x,
           NEW new, DOMAIN new \cap {"route", "listener", "sni", "from", "shown"} = {},
           NEW y, y = Knowing(x, new)
    PROVE  RoutedOK(y) /\ y.route = x.route
<1>1. /\ DOMAIN y = DOMAIN new \cup DOMAIN x
      /\ \A a \in DOMAIN x \ DOMAIN new : y[a] = x[a]
  BY DEF Knowing
<1>2. {"from", "shown"} \subseteq DOMAIN y
  BY <1>1
<1>3. y.route = x.route /\ y.listener = x.listener /\ y.sni = x.sni /\ y.from = x.from /\ y.shown = x.shown
  BY <1>1
<1> QED
  BY <1>2, <1>3, OnceRouted

LEMMA RoutedConnStep ==
    ASSUME LogInv, LogInv', Grows, SyncInv, BackendInv, ConnInv, RoutedInv, NEW c \in Conns, ConnStep(c)
    PROVE  RoutedInv'
<1>0. PICK x : x = conns[c]
  OBVIOUS
<1>00. ConnOK(x) /\ (x.pc \in Routed => RoutedOK(x) /\ TargetOK(x))
  BY <1>0 DEF ConnInv, RoutedInv, Routed
<1>01. ASSUME x.pc \in Routed
       PROVE  /\ {"pc", "listener", "sni", "route", "n", "from", "shown"} \subseteq DOMAIN x
              /\ RoutedOK(x) /\ TargetOK(x) /\ x.route.id \in RouteIds
  BY <1>00, <1>01 DEF ConnOK, RoutedOK, Routed
<1>02. ASSUME NEW y, y.pc \notin Routed, Becomes(c, y) PROVE RoutedInv'
  BY <1>02, OneRoutedMoves
<1>03. ASSUME Becomes(c, NoConn) \/ Becomes(c, [pc |-> "refused"]) PROVE RoutedInv'
  <2>1. NoConn.pc \notin Routed /\ [pc |-> "refused"].pc \notin Routed
    BY DEF NoConn, Routed
  <2> QED
    BY <1>02, <1>03, <2>1
<1>1. CASE Accept(c)
  <2>1. PICK who \in Clients, p \in {"sniff", "route"} :
            Becomes(c, [pc |-> p, who |-> who, listener |-> who.to, sni |-> "none", buf |-> <<>>])
    BY <1>1 DEF Accept
  <2>2. PICK y : y = [pc |-> p, who |-> who, listener |-> who.to, sni |-> "none", buf |-> <<>>]
    OBVIOUS
  <2>3. y.pc \notin Routed
    BY <2>2 DEF Routed
  <2> QED
    BY <1>02, <2>1, <2>2, <2>3
<1>2. CASE Sniff(c)
  <2>1. PICK y : y = [x EXCEPT !.pc = "route", !.sni = ParseSni(x.who), !.buf = Inspect(x.who)]
    OBVIOUS
  <2>2. "pc" \in DOMAIN x /\ Becomes(c, y)
    BY <1>0, <1>00, <1>2, <2>1 DEF Sniff, ConnOK
  <2>3. y.pc = "route"
    BY <2>1, <2>2
  <2>4. y.pc \notin Routed
    BY <2>3 DEF Routed
  <2> QED
    BY <1>02, <2>2, <2>4
<1>3. CASE RouteConnection(c)
  <2>1. CASE Becomes(c, NoConn)
    BY <1>03, <2>1
  <2>2. ASSUME NEW r \in Decide(x.listener, x.sni),
               Becomes(c, Knowing(x, [pc |-> "select", route |-> table[r], tried |-> {}, n |-> 0,
                                      from |-> from, shown |-> shown]))
        PROVE  RoutedInv'
    <3>1. PICK new : new = [pc |-> "select", route |-> table[r], tried |-> {}, n |-> 0,
                            from |-> from, shown |-> shown]
      OBVIOUS
    <3>2. PICK y : y = Knowing(x, new)
      OBVIOUS
    <3>3. {"listener", "sni"} \subseteq DOMAIN x
      BY <1>0, <1>00, <1>3 DEF RouteConnection, ConnOK
    <3>4. /\ DOMAIN new = {"pc", "route", "tried", "n", "from", "shown"} /\ new["pc"] = "select"
          /\ new["route"] = table[r] /\ new["n"] = 0 /\ new["from"] = from /\ new["shown"] = shown
      BY <3>1
    <3>5. /\ DOMAIN y = DOMAIN new \cup DOMAIN x
          /\ \A a \in DOMAIN new : y[a] = new[a]
          /\ \A a \in DOMAIN x \ DOMAIN new : y[a] = x[a]
      BY <3>2 DEF Knowing
    <3>6. /\ y.pc = "select" /\ y.n = 0 /\ y.route = table[r] /\ y.from = from /\ y.shown = shown
          /\ y.listener = x.listener /\ y.sni = x.sni
      BY <3>3, <3>4, <3>5
    <3>7. {"from", "shown"} \subseteq DOMAIN y
      BY <3>4, <3>5
    <3>8. PICK l, sni : l = x.listener /\ sni = x.sni
      OBVIOUS
    <3>9. r \in Decide(l, sni) /\ y.listener = l /\ y.sni = sni
      BY <2>2, <3>6, <3>8
    <3>10. RoutedOK(y)
      BY <3>6, <3>7, <3>9, DecidedOK
    <3>11. TargetOK(y)
      BY <3>6 DEF TargetOK
    <3> QED
      BY <2>2, <3>1, <3>2, <3>10, <3>11, OneRoutedMoves
  <2> QED
    BY <1>0, <1>3, <2>1, <2>2 DEF RouteConnection
<1>4. CASE SelectBackend(c)
  <2>0. /\ x.pc = "select" /\ {"pc", "listener", "sni", "route", "n", "from", "shown"} \subseteq DOMAIN x
        /\ RoutedOK(x) /\ TargetOK(x) /\ x.route.id \in RouteIds
    BY <1>0, <1>01, <1>4 DEF SelectBackend, Routed
  <2>1. CASE Becomes(c, NoConn)
    BY <1>03, <2>1
  <2>2. ASSUME NEW s \in SelectStart(x.route.id), NEW at,
               Becomes(c, Knowing(x, [pc |-> "try", sel |-> s, at |-> at]))
        PROVE  RoutedInv'
    <3>1. PICK new : new = [pc |-> "try", sel |-> s, at |-> at]
      OBVIOUS
    <3>2. PICK y : y = Knowing(x, new)
      OBVIOUS
    <3>3. PICK r \in RouteIds : r = x.route.id
      BY <2>0
    <3>4. s.n \in Nat \ {0} /\ s.start \in Nat
      BY <2>2, <3>3, SelectedOK
    <3>5. DOMAIN new = {"pc", "sel", "at"} /\ new["pc"] = "try" /\ new["sel"] = s
      BY <3>1
    <3>6. DOMAIN new \cap {"route", "listener", "sni", "from", "shown"} = {}
      BY <3>5
    <3>7. RoutedOK(y) /\ y.route = x.route
      BY <2>0, <3>2, <3>6, GoesOn
    <3>8. /\ DOMAIN y = DOMAIN new \cup DOMAIN x
          /\ \A a \in DOMAIN new : y[a] = new[a]
          /\ \A a \in DOMAIN x \ DOMAIN new : y[a] = x[a]
      BY <3>2 DEF Knowing
    <3>9. y.pc = "try" /\ y.sel = s /\ y.n = x.n /\ "sel" \in DOMAIN y
      BY <2>0, <3>5, <3>8
    <3>10. x.n \in Nat
      BY <2>0 DEF TargetOK
    <3>11. TargetOK(y)
      BY <3>4, <3>9, <3>10 DEF TargetOK
    <3> QED
      BY <2>2, <3>1, <3>2, <3>7, <3>11, OneRoutedMoves
  <2> QED
    BY <1>0, <1>4, <2>1, <2>2 DEF SelectBackend
<1>5. CASE TryBackend(c)
  <2>0. /\ x.pc = "try" /\ {"pc", "listener", "sni", "route", "n", "from", "shown"} \subseteq DOMAIN x
        /\ RoutedOK(x) /\ TargetOK(x) /\ x.route.id \in RouteIds
    BY <1>0, <1>01, <1>5 DEF TryBackend, Routed
  <2>1. x.n \in Nat /\ "sel" \in DOMAIN x /\ x.sel.n \in Nat \ {0} /\ x.sel.start \in Nat
    BY <2>0 DEF TargetOK
  <2>2. CASE Becomes(c, NoConn) \/ Becomes(c, [pc |-> "refused"])
    BY <1>03, <2>2
  <2>3. CASE Becomes(c, [x EXCEPT !.n = @ + 1])
    <3>1. PICK y : y = [x EXCEPT !.n = @ + 1]
      OBVIOUS
    <3>2. DOMAIN y = DOMAIN x /\ y.pc = "try" /\ y.sel = x.sel /\ y.n = x.n + 1
      BY <2>0, <2>1, <3>1
    <3>3. /\ y.route = x.route /\ y.listener = x.listener /\ y.sni = x.sni
          /\ y.from = x.from /\ y.shown = x.shown /\ {"from", "shown"} \subseteq DOMAIN y
      BY <2>0, <3>1
    <3>4. RoutedOK(y)
      BY <2>0, <3>3, OnceRouted
    <3>5. TargetOK(y)
      BY <2>1, <3>2 DEF TargetOK
    <3> QED
      BY <2>3, <3>1, <3>4, <3>5, OneRoutedMoves
  <2>4. ASSUME NEW b \in PickBackend(x.route.id, x.sel, x.n),
               Becomes(c, Knowing(x, [pc |-> "connect", tried |-> x.tried \cup {b}, b |-> b]))
        PROVE  RoutedInv'
    <3>1. PICK new : new = [pc |-> "connect", tried |-> x.tried \cup {b}, b |-> b]
      OBVIOUS
    <3>2. PICK y : y = Knowing(x, new)
      OBVIOUS
    <3>3. PICK r \in RouteIds, i \in Nat : r = x.route.id /\ i = x.n
      BY <2>0, <2>1
    <3>4. PICK s : s = x.sel
      OBVIOUS
    <3>5. OfRouteEnv(b, r)
      BY <2>1, <2>4, <3>3, <3>4, PickedOK
    <3>6. DOMAIN new = {"pc", "tried", "b"} /\ new["pc"] = "connect" /\ new["b"] = b
      BY <3>1
    <3>7. DOMAIN new \cap {"route", "listener", "sni", "from", "shown"} = {}
      BY <3>6
    <3>8. RoutedOK(y) /\ y.route = x.route
      BY <2>0, <3>2, <3>7, GoesOn
    <3>9. /\ DOMAIN y = DOMAIN new \cup DOMAIN x
          /\ \A a \in DOMAIN new : y[a] = new[a]
          /\ \A a \in DOMAIN x \ DOMAIN new : y[a] = x[a]
      BY <3>2 DEF Knowing
    <3>10. y.pc = "connect" /\ y.b = b /\ y.n = x.n /\ y.sel = x.sel /\ {"b", "sel"} \subseteq DOMAIN y
      BY <2>0, <2>1, <3>6, <3>9
    <3>11. OfRouteEnv(y.b, y.route.id)
      BY <3>3, <3>5, <3>8, <3>10
    <3>12. TargetOK(y)
      BY <2>1, <3>10, <3>11 DEF TargetOK
    <3> QED
      BY <2>4, <3>1, <3>2, <3>8, <3>12, OneRoutedMoves
  <2>5. \/ Becomes(c, NoConn) \/ Becomes(c, [pc |-> "refused"]) \/ Becomes(c, [x EXCEPT !.n = @ + 1])
        \/ \E b \in PickBackend(x.route.id, x.sel, x.n) :
             Becomes(c, Knowing(x, [pc |-> "connect", tried |-> x.tried \cup {b}, b |-> b]))
    BY <1>0, <1>5 DEF TryBackend
  <2> QED
    BY <2>2, <2>3, <2>4, <2>5
<1>6. CASE ConnectBackend(c)
  <2>0. /\ x.pc = "connect" /\ {"pc", "listener", "sni", "route", "n", "from", "shown"} \subseteq DOMAIN x
        /\ RoutedOK(x) /\ TargetOK(x) /\ x.route.id \in RouteIds
    BY <1>0, <1>01, <1>6 DEF ConnectBackend, Routed
  <2>1. /\ x.n \in Nat /\ {"sel", "b"} \subseteq DOMAIN x /\ x.sel.n \in Nat \ {0} /\ x.sel.start \in Nat
        /\ OfRouteEnv(x.b, x.route.id)
    BY <2>0 DEF TargetOK
  <2>2. CASE Becomes(c, Knowing(x, [pc |-> "open", sent |-> Preamble(x) \o CopiedRest(x)]))
    <3>1. PICK new : new = [pc |-> "open", sent |-> Preamble(x) \o CopiedRest(x)]
      OBVIOUS
    <3>2. PICK y : y = Knowing(x, new)
      OBVIOUS
    <3>3. DOMAIN new = {"pc", "sent"} /\ new["pc"] = "open"
      BY <3>1
    <3>4. DOMAIN new \cap {"route", "listener", "sni", "from", "shown"} = {}
      BY <3>3
    <3>5. RoutedOK(y) /\ y.route = x.route
      BY <2>0, <3>2, <3>4, GoesOn
    <3>6. /\ DOMAIN y = DOMAIN new \cup DOMAIN x
          /\ \A a \in DOMAIN new : y[a] = new[a]
          /\ \A a \in DOMAIN x \ DOMAIN new : y[a] = x[a]
      BY <3>2 DEF Knowing
    <3>7. y.pc = "open" /\ y.b = x.b /\ "b" \in DOMAIN y
      BY <2>1, <3>3, <3>6
    <3>8. TargetOK(y)
      BY <2>1, <3>5, <3>7 DEF TargetOK
    <3> QED
      BY <2>2, <3>1, <3>2, <3>5, <3>8, OneRoutedMoves
  <2>3. CASE Becomes(c, [x EXCEPT !.pc = "try", !.n = @ + 1])
    <3>1. PICK y : y = [x EXCEPT !.pc = "try", !.n = @ + 1]
      OBVIOUS
    <3>2. DOMAIN y = DOMAIN x /\ y.pc = "try" /\ y.sel = x.sel /\ y.n = x.n + 1
      BY <2>0, <2>1, <3>1
    <3>3. /\ y.route = x.route /\ y.listener = x.listener /\ y.sni = x.sni
          /\ y.from = x.from /\ y.shown = x.shown /\ {"from", "shown"} \subseteq DOMAIN y
      BY <2>0, <3>1
    <3>4. RoutedOK(y)
      BY <2>0, <3>3, OnceRouted
    <3>5. TargetOK(y)
      BY <2>1, <3>2 DEF TargetOK
    <3> QED
      BY <2>3, <3>1, <3>4, <3>5, OneRoutedMoves
  <2> QED
    BY <1>0, <1>6, <2>2, <2>3 DEF ConnectBackend
<1>7. CASE CloseConnection(c)
  BY <1>03, <1>7 DEF CloseConnection
<1> QED
  BY <1>1, <1>2, <1>3, <1>4, <1>5, <1>6, <1>7 DEF ConnStep

\* Whatever else happens leaves the connections alone or ends them all.
LEMMA RoutedKept ==
    ASSUME LogInv, LogInv', Grows, SyncInv, BackendInv, ConnInv, RoutedInv, IngressNext
    PROVE  RoutedInv'
<1>1. CASE \E c \in Conns : ConnStep(c)
  BY <1>1, RoutedConnStep
<1>2. ASSUME conns' = conns \/ conns' = [c \in Conns |-> NoConn] PROVE RoutedInv'
  <2>1. PICK f : f = conns'
    OBVIOUS
  <2>2. NoConn.pc \notin Routed
    BY DEF NoConn, Routed
  <2>3. \A c \in Conns : f[c].pc \in Routed => RoutedOK(f[c]) /\ TargetOK(f[c])
    <3>1. CASE f = conns
      BY <3>1 DEF RoutedInv, Routed
    <3>2. CASE f = [c \in Conns |-> NoConn]
      BY <2>2, <3>2
    <3> QED
      BY <1>2, <2>1, <3>1, <3>2
  <2> QED
    BY <2>1, <2>3, RoutedAll
<1>3. RouteSync \/ BackendSync \/ Feed \/ Faults \/ Cooldown =>
         conns' = conns \/ conns' = [c \in Conns |-> NoConn]
  BY DEF RouteSync, WithProcess, BackendSync, Feed, Faults, Cooldown
<1> QED
  BY <1>1, <1>2, <1>3 DEF IngressNext

LEMMA BackendKept ==
    ASSUME BackendInv, SyncInv, IngressNext
    PROVE  BackendInv'
<1>1. RoutesOK(table)
  BY DEF SyncInv, Reads
<1>2. ready \subseteq Instances /\ rr \in [RouteIds -> Nat]
  BY DEF BackendInv
<1>3. ASSUME UNCHANGED bvars PROVE BackendInv'
  <2>1. ready' = ready /\ rr' = rr /\ pools' = pools /\ bsync' = bsync
    BY <1>3 DEF bvars
  <2> QED
    BY <1>2, <2>1, PoolsStay
<1>4. CASE RouteSync
  <2>1. WithProcess
    BY <1>4 DEF RouteSync
  <2> QED
    BY <2>1, ProcessKeepsPools
<1>5. CASE BackendSync
  <2>1. FetchBackends \/ UpdateRouteBackends
    BY <1>5 DEF BackendSync, BackendSyncStep
  <2> QED
    BY <1>1, <2>1, FetchKeepsPools
<1>6. CASE Feed
  BY <1>3, <1>6 DEF Feed
<1>7. CASE Faults
  <2>1. WithProcess \/ FetchBackendsFails \/ InstanceChanges
    BY <1>7 DEF Faults
  <2>2. CASE InstanceChanges
    <3>1. pools' = pools /\ bsync' = bsync /\ rr' = rr
      BY <2>2 DEF InstanceChanges
    <3>2. PICK i \in Flaky : ready' = ready \/ ready' = ready \ {i} \/ ready' = ready \cup {i}
      BY <2>2 DEF InstanceChanges
    <3>3. ready' \subseteq Instances
      BY <1>2, <3>2, BackendsAssumption
    <3> QED
      BY <1>2, <3>1, <3>3, PoolsStay
  <2> QED
    BY <1>1, <2>1, <2>2, ProcessKeepsPools, FetchKeepsPools
<1>8. CASE Cooldown
  <2>1. CooldownEnds
    BY <1>8 DEF Cooldown
  <2> QED
    BY <2>1, CooldownKeepsPools
<1>9. ASSUME NEW c \in Conns, ConnStep(c) PROVE BackendInv'
  <2>1. CASE Accept(c) \/ Sniff(c) \/ RouteConnection(c) \/ TryBackend(c) \/ CloseConnection(c)
    BY <1>3, <2>1 DEF Accept, Sniff, RouteConnection, TryBackend, CloseConnection
  <2>2. CASE SelectBackend(c)
    <3>1. ready' = ready /\ pools' = pools /\ bsync' = bsync
      BY <2>2 DEF SelectBackend
    <3>2. PICK r : rr' = rr \/ rr' = [rr EXCEPT ![r] = @ + 1]
      BY <2>2 DEF SelectBackend
    <3>3. rr' \in [RouteIds -> Nat]
      BY <1>2, <3>2
    <3> QED
      BY <1>2, <3>1, <3>3, PoolsStay
  <2>3. CASE ConnectBackend(c)
    <3>1. ready' = ready /\ rr' = rr /\ bsync' = bsync
      BY <2>3 DEF ConnectBackend
    <3>2. PICK r, b, health : pools' = Mark(r, b, health)
      BY <2>3 DEF ConnectBackend
    <3> QED
      BY <3>1, <3>2, MarkKeepsPools
  <2> QED
    BY <1>9, <2>1, <2>2, <2>3 DEF ConnStep
<1> QED
  BY <1>4, <1>5, <1>6, <1>7, <1>8, <1>9 DEF IngressNext

LEMMA EdgeStarts ==
    ASSUME IngressInit
    PROVE  EdgeInv
<1>1. /\ open = {} /\ nextId = 2
      /\ \E b \in NewRoutes : \E r \in RouteIds : rows = {Event(1, "mine", "route.created", r, b)}
  BY DEF IngressInit, FeedInit
<1>2. PICK b \in NewRoutes, r \in RouteIds : rows = {Event(1, "mine", "route.created", r, b)}
  BY <1>1
<1>3. PICK e : e = Event(1, "mine", "route.created", r, b)
  OBVIOUS
<1>4. EventOK(e) /\ e.id = 1
  <2>1. PICK env : env = IF r = None THEN "none" ELSE EnvOf[r]
    OBVIOUS
  <2>2. env = EnvOf[r]
    BY <2>1, FeedAssumption DEF None
  <2>3. e = [id |-> 1, org |-> "mine", type |-> "route.created", route |-> r, env |-> env, body |-> b,
             late |-> FALSE]
    BY <1>3, <2>1 DEF Event
  <2>4. DOMAIN e = EventKeys
    BY <2>3 DEF EventKeys
  <2>5. ItemOK(e)
    BY <2>2, <2>3 DEF ItemOK
  <2> QED
    BY <2>3, <2>4, <2>5 DEF EventOK
<1>5. rows = {e}
  BY <1>2, <1>3
<1>6. IsFiniteSet(rows)
  BY <1>5, FS_Singleton
<1>7. LogInv
  BY <1>1, <1>4, <1>5, <1>6 DEF LogInv
<1>8. RoutesInit /\ BackendsInit /\ conns = [c \in Conns |-> NoConn]
  BY DEF IngressInit
<1>9. SyncInv
  <2>1. Seen(0)
    BY DEF Seen
  <2>2. Reads(NoRoutes, 0, 0)
    BY <1>7, <2>1, NoRoutesOK, LoggedNothing DEF Reads
  <2>3. /\ routes = NoRoutes /\ table = NoRoutes /\ cursor = 0 /\ from = 0 /\ shown = 0
        /\ sync = [pc |-> "fetch", resp |-> NoResp] /\ store \in {"state", "cursor", "none"}
        /\ saved = FreshState
    BY <1>8, RoutesAssumption DEF RoutesInit
  <2>4. DOMAIN sync = {"pc", "resp"} /\ sync.pc = "fetch"
    BY <2>3
  <2>5. saved.routes = NoRoutes /\ saved.from = 0 /\ saved.cursor = 0
    BY <2>3 DEF FreshState
  <2> QED
    BY <2>2, <2>3, <2>4, <2>5 DEF SyncInv
<1>10. BackendInv
  <2>1. ASSUME NEW s \in RouteIds PROVE PoolOK(<<>>, s)
    BY DEF PoolOK
  <2>2. DOMAIN pools = RouteIds /\ \A s \in RouteIds : PoolOK(pools[s], s)
    BY <1>8, <2>1 DEF BackendsInit
  <2> QED
    BY <1>8, <2>2 DEF BackendsInit, BackendInv
<1>11. RoutedInv
  <2>1. \A c \in Conns : conns[c].pc = "idle"
    BY <1>8 DEF NoConn
  <2> QED
    BY <2>1 DEF RoutedInv
<1> QED
  BY <1>7, <1>9, <1>10, <1>11 DEF EdgeInv

LEMMA EdgeKept ==
    ASSUME ConnInv, EdgeInv, [IngressNext]_ingressvars
    PROVE  EdgeInv'
<1>0. LogInv /\ SyncInv /\ BackendInv /\ RoutedInv
  BY DEF EdgeInv
<1>1. CASE IngressNext
  <2>1. LogInv' /\ Grows
    BY <1>0, <1>1, LogStep
  <2>2. SyncInv'
    BY <1>0, <1>1, <2>1, SyncKept
  <2>3. BackendInv'
    BY <1>0, <1>1, BackendKept
  <2>4. RoutedInv'
    BY <1>0, <1>1, <2>1, RoutedKept
  <2> QED
    BY <2>1, <2>2, <2>3, <2>4 DEF EdgeInv
<1>2. CASE UNCHANGED ingressvars
  <2>1. UNCHANGED <<rows, open, nextId>> /\ UNCHANGED rvars /\ UNCHANGED bvars /\ conns' = conns
    BY <1>2 DEF ingressvars, fvars
  <2>2. LogInv' /\ Grows
    BY <1>0, <2>1, LogStays
  <2>3. SyncInv'
    BY <1>0, <2>1, <2>2, SyncStays
  <2>4. BackendInv'
    <3>1. ready' = ready /\ rr' = rr /\ pools' = pools /\ bsync' = bsync
      BY <2>1 DEF bvars
    <3>2. ready' \subseteq Instances /\ rr' \in [RouteIds -> Nat]
      BY <1>0, <3>1 DEF BackendInv
    <3> QED
      BY <1>0, <3>1, <3>2, PoolsStay
  <2>5. RoutedInv'
    <3>1. PICK f : f = conns'
      OBVIOUS
    <3>2. \A c \in Conns : f[c].pc \in Routed => RoutedOK(f[c]) /\ TargetOK(f[c])
      BY <1>0, <2>1, <3>1 DEF RoutedInv, Routed
    <3> QED
      BY <1>0, <2>2, <3>1, <3>2, RoutedAll
  <2> QED
    BY <2>2, <2>3, <2>4, <2>5 DEF EdgeInv
<1> QED
  BY <1>1, <1>2

LEMMA EdgeFollows == EdgeInv => RoutedAsLogged
<1>1. SUFFICES ASSUME EdgeInv, NEW c \in Conns, conns[c].pc = "open",
                      ~LateIn(conns[c].from, conns[c].shown)
               PROVE  InstanceOf[conns[c].b.inst].env \in Owners(conns[c])
  BY DEF RoutedAsLogged
<1>2. PICK x : x = conns[c]
  OBVIOUS
<1>3. RoutedOK(x) /\ TargetOK(x) /\ x.pc = "open" /\ ~LateIn(x.from, x.shown)
  BY <1>1, <1>2 DEF EdgeInv, RoutedInv
<1>4. x.route.env = EnvOf[x.route.id] /\ x.route.env \in Owners(x)
  BY <1>3 DEF RoutedOK
<1>5. OfRouteEnv(x.b, x.route.id)
  BY <1>3 DEF TargetOK
<1>6. InstanceOf[x.b.inst].env = x.route.env
  BY <1>4, <1>5 DEF OfRouteEnv
<1> QED
  BY <1>2, <1>4, <1>6

\* The routes the edge knows, the ones it has on disk, the response it is about to apply and the
\* backends it has been told of are those of the log as far as it was read, whatever is written
\* to the log meanwhile and whenever the process dies.
THEOREM EdgeInvariant == IngressSpec => []EdgeInv
<1>1. IngressInit => EdgeInv
  BY EdgeStarts
<1>2. ConnInv /\ EdgeInv /\ [IngressNext]_ingressvars => EdgeInv'
  BY EdgeKept
<1> QED
  BY <1>1, <1>2, ConnInvariant, PTL DEF IngressSpec

\* A connection reaches an instance of the environment that the log gives it to, unless an event
\* was committed behind one already applied.
THEOREM ConnectionsReachOwners == IngressSpec => []RoutedAsLogged
  BY EdgeInvariant, EdgeFollows, PTL

=============================================================================
