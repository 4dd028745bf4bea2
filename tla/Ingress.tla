------------------------------- MODULE Ingress -------------------------------
(***************************************************************************)
(* The edge: its listeners' connections over the route table and the pools *)
(* while both are being refreshed, with crashes of the process and faults  *)
(* of what it talks to.                                                    *)
(***************************************************************************)
EXTENDS EdgeBackends

CONSTANTS
    Conns,           \* connections at a time
    MaxConnections,  \* permits of a listener
    Clients,         \* who connects: [says, host, to], see Sniff; "to" is the listener, "v6"
                     \* or the environment whose IPv4 address is listened on
    Spellings, Filters

VARIABLES conns

ingressvars == <<fvars, rvars, bvars, conns>>

NoConn == [pc |-> "idle"]

IngressInit ==
    /\ FeedInit(Spellings, Filters)
    /\ RoutesInit
    /\ BackendsInit
    /\ conns = [c \in Conns |-> NoConn]
    /\ wire.keys = "lower_camel" \/ wire.addr = "text" \/ tail.filter # "off" => store = "state"
    /\ tail.filter # "off" => wire.keys = "as_stored" /\ wire.addr = "text"

----------------------------------------------------------------------------
(* Listener.                                                               *)

Active == {c \in Conns : conns[c].pc \notin {"idle", "refused"}}
Becomes(c, x) == conns' = [conns EXCEPT ![c] = x]

\* run, and handle_connection up to routes_for_port: only a TLS route makes it look for a name
Accept(c) ==
    /\ sync.pc # "dead" /\ conns[c] = NoConn /\ Cardinality(Active) < MaxConnections
    /\ Turn
    /\ \E who \in Clients :
         Becomes(c, [pc |-> IF \E r \in InTable : table[r].proto = "tls" THEN "sniff" ELSE "route",
                     who |-> who, listener |-> who.to, sni |-> "none", buf |-> <<>>])
    /\ UNCHANGED <<rows, open, nextId, wire, tail, rvars, bvars>>

\* What a client sends.
Bytes(who) == IF who.says = "slow" THEN <<"begin", "rest">> ELSE <<who.says>>

\* parse_sni on what was read: a name, or none for a hello without one, for bytes that are no
\* TLS, or for a hello that cannot be read.
ParseSni(who) == IF who.says = "hello" THEN who.host ELSE "none"

\* inspect: what it puts in the buffer. Timed out, the buffer keeps its full size.
Inspect(who) == IF who.says = "slow" THEN <<"begin", "zeros">> ELSE Bytes(who)

Sniff(c) ==
    /\ conns[c].pc = "sniff"
    /\ Becomes(c, [conns[c] EXCEPT !.pc = "route", !.sni = ParseSni(conns[c].who),
                                   !.buf = Inspect(conns[c].who)])
    /\ UNCHANGED <<fvars, rvars, bvars>>

\* route_matches_listener
RouteMatchesListener(l, route) == l = "v6" \/ (route.v4 /\ route.env = l)

\* by_key: the last of two routes with one hostname
ByKey(h) == {r \in InTable : table[r].host = h /\ \A q \in InTable : table[q].host = h => q <= r}

\* RouteTable::route; {} closes the connection.
Decide(l, sni) ==
    IF sni # "none" THEN {r \in ByKey(sni) : RouteMatchesListener(l, table[r])}
    ELSE {r \in InTable : /\ RouteMatchesListener(l, table[r]) /\ table[r].proto = "raw"
                          /\ \A q \in InTable : RouteMatchesListener(l, table[q]) => q = r}

RouteConnection(c) ==
    /\ conns[c].pc = "route"
    /\ \/ /\ Decide(conns[c].listener, conns[c].sni) = {}
          /\ Becomes(c, NoConn)
       \/ \E r \in Decide(conns[c].listener, conns[c].sni) :
            Becomes(c, Knowing(conns[c], [pc |-> "select", route |-> table[r], tried |-> {}, n |-> 0,
                                          from |-> from, shown |-> shown]))
    /\ UNCHANGED <<fvars, rvars, bvars>>

\* select_and_connect
SelectBackend(c) ==
    LET r == conns[c].route.id
    IN  /\ conns[c].pc = "select"
        /\ \/ /\ SelectStart(r) = {}
              /\ Becomes(c, NoConn)
              /\ UNCHANGED rr
           \/ \E s \in SelectStart(r) :
                /\ Becomes(c, Knowing(conns[c], [pc |-> "try", sel |-> s, at |-> Range(EligibleIn(pools[r]))]))
                /\ rr' = [rr EXCEPT ![r] = @ + 1]
        /\ UNCHANGED <<fvars, rvars, ready, reach, pools, bsync>>

\* Backends that were there all along, accept connections and were not asked. A connection is
\* closed in any case; "refused" remembers that there were some.
Spare(x) == {b \in x.at \cap Range(EligibleIn(pools[x.route.id])) : b.inst \in reach} \ x.tried

TryBackend(c) ==
    LET x == conns[c]
        picked == PickBackend(x.route.id, x.sel, x.n)
    IN  /\ x.pc = "try"
        /\ \/ x.n = x.sel.n /\ Becomes(c, IF Spare(x) = {} THEN NoConn ELSE [pc |-> "refused"])
           \/ x.n < x.sel.n /\ picked = {} /\ Becomes(c, [x EXCEPT !.n = @ + 1])
           \/ /\ x.n < x.sel.n
              /\ \E b \in picked : Becomes(c, Knowing(x, [pc |-> "connect", tried |-> x.tried \cup {b}, b |-> b]))
        /\ UNCHANGED <<fvars, rvars, bvars>>

\* ProxyProtocolV2::encode, of addresses of one family
ProxyHeader(l) == IF l = "v6" THEN "proxy_v6" ELSE "proxy_v4"

\* Mutant: the header follows what was read of the stream.
HeaderLast(x) == x.buf \o IF x.route.proxy THEN <<ProxyHeader(x.listener)>> ELSE <<>>

\* The header, then the bytes read while looking for a name; proxy_bidirectional copies the
\* rest.
Preamble(x) == (IF x.route.proxy THEN <<ProxyHeader(x.listener)>> ELSE <<>>) \o x.buf
CopiedRest(x) ==
    IF x.buf = <<>> THEN Bytes(x.who) ELSE IF x.who.says = "slow" THEN <<"rest">> ELSE <<>>

\* try_connect, mark_healthy or mark_unhealthy, and the stream
ConnectBackend(c) ==
    LET x == conns[c]
    IN  /\ x.pc = "connect"
        /\ IF x.b.inst \in reach
           THEN /\ pools' = Mark(x.route.id, x.b, "healthy")
                /\ Becomes(c, Knowing(x, [pc |-> "open", sent |-> Preamble(x) \o CopiedRest(x)]))
           ELSE /\ pools' = Mark(x.route.id, x.b, "cooling")
                /\ Becomes(c, [x EXCEPT !.pc = "try", !.n = @ + 1])
        /\ UNCHANGED <<fvars, rvars, ready, reach, rr, bsync>>

CloseConnection(c) ==
    /\ conns[c].pc \in {"open", "refused"}
    /\ Becomes(c, NoConn)
    /\ UNCHANGED <<fvars, rvars, bvars>>

----------------------------------------------------------------------------

\* A death of the process takes its connections and pools along.
WithProcess ==
    IF sync'.pc = "dead" /\ sync.pc # "dead"
    THEN /\ conns' = [c \in Conns |-> NoConn]
         /\ pools' = [r \in RouteIds |-> <<>>] /\ rr' = [r \in RouteIds |-> 0] /\ bsync' = IdleSync
         /\ UNCHANGED <<ready, reach>>
    ELSE UNCHANGED <<conns, bvars>>

\* main of the ingress
RouteSyncStep == FetchEvents \/ ApplyResponse \/ RejectResponse \/ SaveState \/ SyncStarts
RouteSync == RouteSyncStep /\ WithProcess /\ UNCHANGED <<fvars>>

BackendSyncStep == FetchBackends \/ UpdateRouteBackends
BackendSync == sync.pc # "dead" /\ BackendSyncStep /\ UNCHANGED <<fvars, rvars, conns>>

Feed == FeedNext /\ UNCHANGED <<rvars, bvars, conns>>
TailStep == (StreamPoll \/ StreamLine) /\ UNCHANGED <<rvars, bvars, conns>>

Faults ==
    /\ Turn /\ UNCHANGED <<rows, open, nextId, wire, tail>>
    /\ \/ (SaveFails \/ SyncDies) /\ WithProcess
       \/ sync.pc # "dead" /\ FetchBackendsFails /\ UNCHANGED <<rvars, conns>>
       \/ InstanceChanges /\ UNCHANGED <<rvars, conns>>

Cooldown == CooldownEnds /\ UNCHANGED <<fvars, rvars, conns>>

ConnStep(c) ==
    \/ Accept(c) \/ Sniff(c) \/ RouteConnection(c) \/ SelectBackend(c) \/ TryBackend(c)
    \/ ConnectBackend(c) \/ CloseConnection(c)

IngressNext ==
    \/ RouteSync \/ BackendSync \/ Feed \/ Faults \/ Cooldown
    \/ \E c \in Conns : ConnStep(c)

\* The two loops, the tail and the manager that starts the process again make progress.
IngressSpec ==
    /\ IngressInit /\ [][IngressNext]_ingressvars
    /\ WF_ingressvars(RouteSync) /\ WF_ingressvars(BackendSync) /\ WF_ingressvars(TailStep)

----------------------------------------------------------------------------

\* The environments the log, as far as the edge has applied it, gives a connection to: the
\* owner of the name it asked for, or, without a name, the owner of the only route there.
Owners(x) ==
    LET logged == Logged(x.from, x.shown)
        there == {r \in RouteIds : logged[r] # NoRoute /\ RouteMatchesListener(x.listener, logged[r])}
    IN  IF x.sni # "none" THEN {logged[r].env : r \in {q \in there : logged[q].host = x.sni}}
        ELSE IF Cardinality(there) = 1 THEN {logged[r].env : r \in there} ELSE {}

\* A connection reaches an instance of the environment that the log gives it to, whatever
\* happens to routes and backends while it is looked at and however often the process has
\* been started again, unless an event was committed behind one already applied.
RoutedAsLogged ==
    \A c \in Conns : conns[c].pc = "open" /\ ~LateIn(conns[c].from, conns[c].shown) =>
        InstanceOf[conns[c].b.inst].env \in Owners(conns[c])

\* A backend receives the bytes of its client, after a PROXY header if its route asks for one
\* and nothing else, unless looking for a name timed out.
StreamIntact ==
    \A c \in Conns : conns[c].pc = "open" /\ ~(conns[c].who.says = "slow" /\ conns[c].buf # <<>>) =>
        conns[c].sent = (IF conns[c].route.proxy THEN <<ProxyHeader(conns[c].listener)>> ELSE <<>>)
                            \o Bytes(conns[c].who)

\* What a pool comes to: with addresses the edge can read, the first of the ready instances of
\* its route's target, and all of them unless it is full; with addresses as the control plane
\* sends them, none.
PoolSettled(r) ==
    LET got == {pools[r][k].inst : k \in 1 .. Len(pools[r])}
    IN  /\ got \subseteq Serving(table[r])
        /\ wire.addr = "text" => got = {}
        /\ wire.addr = "host" => \A i \in Serving(table[r]) \ got :
              Cardinality(got) = BackendLimit /\ \A j \in got : j < i

\* In the end a tail has sent what it was asked for; with payload keys the edge reads, the
\* table is what the log says and every pool has settled, unless an event was committed late
\* or the edge was started again with a cursor and no routes; with keys as the control plane
\* spells them, there is no route.
EdgeSettles ==
    <>[](/\ TailComplete
         /\ wire.keys = "lower_camel" => table = NoRoutes
         /\ (wire.keys = "as_stored" /\ from = 0 /\ ~LateIn(0, MaxEvents)) =>
              table = Logged(0, MaxEvents) /\ \A r \in InTable : PoolSettled(r))

\* What the documentation says of an unreachable backend: the others are tried.
FailsOver == \A c \in Conns : conns[c].pc # "refused"

=============================================================================
