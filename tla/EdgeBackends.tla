---------------------------- MODULE EdgeBackends ----------------------------
(***************************************************************************)
(* The edge's backends: a pool per route, refreshed from the control       *)
(* plane's ready instances, and the choice of one for a connection.        *)
(***************************************************************************)
EXTENDS EdgeRoutes

CONSTANTS
    Instances,    \* numbers, in the order the control plane lists them
    InstanceOf,   \* [Instances -> [env, target]]
    Flaky,        \* the instances whose state changes
    BackendLimit  \* the limit the edge asks for

ASSUME BackendsAssumption ==
    /\ Instances \subseteq Nat /\ IsFiniteSet(Instances) /\ Flaky \subseteq Instances
    /\ BackendLimit \in Nat

VARIABLES
    ready,   \* instances the control plane shows as ready
    reach,   \* instances that accept connections
    pools,   \* BackendSelector: [RouteIds -> Seq([inst, target, health])]
    rr,      \* the pools' rr_counter
    bsync    \* sync_backends: the route being fetched and the answer

bvars == <<ready, reach, pools, rr, bsync>>

IdleSync == [id |-> None, got |-> <<>>]

BackendsInit ==
    /\ ready = Instances /\ reach = Instances
    /\ pools = [r \in RouteIds |-> <<>>]
    /\ rr = [r \in RouteIds |-> 0]
    /\ bsync = IdleSync

----------------------------------------------------------------------------
(* sync_backends.                                                          *)

\* A set of numbers as a sequence: the k-th has k - 1 of them below it.
Ascending(A) == [k \in 1 .. Cardinality(A) |-> CHOOSE i \in A : Cardinality({j \in A : j < i}) = k - 1]

InTable == {r \in RouteIds : table[r] # NoRoute}

\* list_instances: the first of the ready instances of the route's environment and process
\* type.
Serving(route) == {i \in ready : InstanceOf[i] = [env |-> route.env, target |-> route.target]}
ListInstances(route) ==
    LET S == Serving(route)
    IN  {i \in S : Cardinality({j \in S : j < i}) < BackendLimit}

\* overlay_ipv6::TEXT of an INET column: the address and its mask length. host(), as the
\* other queries have it, gives the address alone.
AddressText == IF wire.addr = "text" THEN "address/128" ELSE "address"
ParsesAsIpv6(text) == text = "address"

\* fetch_route_backends: an instance whose address does not parse is left out.
FetchRouteBackends(route) ==
    LET S == {i \in ListInstances(route) : ParsesAsIpv6(AddressText)}
        at == Ascending(S)
    IN  [k \in 1 .. Cardinality(S) |-> [inst |-> at[k], target |-> route.target]]

\* One route of sync_backends: its pool is out of date. The answer is as old as the question
\* when it is used.
FetchBackends ==
    /\ bsync = IdleSync
    /\ \E r \in InTable : \E got \in {FetchRouteBackends(table[r])} :
         /\ [k \in 1 .. Len(pools[r]) |-> [inst |-> pools[r][k].inst, target |-> pools[r][k].target]] # got
         /\ bsync' = [id |-> r, got |-> got]
    /\ UNCHANGED <<ready, reach, pools, rr>>

\* Mutant: a pool is filled once and not refreshed.
UpdateOnce(old, new) ==
    IF old # <<>> THEN old
    ELSE [k \in 1 .. Len(new) |-> [inst |-> new[k].inst, target |-> new[k].target, health |-> "unknown"]]

\* update_backends: the health of a backend that is still there is kept.
UpdateBackends(old, new) ==
    [k \in 1 .. Len(new) |->
       LET same == {j \in 1 .. Len(old) : old[j].inst = new[k].inst /\ old[j].target = new[k].target}
       IN  IF same = {} THEN [inst |-> new[k].inst, target |-> new[k].target, health |-> "unknown"]
           ELSE old[CHOOSE j \in same : TRUE]]

UpdateRouteBackends ==
    /\ bsync # IdleSync
    /\ pools' = [pools EXCEPT ![bsync.id] = UpdateBackends(@, bsync.got)]
    /\ bsync' = IdleSync
    /\ UNCHANGED <<ready, reach, rr>>

\* The request failed: the pool stays as it is.
FetchBackendsFails ==
    /\ bsync # IdleSync
    /\ bsync' = IdleSync
    /\ UNCHANGED <<ready, reach, pools, rr>>

----------------------------------------------------------------------------
(* BackendPool.                                                            *)

\* is_eligible, should_retry: "cooling" is unhealthy within its cooldown, "retry" past it.
IsEligible(s) == s.health # "cooling"
EligibleIn(pool) ==
    LET at == Ascending({k \in 1 .. Len(pool) : IsEligible(pool[k])})
    IN  [i \in 1 .. Len(at) |-> pool[at[i]]]

\* mark_healthy, mark_unhealthy: of a backend that may have left the pool
Mark(r, b, health) ==
    [pools EXCEPT ![r] = [k \in 1 .. Len(@) |->
        IF @[k].inst = b.inst /\ @[k].target = b.target THEN [@[k] EXCEPT !.health = health] ELSE @[k]]]

\* select_and_connect: how many are eligible and where to begin. {} is none.
SelectStart(r) ==
    LET n == Len(EligibleIn(pools[r]))
    IN  IF n = 0 THEN {} ELSE {[n |-> n, start |-> rr[r] % n]}

\* The backend of one round of its loop, among those eligible by then; {} when the index is
\* past their end.
PickBackend(r, s, i) ==
    LET eligible == EligibleIn(pools[r])
        idx == (s.start + i) % s.n
    IN  IF idx >= Len(eligible) THEN {} ELSE {eligible[idx + 1]}

\* A cooldown is over.
CooldownEnds ==
    /\ \E r \in RouteIds : \E k \in 1 .. Len(pools[r]) :
         /\ pools[r][k].health = "cooling"
         /\ pools' = [pools EXCEPT ![r][k].health = "retry"]
    /\ UNCHANGED <<ready, reach, rr, bsync>>

\* Instances come and go.
InstanceChanges ==
    /\ \E i \in Flaky :
         \/ reach' = (IF i \in reach THEN reach \ {i} ELSE reach \cup {i}) /\ UNCHANGED ready
         \/ ready' = (IF i \in ready THEN ready \ {i} ELSE ready \cup {i}) /\ UNCHANGED reach
    /\ UNCHANGED <<pools, rr, bsync>>

=============================================================================
