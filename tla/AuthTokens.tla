----------------------------- MODULE AuthTokens -----------------------------
(***************************************************************************)
(* Tokens of the control plane: a device login, the refresh tokens that    *)
(* replace each other, the access tokens that belong to them or to a       *)
(* service principal, revocation, and the cache in front of the table of   *)
(* access tokens. Token n is an access token and, of a login, the refresh  *)
(* token issued with it.                                                   *)
(***************************************************************************)
EXTENDS Integers, Sequences, FiniteSets

CONSTANTS
    Callers,     \* requests at a time
    MaxTokens,   \* bound on tokens issued
    CacheSize    \* max_entries

ASSUME AuthAssumption == MaxTokens \in Nat /\ CacheSize \in Nat \ {0}

VARIABLES
    device,   \* the device code: [status, recent]; recent is a poll within the interval
    toks,     \* Seq([refresh, access]): "live", "revoked", "expired"; "none" is no refresh token
    cache,    \* tokens in ACCESS_TOKEN_CACHE
    calls,    \* [Callers -> request in progress]
    signedOut \* a revoke of this login's refresh token was answered revoked

avars == <<device, toks, cache, calls, signedOut>>

Idle == [pc |-> "idle"]
CallBecomes(c, x) == calls' = [calls EXCEPT ![c] = x]

AuthInit ==
    /\ device = [status |-> "pending", recent |-> FALSE]
    /\ toks = <<>> /\ cache = {}
    /\ calls = [c \in Callers |-> Idle]
    /\ signedOut = FALSE

\* create_refresh_token and create_access_token, in the transaction of their caller
Issued(ts, refresh) == Append(ts, [refresh |-> refresh, access |-> "live"])
Room == Len(toks) < MaxTokens

\* validate_access_token, validate_refresh_token_for_update
AccessValid(n) == toks[n].access = "live"
RefreshValid(n) == toks[n].refresh = "live"

\* Tokens of the login.
OfLogin == {n \in 1 .. Len(toks) : toks[n].refresh # "none"}

----------------------------------------------------------------------------
(* The device flow.                                                        *)

\* The user decides, at a service that is not part of this repository; or the code expires.
UserDecides ==
    /\ device.status = "pending"
    /\ device' \in {[device EXCEPT !.status = s] : s \in {"approved", "denied", "expired"}}
    /\ UNCHANGED <<toks, cache, calls, signedOut>>

\* device_token: the row is read, and the poll noted. Too soon is told to slow down.
PollDevice(c) ==
    /\ calls[c] = Idle
    /\ device' = [device EXCEPT !.recent = TRUE]
    /\ CallBecomes(c, IF device.recent \/ device.status # "approved" THEN Idle ELSE [pc |-> "consume"])
    /\ UNCHANGED <<toks, cache, signedOut>>

PollIntervalOver ==
    /\ device.recent
    /\ device' = [device EXCEPT !.recent = FALSE]
    /\ UNCHANGED <<toks, cache, calls, signedOut>>

\* Mutant: the status that was read is trusted.
ConsumeAsRead(c) ==
    /\ calls[c].pc = "consume" /\ Room
    /\ device' = [device EXCEPT !.status = "consumed"]
    /\ toks' = Issued(toks, "live")
    /\ CallBecomes(c, Idle)
    /\ UNCHANGED <<cache, signedOut>>

\* The transaction that consumes an approved code and issues the first tokens.
ConsumeDevice(c) ==
    /\ calls[c].pc = "consume" /\ Room
    /\ IF device.status = "approved"
       THEN device' = [device EXCEPT !.status = "consumed"] /\ toks' = Issued(toks, "live")
       ELSE UNCHANGED <<device, toks>>
    /\ CallBecomes(c, Idle)
    /\ UNCHANGED <<cache, signedOut>>

----------------------------------------------------------------------------
(* The other endpoints.                                                    *)

\* token: client credentials of a service principal, of which one token is enough
IssueToken(c) ==
    /\ calls[c] = Idle /\ Room /\ \A n \in 1 .. Len(toks) : toks[n].refresh # "none"
    /\ toks' = Issued(toks, "none")
    /\ UNCHANGED <<device, cache, calls, signedOut>>

\* UPDATE access_tokens ... WHERE refresh_token_id = n AND revoked_at IS NULL
AccessRevoked(ts, n) == [ts EXCEPT ![n].access = "revoked"]

\* token_refresh: one transaction that holds the refresh token's row
RefreshToken(c) ==
    /\ calls[c] = Idle /\ Room
    /\ \E n \in 1 .. Len(toks) :
         /\ RefreshValid(n)
         /\ toks' = Issued([AccessRevoked(toks, n) EXCEPT ![n].refresh = "revoked"], "live")
    /\ UNCHANGED <<device, cache, calls, signedOut>>

\* Mutant: the access tokens are left to expire.
RevokeRefreshOnly(c) ==
    /\ calls[c] = Idle
    /\ \E n \in OfLogin : CallBecomes(c, [pc |-> "revoke", tok |-> n])
    /\ UNCHANGED <<device, toks, cache, signedOut>>

\* revoke_refresh_token, statement by statement: the access tokens first
RevokeFirst(c) ==
    /\ calls[c] = Idle
    /\ \E n \in OfLogin :
         /\ toks' = AccessRevoked(toks, n)
         /\ CallBecomes(c, [pc |-> "revoke", tok |-> n])
    /\ UNCHANGED <<device, cache, signedOut>>

RevokeThen(c) ==
    /\ calls[c].pc = "revoke"
    /\ LET live == toks[calls[c].tok].refresh \in {"live", "expired"}
       IN  /\ toks' = IF live THEN [toks EXCEPT ![calls[c].tok].refresh = "revoked"] ELSE toks
           /\ signedOut' = (signedOut \/ live)
    /\ CallBecomes(c, Idle)
    /\ UNCHANGED <<device, cache>>

\* The request ends between the two.
RevokeCut(c) ==
    /\ calls[c].pc = "revoke"
    /\ CallBecomes(c, Idle)
    /\ UNCHANGED <<device, toks, cache, signedOut>>

\* revoke_access_token
RevokeAccess(c) ==
    /\ calls[c] = Idle
    /\ \E n \in 1 .. Len(toks) : toks' = AccessRevoked(toks, n)
    /\ UNCHANGED <<device, cache, calls, signedOut>>

----------------------------------------------------------------------------
(* actor_from_authorization_header.                                        *)

\* AccessTokenCache::get, then validate_access_token. Nothing is noted of a hit.
UseToken(c) ==
    /\ calls[c] = Idle
    /\ \E n \in 1 .. Len(toks) :
         /\ n \notin cache /\ AccessValid(n)
         /\ CallBecomes(c, [pc |-> "insert", tok |-> n])
    /\ UNCHANGED <<device, toks, cache, signedOut>>

\* AccessTokenCache::insert; a full cache is emptied.
CacheInsert(c) ==
    /\ calls[c].pc = "insert"
    /\ cache' = (IF Cardinality(cache) >= CacheSize THEN {} ELSE cache) \cup {calls[c].tok}
    /\ CallBecomes(c, Idle)
    /\ UNCHANGED <<device, toks, signedOut>>

\* An entry past the cache's ttl, or of an expired token, is no longer used.
CacheExpires ==
    /\ \E n \in cache : cache' = cache \ {n}
    /\ UNCHANGED <<device, toks, calls, signedOut>>

TokenExpires ==
    /\ \E n \in 1 .. Len(toks), part \in {"refresh", "access"} :
         toks[n][part] = "live" /\ toks' = [toks EXCEPT ![n][part] = "expired"]
    /\ UNCHANGED <<device, cache, calls, signedOut>>

----------------------------------------------------------------------------

Finish(c) == ConsumeDevice(c) \/ RevokeThen(c) \/ CacheInsert(c)

AuthNext ==
    \/ UserDecides \/ PollIntervalOver \/ CacheExpires \/ TokenExpires
    \/ \E c \in Callers :
         \/ PollDevice(c) \/ IssueToken(c) \/ RefreshToken(c) \/ RevokeFirst(c) \/ RevokeCut(c)
         \/ RevokeAccess(c) \/ UseToken(c) \/ Finish(c)

\* A login has one line of tokens: at most one refresh token can be used, and an access token
\* only while the refresh token issued with it has not been replaced or revoked, whatever
\* polls, refreshes and revocations overlap.
OneLineage ==
    /\ Cardinality({n \in OfLogin : toks[n].refresh = "live"}) <= 1
    /\ \A n \in OfLogin : toks[n].access = "live" => toks[n].refresh # "revoked"

\* Once a revocation has been confirmed, the time comes from which on no token of the login
\* is accepted, be it from the table, from the cache or by a request that is on its way into
\* the cache, and none is issued any more.
SignOutHolds ==
    signedOut ~> [](/\ \A n \in OfLogin : n \notin cache /\ toks[n].access # "live" /\ toks[n].refresh # "live"
                    /\ \A c \in Callers : calls[c].pc = "insert" => calls[c].tok \notin OfLogin)

=============================================================================
