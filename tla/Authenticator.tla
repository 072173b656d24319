---------------------------- MODULE Authenticator ----------------------------
(***************************************************************************)
(* API keys to tenants (internal/auth/resolver.go, internal/authrepo): an  *)
(* LRU cache with a time to live in front of the tenant table, one lookup  *)
(* at a time per key (singleflight) under the first caller's context, and  *)
(* a token bucket for cold lookups.  Get and Remove of an expired entry    *)
(* are two steps, as are the database's read and the Add that caches it.   *)
(***************************************************************************)
EXTENDS Integers

CONSTANTS
    Requests,       \* goroutines that resolve keys, each again and again
    Keys,
    TTL,            \* positive entries; negativeCacheTTL for refusals
    NegativeTTL,
    MaxDelay,       \* time from a result's determination to its delivery
    Rate, Burst,    \* coldLookupRate per unit of time, coldLookupBurst
    MaxTime         \* bound on the clock

ASSUME TimesAssumption ==
    TTL \in Nat /\ NegativeTTL \in Nat /\ MaxDelay \in Nat /\ MaxTime \in Nat
ASSUME RateAssumption == Rate \in Nat /\ Burst \in Nat

VARIABLES
    now,
    active,         \* the tenant table: keys of active tenants
    changed,        \* history: when a key's status last changed
    cache,          \* [ok, expires] per key, or NoEntry
    tokens,         \* the rate limiter's bucket
    pc, key,        \* where each request stands, and its key
    result,         \* what it was answered, or is about to be
    since           \* history: when a leader's result was read

requestVars  == <<pc, key, result, since>>
databaseVars == <<active, changed>>
vars == <<now, databaseVars, cache, tokens, requestVars>>

NoEntry == [ok |-> FALSE, expires |-> -1]
\* Longer ago than any bound below.
Never == -(TTL + NegativeTTL + 2 * MaxDelay + 1)

\* The last time a key was valid, and the last time it was not.
LastOn(k)  == IF k \in active THEN now ELSE changed[k]
LastOff(k) == IF k \in active THEN changed[k] ELSE now

Fresh(k) == cache[k] # NoEntry /\ now <= cache[k].expires

\* The stations of the call that runs the singleflight function.
Leading == {"get2", "remove2", "allow", "query", "cancelled", "answered", "finish"}
InFlight(k) == \E r \in Requests : pc[r] \in Leading /\ key[r] = k

Init ==
    /\ now = 0
    /\ active \in SUBSET Keys
    /\ changed = [k \in Keys |-> Never]
    /\ cache = [k \in Keys |-> NoEntry]
    /\ tokens = Burst
    /\ pc = [r \in Requests |-> "idle"]
    /\ key \in [Requests -> Keys]
    /\ result = [r \in Requests |-> "none"]
    /\ since = [r \in Requests |-> 0]

Goto(r, l) == pc' = [pc EXCEPT ![r] = l]

\* ResolveTenantID is called; a client may call again once answered.
Call(r, k) ==
    /\ pc[r] = "idle"
    /\ Goto(r, "get")
    /\ key' = [key EXCEPT ![r] = k]
    /\ result' = [result EXCEPT ![r] = "none"]
    /\ UNCHANGED <<now, databaseVars, cache, tokens, since>>

Answer(ok) == IF ok THEN "tenant" ELSE "invalid"

\* Mutant of Hit: the expiry of a positive entry is not looked at.
BugHitExpired(k) == cache[k] # NoEntry /\ (cache[k].ok \/ Fresh(k))

Hit(k) == Fresh(k)

\* lookupCache: an entry that has not expired is the answer, of the call at
\* once, of the flight when the leader returns.
GetHit(r) ==
    /\ pc[r] \in {"get", "get2"}
    /\ Hit(key[r])
    /\ Goto(r, IF pc[r] = "get" THEN "idle" ELSE "finish")
    /\ result' = [result EXCEPT ![r] = Answer(cache[key[r]].ok)]
    /\ since' = [since EXCEPT ![r] = IF pc[r] = "get" THEN 0 ELSE now]
    /\ UNCHANGED <<now, databaseVars, cache, tokens, key>>

GetMiss(r) ==
    /\ pc[r] \in {"get", "get2"}
    /\ ~Hit(key[r])
    /\ Goto(r, IF cache[key[r]] = NoEntry
               THEN IF pc[r] = "get" THEN "do" ELSE "allow"
               ELSE IF pc[r] = "get" THEN "remove" ELSE "remove2")
    /\ UNCHANGED <<now, databaseVars, cache, tokens, key, result, since>>

\* Remove takes whatever entry is there by now.
Remove(r) ==
    /\ pc[r] \in {"remove", "remove2"}
    /\ cache' = [cache EXCEPT ![key[r]] = NoEntry]
    /\ Goto(r, IF pc[r] = "remove" THEN "do" ELSE "allow")
    /\ UNCHANGED <<now, databaseVars, tokens, key, result, since>>

\* Mutant of Lead: no second look at the cache inside the flight.
BugLeadWithoutLookup(r) ==
    /\ pc[r] = "do"
    /\ ~InFlight(key[r])
    /\ Goto(r, "allow")
    /\ UNCHANGED <<now, databaseVars, cache, tokens, key, result, since>>

\* group.Do: the first caller runs the function, the others wait for it.
Lead(r) ==
    /\ pc[r] = "do"
    /\ ~InFlight(key[r])
    /\ Goto(r, "get2")
    /\ UNCHANGED <<now, databaseVars, cache, tokens, key, result, since>>

Follow(r) ==
    /\ pc[r] = "do"
    /\ InFlight(key[r])
    /\ Goto(r, "wait")
    /\ UNCHANGED <<now, databaseVars, cache, tokens, key, result, since>>

Allowed(r) ==
    /\ pc[r] = "allow"
    /\ tokens > 0
    /\ tokens' = tokens - 1
    /\ Goto(r, "query")
    /\ UNCHANGED <<now, databaseVars, cache, key, result, since>>

\* The refusal is shared with the waiters and not cached.
RateLimited(r) ==
    /\ pc[r] = "allow"
    /\ tokens = 0
    /\ Goto(r, "finish")
    /\ result' = [result EXCEPT ![r] = "limited"]
    /\ since' = [since EXCEPT ![r] = now]
    /\ UNCHANGED <<now, databaseVars, cache, tokens, key>>

\* The caller of the leader gives up.  (A follower's own context is unused.)
GiveUp(r) ==
    /\ pc[r] = "query"
    /\ Goto(r, "cancelled")
    /\ UNCHANGED <<now, databaseVars, cache, tokens, key, result, since>>

\* The statement reads the tenant's row; no active row is ErrInvalidAPIKey.
DatabaseReads(r) ==
    /\ pc[r] \in {"query", "cancelled"}
    /\ Goto(r, "answered")
    /\ result' = [result EXCEPT ![r] = Answer(key[r] \in active)]
    /\ since' = [since EXCEPT ![r] = now]
    /\ UNCHANGED <<now, databaseVars, cache, tokens, key>>

\* Mutant of LookupFails: any error is cached as a refusal.
BugCacheFailure(r) ==
    /\ pc[r] \in {"query", "cancelled"}
    /\ Goto(r, "finish")
    /\ result' = [result EXCEPT ![r] = "failed"]
    /\ since' = [since EXCEPT ![r] = now]
    /\ cache' = [cache EXCEPT ![key[r]] = [ok |-> FALSE, expires |-> now + NegativeTTL]]
    /\ UNCHANGED <<now, databaseVars, tokens, key>>

\* Mutant of LookupFails: the query ignores the caller's context.
BugQueryOutlivesCaller(r) ==
    /\ pc[r] = "query"
    /\ Goto(r, "finish")
    /\ result' = [result EXCEPT ![r] = "failed"]
    /\ since' = [since EXCEPT ![r] = now]
    /\ UNCHANGED <<now, databaseVars, cache, tokens, key>>

\* The database fails, or the leader's context is done: nothing is cached.
LookupFails(r) ==
    /\ pc[r] \in {"query", "cancelled"}
    /\ Goto(r, "finish")
    /\ result' = [result EXCEPT ![r] = "failed"]
    /\ since' = [since EXCEPT ![r] = now]
    /\ UNCHANGED <<now, databaseVars, cache, tokens, key>>

\* cacheSet, with the clock of its own moment.
LookupReturns(r) ==
    /\ pc[r] = "answered"
    /\ LET ok == result[r] = "tenant"
       IN  cache' = [cache EXCEPT ![key[r]] =
                        [ok |-> ok, expires |-> now + (IF ok THEN TTL ELSE NegativeTTL)]]
    /\ Goto(r, "finish")
    /\ UNCHANGED <<now, databaseVars, tokens, key, result, since>>

\* Do returns in the leader and in every waiter of the key.
FlightEnds(r) ==
    /\ pc[r] = "finish"
    /\ since' = [since EXCEPT ![r] = 0]
    /\ LET done == {r} \cup {w \in Requests : pc[w] = "wait" /\ key[w] = key[r]}
       IN  /\ pc' = [w \in Requests |-> IF w \in done THEN "idle" ELSE pc[w]]
           /\ result' = [w \in Requests |-> IF w \in done THEN result[r] ELSE result[w]]
    /\ UNCHANGED <<now, databaseVars, cache, tokens, key>>

-----------------------------------------------------------------------------
(* The environment: the tenant table, other keys' entries, time.           *)

Flip(k) ==
    /\ active' = IF k \in active THEN active \ {k} ELSE active \cup {k}
    /\ changed' = [changed EXCEPT ![k] = now]
    /\ UNCHANGED <<now, cache, tokens, requestVars>>

\* The cache is full of other keys and this one is the oldest.
Evict(k) ==
    /\ cache[k] # NoEntry
    /\ cache' = [cache EXCEPT ![k] = NoEntry]
    /\ UNCHANGED <<now, databaseVars, tokens, requestVars>>

\* A result that was read reaches the callers within MaxDelay.
Tick ==
    /\ now < MaxTime
    /\ \A r \in Requests : pc[r] \in {"answered", "finish"} => now < since[r] + MaxDelay
    /\ now' = now + 1
    /\ tokens' = IF tokens + Rate > Burst THEN Burst ELSE tokens + Rate
    /\ UNCHANGED <<databaseVars, cache, requestVars>>

Resolve(r) ==
    \/ GetHit(r) \/ GetMiss(r) \/ Remove(r)
    \/ Lead(r) \/ Follow(r)
    \/ Allowed(r) \/ RateLimited(r)
    \/ LookupReturns(r) \/ FlightEnds(r)

Next ==
    \/ \E r \in Requests :
        \/ Resolve(r) \/ GiveUp(r) \/ DatabaseReads(r) \/ LookupFails(r)
        \/ \E k \in Keys : Call(r, k)
    \/ \E k \in Keys : Flip(k) \/ Evict(k)
    \/ Tick

Spec == Init /\ [][Next]_vars

\* Goroutines run; a query whose context is done returns.  The database need
\* not answer.
FairSpec ==
    /\ Spec
    /\ \A r \in Requests :
        /\ WF_vars(Resolve(r))
        /\ WF_vars(pc[r] = "cancelled" /\ LookupFails(r))

-----------------------------------------------------------------------------
(* Properties *)

TypeOK ==
    /\ now \in Nat
    /\ active \subseteq Keys
    /\ changed \in [Keys -> Int]
    /\ cache \in [Keys -> [ok : BOOLEAN, expires : Int]]
    /\ tokens \in Nat
    /\ pc \in [Requests -> Leading \cup {"idle", "get", "remove", "do", "wait"}]
    /\ key \in [Requests -> Keys]
    /\ result \in [Requests -> {"none", "tenant", "invalid", "limited", "failed"}]
    /\ since \in [Requests -> Int]

Answered(r) == pc[r] # "idle" /\ pc'[r] = "idle"

\* A revoked key is accepted for a bounded time: an entry read just before
\* the revocation is added MaxDelay later, lives for TTL, and is handed to a
\* flight that takes another MaxDelay (resolver.go:81, :94, :124).
AcceptsBounded ==
    [][\A r \in Requests : Answered(r) /\ result'[r] = "tenant" =>
            now - LastOn(key[r]) <= TTL + 2 * MaxDelay]_vars

\* A key that was activated is refused as invalid for a bounded time: no
\* failure, rate limit or removal by another call prolongs it.
RefusalsBounded ==
    [][\A r \in Requests : Answered(r) /\ result'[r] = "invalid" =>
            now - LastOff(key[r]) <= NegativeTTL + 2 * MaxDelay]_vars

\* The database is asked, and a token spent, only for a key without a live
\* entry, by one call at a time: the second look inside the flight closes the
\* gap between the first look and group.Do (resolver.go:81).
ColdLookupsOnly ==
    /\ \A r \in Requests :
        pc[r] \in {"allow", "query", "cancelled", "answered"} => ~Fresh(key[r])
    /\ \A r, q \in Requests :
        pc[r] \in Leading /\ pc[q] \in Leading /\ key[r] = key[q] => r = q

\* Why the bounds hold.  An entry is as old as the row it stands for, a
\* leader's result as old as the row or the entry it was read from, and a
\* result is not held back for longer than MaxDelay.
EntryBacked(k) ==
    cache[k] # NoEntry =>
        IF cache[k].ok THEN cache[k].expires <= LastOn(k) + TTL + MaxDelay
                       ELSE cache[k].expires <= LastOff(k) + NegativeTTL + MaxDelay

ResultBacked(r) ==
    /\ pc[r] = "answered" =>
        \/ result[r] = "tenant" /\ since[r] <= LastOn(key[r])
        \/ result[r] = "invalid" /\ since[r] <= LastOff(key[r])
    /\ pc[r] = "finish" =>
        /\ result[r] = "tenant" => since[r] <= LastOn(key[r]) + TTL + MaxDelay
        /\ result[r] = "invalid" => since[r] <= LastOff(key[r]) + NegativeTTL + MaxDelay

Timely(r) ==
    pc[r] \in {"answered", "finish"} => since[r] <= now /\ now <= since[r] + MaxDelay

\* The inductive invariant.
AuthInv ==
    /\ TypeOK
    /\ \A k \in Keys : changed[k] <= now /\ EntryBacked(k)
    /\ \A r \in Requests : ResultBacked(r) /\ Timely(r)
    /\ ColdLookupsOnly

\* When the leader's caller gives up, everyone who waits for its lookup is
\* answered, whether or not the database ever is (resolver.go:87).
WaitersReturn ==
    \A q \in Requests :
        (pc[q] = "wait" /\ \E r \in Requests : pc[r] = "cancelled" /\ key[r] = key[q])
            ~> pc[q] = "idle"

=============================================================================
