------------------------- MODULE AuthenticatorProofs -------------------------
(***************************************************************************)
(* Proofs about Authenticator for any requests, keys, times and limits.    *)
(***************************************************************************)
EXTENDS Authenticator, TLAPS

\* The absent entry is an entry that refuses.
LEMMA NoEntryType == NoEntry \in [ok : BOOLEAN, expires : Int] /\ ~NoEntry.ok
<1>1. FALSE \in BOOLEAN
  BY Zenon
<1> QED BY <1>1 DEF NoEntry

\* A new authenticator: an empty cache, a full bucket, no caller.
LEMMA InitAuthInv == Init => AuthInv
<1> SUFFICES ASSUME Init PROVE AuthInv
  OBVIOUS
<1>1. TypeOK
  <2>1. cache \in [Keys -> [ok : BOOLEAN, expires : Int]]
    BY NoEntryType DEF Init
  <2>2. Never \in Int
    BY TimesAssumption DEF Never
  <2> QED BY <2>1, <2>2, RateAssumption DEF Init, TypeOK
<1>2. \A k \in Keys : changed[k] <= now /\ EntryBacked(k)
  BY TimesAssumption DEF Init, EntryBacked, Never
<1>3. \A r \in Requests : ResultBacked(r) /\ Timely(r)
  BY DEF Init, ResultBacked, Timely
<1>4. ColdLookupsOnly
  BY DEF Init, ColdLookupsOnly, Leading
<1> QED BY <1>1, <1>2, <1>3, <1>4 DEF AuthInv

\* A step of one request leaves the clock and the table alone, and the other
\* requests where they are.
Moves(r) ==
    /\ UNCHANGED <<now, databaseVars>>
    /\ \A q \in Requests \ {r} :
        pc'[q] = pc[q] /\ key'[q] = key[q] /\ result'[q] = result[q] /\ since'[q] = since[q]

\* A step that only moves a request along, without a result read.
LEMMA WalkAuthInv ==
  ASSUME AuthInv, NEW r \in Requests,
         \/ GetMiss(r) \/ Remove(r) \/ Lead(r) \/ Follow(r) \/ Allowed(r) \/ GiveUp(r)
         \/ \E k \in Keys : Call(r, k)
  PROVE  AuthInv'
<1> USE DEF AuthInv
<1>1. TypeOK'
  <2>1. CASE GetMiss(r)
    BY <2>1 DEF TypeOK, GetMiss, Goto, Leading, databaseVars
  <2>2. CASE Remove(r)
    BY <2>2, NoEntryType DEF TypeOK, Remove, Goto, Leading, databaseVars
  <2>3. CASE Lead(r) \/ Follow(r) \/ GiveUp(r)
    BY <2>3 DEF TypeOK, Lead, Follow, GiveUp, Goto, Leading, databaseVars
  <2>4. CASE Allowed(r)
    BY <2>4 DEF TypeOK, Allowed, Goto, Leading, databaseVars
  <2>5. CASE \E k \in Keys : Call(r, k)
    BY <2>5 DEF TypeOK, Call, Goto, Leading, databaseVars
  <2> QED BY <2>1, <2>2, <2>3, <2>4, <2>5
<1>2. /\ Moves(r)
      /\ pc'[r] \notin {"answered", "finish"}
      /\ \A k \in Keys : cache'[k] = cache[k] \/ cache'[k] = NoEntry
  BY DEF TypeOK, Moves, GetMiss, Remove, Lead, Follow, Allowed, GiveUp, Call, Goto, databaseVars
<1>3. \A k \in Keys : changed'[k] <= now' /\ EntryBacked(k)'
  BY <1>2 DEF Moves, databaseVars, EntryBacked, LastOn, LastOff
<1>4. \A q \in Requests : ResultBacked(q)' /\ Timely(q)'
  BY <1>2 DEF Moves, databaseVars, ResultBacked, Timely, LastOn, LastOff
<1>5. ColdLookupsOnly'
  <2>1. \A k \in Keys : ~Fresh(k) => ~Fresh(k)'
    BY <1>2 DEF Fresh, Moves
  <2>2. \A q \in Requests \ {r} : key'[q] = key[q] /\ key'[q] \in Keys
    BY <1>2 DEF TypeOK, Moves
  <2>3. pc'[r] \in {"allow", "query", "cancelled"} => key'[r] = key[r] /\ ~Fresh(key[r])'
    <3>1. CASE GetMiss(r)
      BY <3>1, <2>1 DEF TypeOK, GetMiss, Goto, Fresh, Hit
    <3>2. CASE Remove(r)
      BY <3>2 DEF TypeOK, Remove, Goto, Fresh
    <3>3. CASE Lead(r) \/ Follow(r)
      BY <3>3 DEF TypeOK, Lead, Follow, Goto
    <3>4. CASE Allowed(r) \/ GiveUp(r)
      BY <3>4, <2>1 DEF TypeOK, Allowed, GiveUp, Goto, ColdLookupsOnly
    <3>5. CASE \E k \in Keys : Call(r, k)
      BY <3>5 DEF TypeOK, Call, Goto
    <3> QED BY <3>1, <3>2, <3>3, <3>4, <3>5
  <2>4. \A q \in Requests :
          pc'[q] \in {"allow", "query", "cancelled", "answered"} => ~Fresh(key[q])'
    BY <1>2, <2>1, <2>2, <2>3 DEF ColdLookupsOnly, Moves, TypeOK
  <2>5. pc'[r] \in Leading =>
          /\ key'[r] = key[r]
          /\ pc[r] \in Leading \/ ~InFlight(key[r])
    <3>1. CASE GetMiss(r) \/ Remove(r) \/ Allowed(r) \/ GiveUp(r)
      BY <3>1 DEF TypeOK, GetMiss, Remove, Allowed, GiveUp, Goto, Leading
    <3>2. CASE Lead(r) \/ Follow(r)
      BY <3>2 DEF TypeOK, Lead, Follow, Goto, Leading
    <3>3. CASE \E k \in Keys : Call(r, k)
      BY <3>3 DEF TypeOK, Call, Goto, Leading
    <3> QED BY <3>1, <3>2, <3>3
  <2>6. \A p, q \in Requests :
          pc'[p] \in Leading /\ pc'[q] \in Leading /\ key'[p] = key'[q] => p = q
    BY <1>2, <2>5 DEF ColdLookupsOnly, Moves, InFlight
  <2> QED BY <2>4, <2>6 DEF ColdLookupsOnly
<1> QED BY <1>1, <1>3, <1>4, <1>5

\* A step that determines the leader's result: from the table, from an entry,
\* or a refusal; or that answers a call from an entry.
LEMMA ResultAuthInv ==
  ASSUME AuthInv, NEW r \in Requests,
         GetHit(r) \/ RateLimited(r) \/ DatabaseReads(r) \/ LookupFails(r)
  PROVE  AuthInv'
<1> USE DEF AuthInv
<1>0. now <= now + MaxDelay /\ now \in Nat
  BY TimesAssumption DEF TypeOK
<1>1. TypeOK'
  <2>1. CASE GetHit(r)
    BY <2>1 DEF TypeOK, GetHit, Goto, Leading, databaseVars, Answer
  <2>2. CASE RateLimited(r)
    BY <2>2 DEF TypeOK, RateLimited, Goto, Leading, databaseVars
  <2>3. CASE LookupFails(r)
    BY <2>3 DEF TypeOK, LookupFails, Goto, Leading, databaseVars
  <2>4. CASE DatabaseReads(r)
    BY <2>4 DEF TypeOK, DatabaseReads, Goto, Leading, databaseVars, Answer
  <2> QED BY <2>1, <2>2, <2>3, <2>4
<1>2. /\ Moves(r) /\ cache' = cache /\ key' = key
      /\ pc'[r] \in {"idle", "answered", "finish"}
      /\ pc'[r] \in Leading => pc[r] \in Leading
      /\ pc'[r] # "idle" => since'[r] = now
      /\ pc'[r] = "answered" => DatabaseReads(r)
  BY DEF TypeOK, Moves, GetHit, RateLimited, DatabaseReads, LookupFails, Goto, databaseVars, Leading
<1>3. \A k \in Keys : changed'[k] <= now' /\ EntryBacked(k)'
  BY <1>2 DEF Moves, databaseVars, EntryBacked, LastOn, LastOff
<1>4. \A q \in Requests : ResultBacked(q)' /\ Timely(q)'
  <2>1. \A q \in Requests \ {r} : ResultBacked(q)' /\ Timely(q)'
    BY <1>2 DEF Moves, databaseVars, ResultBacked, Timely, LastOn, LastOff
  <2>2. Timely(r)'
    BY <1>0, <1>2 DEF Moves, Timely
  <2>3. ResultBacked(r)'
    <3>1. CASE GetHit(r)
      <4> DEFINE k == key[r]
      <4>1. /\ k \in Keys /\ now \in Nat /\ now <= cache[k].expires /\ EntryBacked(k) /\ cache[k] # NoEntry
            /\ cache[k].expires \in Int /\ LastOn(k) \in Int /\ LastOff(k) \in Int
            /\ LastOn(k)' = LastOn(k) /\ LastOff(k)' = LastOff(k)
            /\ result'[r] = (IF cache[k].ok THEN "tenant" ELSE "invalid")
            /\ pc'[r] = "idle" \/ (pc'[r] = "finish" /\ since'[r] = now)
        BY <3>1, <1>2 DEF TypeOK, GetHit, Goto, Hit, Fresh, Answer, LastOn, LastOff, databaseVars
      <4>2. CASE cache[k].ok
        BY <4>1, <4>2, <1>2, TimesAssumption DEF EntryBacked, ResultBacked
      <4>3. CASE ~cache[k].ok
        BY <4>1, <4>3, <1>2, TimesAssumption DEF EntryBacked, ResultBacked
      <4> QED BY <4>2, <4>3
    <3>2. CASE RateLimited(r) \/ LookupFails(r)
      BY <3>2 DEF TypeOK, RateLimited, LookupFails, Goto, ResultBacked
    <3>3. CASE DatabaseReads(r)
      BY <3>3, <1>0 DEF TypeOK, DatabaseReads, Goto, Answer, ResultBacked, LastOn, LastOff, databaseVars
    <3> QED BY <3>1, <3>2, <3>3
  <2> QED BY <2>1, <2>2, <2>3
<1>5. ColdLookupsOnly'
  <2>1. \A k \in Keys : Fresh(k)' = Fresh(k)
    BY <1>2 DEF Fresh, Moves
  <2>2. pc'[r] = "answered" => pc[r] \in {"query", "cancelled"}
    BY <1>2 DEF DatabaseReads
  <2> QED BY <1>2, <2>1, <2>2 DEF ColdLookupsOnly, Moves, TypeOK
<1> QED BY <1>1, <1>3, <1>4, <1>5

\* The entry is added within MaxDelay of the read it stands for.
LEMMA ReturnAuthInv == ASSUME AuthInv, NEW r \in Requests, LookupReturns(r) PROVE AuthInv'
<1> USE DEF AuthInv
<1>k. PICK k \in Keys : k = key[r]
  BY DEF TypeOK
<1> DEFINE e == [ok |-> result[r] = "tenant",
                 expires |-> now + (IF result[r] = "tenant" THEN TTL ELSE NegativeTTL)]
<1>1. /\ pc[r] = "answered" /\ pc' = [pc EXCEPT ![r] = "finish"] /\ k \in Keys
      /\ cache' = [cache EXCEPT ![k] = e]
      /\ UNCHANGED <<now, databaseVars, tokens, key, result, since>>
  BY <1>k DEF LookupReturns, Goto, TypeOK
<1>2. e \in [ok : BOOLEAN, expires : Int]
  <2>1. (result[r] = "tenant") \in BOOLEAN
    BY Zenon
  <2> QED BY <2>1, TimesAssumption DEF TypeOK
<1>3. EntryBacked(k)'
  <2>1. /\ since[r] \in Int /\ now \in Nat /\ now <= since[r] + MaxDelay
        /\ LastOn(k)' = LastOn(k) /\ LastOff(k)' = LastOff(k)
        /\ LastOn(k) \in Int /\ LastOff(k) \in Int /\ cache'[k] = e
    BY <1>1 DEF TypeOK, Timely, LastOn, LastOff, databaseVars
  <2>2. CASE result[r] = "tenant"
    <3>1. since[r] <= LastOn(k) /\ e.ok /\ e.expires = now + TTL
      BY <1>k, <1>1, <2>2 DEF ResultBacked
    <3>2. cache'[k].ok /\ cache'[k].expires = now + TTL
      <4> HIDE DEF e
      <4> QED BY <2>1, <3>1
    <3>3. cache'[k].expires <= LastOn(k) + TTL + MaxDelay
      <4> HIDE DEF e
      <4> QED BY <2>1, <3>1, <3>2, TimesAssumption
    <3> HIDE DEF e
    <3> QED BY <2>1, <3>2, <3>3 DEF EntryBacked
  <2>3. CASE result[r] # "tenant"
    <3>1. since[r] <= LastOff(k) /\ ~e.ok /\ e.expires = now + NegativeTTL
      BY <1>k, <1>1, <2>3 DEF ResultBacked
    <3>2. ~cache'[k].ok /\ cache'[k].expires = now + NegativeTTL
      <4> HIDE DEF e
      <4> QED BY <2>1, <3>1
    <3>3. cache'[k].expires <= LastOff(k) + NegativeTTL + MaxDelay
      <4> HIDE DEF e
      <4> QED BY <2>1, <3>1, <3>2, TimesAssumption
    <3> HIDE DEF e
    <3> QED BY <2>1, <3>2, <3>3 DEF EntryBacked
  <2> QED BY <2>2, <2>3
<1> HIDE DEF e
<1>4. TypeOK'
  BY <1>1, <1>2 DEF TypeOK, Leading, databaseVars
<1>5. \A j \in Keys : changed'[j] <= now' /\ EntryBacked(j)'
  BY <1>1, <1>3 DEF TypeOK, EntryBacked, LastOn, LastOff, databaseVars
<1>6. \A q \in Requests : ResultBacked(q)' /\ Timely(q)'
  BY <1>1, TimesAssumption DEF TypeOK, ResultBacked, Timely, LastOn, LastOff, databaseVars
<1>7. ColdLookupsOnly'
  <2>1. \A q \in Requests :
          pc'[q] \in {"allow", "query", "cancelled", "answered"} => q # r /\ pc'[q] = pc[q] /\ key[q] # k
    BY <1>k, <1>1 DEF ColdLookupsOnly, TypeOK, Leading
  <2>2. \A q \in Requests : key[q] # k => Fresh(key[q])' = Fresh(key[q])
    BY <1>1 DEF Fresh, TypeOK
  <2> QED BY <1>1, <2>1, <2>2 DEF ColdLookupsOnly, TypeOK, Leading
<1> QED BY <1>4, <1>5, <1>6, <1>7

\* The end of a flight hands its result to the leader and all who wait.
LEMMA EndAuthInv == ASSUME AuthInv, NEW r \in Requests, FlightEnds(r) PROVE AuthInv'
<1> USE DEF AuthInv
<1>1. /\ UNCHANGED <<now, databaseVars, cache, tokens, key>>
      /\ pc' \in [Requests -> Leading \cup {"idle", "get", "remove", "do", "wait"}]
      /\ result' \in [Requests -> {"none", "tenant", "invalid", "limited", "failed"}]
      /\ since' = [since EXCEPT ![r] = 0]
      /\ pc'[r] = "idle"
      /\ \A q \in Requests : \/ pc'[q] = "idle"
                             \/ pc'[q] = pc[q] /\ result'[q] = result[q]
  BY DEF FlightEnds, TypeOK
<1>2. TypeOK'
  BY <1>1 DEF TypeOK, databaseVars
<1>3. \A k \in Keys : changed'[k] <= now' /\ EntryBacked(k)' /\ (Fresh(k)' = Fresh(k))
  BY <1>1 DEF EntryBacked, LastOn, LastOff, databaseVars, Fresh
<1>4. \A q \in Requests : ResultBacked(q)' /\ Timely(q)'
  BY <1>1 DEF TypeOK, ResultBacked, Timely, LastOn, LastOff, databaseVars
<1>5. ColdLookupsOnly'
  BY <1>1, <1>3, SMTT(30) DEF TypeOK, ColdLookupsOnly, Leading
<1> QED BY <1>2, <1>3, <1>4, <1>5

\* The environment: what was true of a key at some time stays so.
LEMMA EnvironmentAuthInv ==
  ASSUME AuthInv, Tick \/ \E k \in Keys : Flip(k) \/ Evict(k)
  PROVE  AuthInv'
<1> USE DEF AuthInv
<1>1. TypeOK'
  <2>1. CASE Tick
    BY <2>1, RateAssumption DEF TypeOK, Tick, databaseVars, requestVars
  <2>2. CASE \E k \in Keys : Flip(k)
    BY <2>2 DEF TypeOK, Flip, requestVars
  <2>3. CASE \E k \in Keys : Evict(k)
    BY <2>3, NoEntryType DEF TypeOK, Evict, databaseVars, requestVars
  <2> QED BY <2>1, <2>2, <2>3
<1>2. /\ now <= now' /\ UNCHANGED requestVars
      /\ \A k \in Keys : /\ changed'[k] <= now'
                         /\ LastOn(k) <= LastOn(k)' /\ LastOff(k) <= LastOff(k)'
                         /\ cache'[k] = cache[k] \/ cache'[k] = NoEntry
                         /\ LastOn(k) \in Int /\ LastOn(k)' \in Int
                         /\ LastOff(k) \in Int /\ LastOff(k)' \in Int
  <2>1. CASE Tick
    BY <2>1, <1>1 DEF TypeOK, Tick, databaseVars, LastOn, LastOff
  <2>2. CASE \E k \in Keys : Flip(k)
    BY <2>2, <1>1 DEF TypeOK, Flip, LastOn, LastOff
  <2>3. CASE \E k \in Keys : Evict(k)
    BY <2>3, <1>1 DEF TypeOK, Evict, databaseVars, LastOn, LastOff
  <2> QED BY <2>1, <2>2, <2>3
<1>3. \A k \in Keys : changed'[k] <= now' /\ EntryBacked(k)'
  <2> SUFFICES ASSUME NEW k \in Keys PROVE EntryBacked(k)'
    BY <1>2
  <2>1. CASE cache'[k] = NoEntry
    BY <2>1 DEF EntryBacked
  <2>2. CASE cache'[k] = cache[k]
    <3> HIDE DEF AuthInv
    <3>1. EntryBacked(k) /\ cache[k].expires \in Int
      BY DEF AuthInv, TypeOK
    <3> QED BY <3>1, <2>2, <1>2, TimesAssumption DEF EntryBacked
  <2> QED BY <2>1, <2>2, <1>2
<1>4. \A q \in Requests : ResultBacked(q)'
  BY <1>2, TimesAssumption DEF TypeOK, ResultBacked, requestVars
<1>5. \A q \in Requests : Timely(q)'
  <2>1. CASE Tick
    BY <2>1, TimesAssumption DEF TypeOK, Tick, Timely, requestVars
  <2>2. CASE \E k \in Keys : Flip(k) \/ Evict(k)
    BY <2>2, <1>2 DEF Flip, Evict, Timely, requestVars
  <2> QED BY <2>1, <2>2
<1>6. ColdLookupsOnly'
  <2>1. ASSUME NEW k \in Keys, Fresh(k)' PROVE Fresh(k)
    <3>1. now \in Nat /\ now' \in Nat /\ now <= now' /\ cache[k].expires \in Int
      BY <1>1, <1>2 DEF TypeOK
    <3>2. cache'[k] # NoEntry /\ now' <= cache'[k].expires
      BY <2>1 DEF Fresh
    <3>3. cache'[k] = cache[k]
      BY <1>2, <3>2
    <3> QED BY <3>1, <3>2, <3>3 DEF Fresh
  <2> QED BY <1>2, <2>1 DEF ColdLookupsOnly, requestVars, TypeOK
<1> QED BY <1>1, <1>2, <1>3, <1>4, <1>5, <1>6

\* Every step of callers, tenant table, cache and clock keeps the invariant.
LEMMA StepAuthInv == AuthInv /\ [Next]_vars => AuthInv'
<1> SUFFICES ASSUME AuthInv, [Next]_vars PROVE AuthInv'
  OBVIOUS
<1>1. CASE Next
  <2>1. CASE Tick \/ \E k \in Keys : Flip(k) \/ Evict(k)
    BY <2>1, EnvironmentAuthInv
  <2>2. ASSUME NEW r \in Requests,
               \/ Resolve(r) \/ GiveUp(r) \/ DatabaseReads(r) \/ LookupFails(r)
               \/ \E k \in Keys : Call(r, k)
        PROVE AuthInv'
    BY <2>2, WalkAuthInv, ResultAuthInv, ReturnAuthInv, EndAuthInv DEF Resolve
  <2> QED BY <1>1, <2>1, <2>2 DEF Next
<1>2. CASE UNCHANGED vars
  BY <1>2 DEF vars, requestVars, databaseVars, AuthInv, TypeOK, EntryBacked, ResultBacked, Timely,
              ColdLookupsOnly, Fresh, LastOn, LastOff
<1> QED BY <1>1, <1>2

\* The cache, the flights and the results under way are backed by the table,
\* and the database is asked for cold keys by one call at a time.
THEOREM Inductive == Spec => []AuthInv
<1>1. Init => AuthInv
  BY InitAuthInv
<1>2. AuthInv /\ [Next]_vars => AuthInv'
  BY StepAuthInv
<1> QED BY <1>1, <1>2, PTL DEF Spec

\* Type correctness of cache, limiter and callers (ResolveTenantID).
THEOREM TypeCorrect == Spec => []TypeOK
<1>1. AuthInv => TypeOK
  BY DEF AuthInv
<1> QED BY <1>1, Inductive, PTL

\* No lookup for a key with a live entry, and never two for one key.
THEOREM OneColdLookup == Spec => []ColdLookupsOnly
<1>1. AuthInv => ColdLookupsOnly
  BY DEF AuthInv
<1> QED BY <1>1, Inductive, PTL

\* What a step answers is what the entry or the leader's result said.
LEMMA AnswerBacked ==
  ASSUME AuthInv, Next, NEW r \in Requests, Answered(r)
  PROVE  /\ result'[r] = "tenant" => now - LastOn(key[r]) <= TTL + 2 * MaxDelay
         /\ result'[r] = "invalid" => now - LastOff(key[r]) <= NegativeTTL + 2 * MaxDelay
<1> USE DEF AuthInv
<1>0. now \in Nat /\ key[r] \in Keys /\ LastOn(key[r]) \in Int /\ LastOff(key[r]) \in Int
  BY DEF TypeOK, LastOn, LastOff
<1>1. (\E q \in Requests : FlightEnds(q)) \/ GetHit(r)
  <2>1. ASSUME NEW q \in Requests,
               \/ GetMiss(q) \/ Remove(q) \/ Lead(q) \/ Follow(q) \/ Allowed(q) \/ RateLimited(q)
               \/ GiveUp(q) \/ DatabaseReads(q) \/ LookupFails(q) \/ LookupReturns(q)
               \/ (GetHit(q) /\ q # r)
               \/ \E k \in Keys : Call(q, k)
        PROVE FALSE
    BY <2>1 DEF Answered, TypeOK, GetMiss, Remove, Lead, Follow, Allowed, RateLimited, GiveUp,
                DatabaseReads, LookupFails, LookupReturns, GetHit, Call, Goto
  <2>2. ~(Tick \/ \E k \in Keys : Flip(k) \/ Evict(k))
    BY DEF Answered, Tick, Flip, Evict, requestVars
  <2> QED BY <2>1, <2>2 DEF Next, Resolve
<1>2. CASE GetHit(r)
  BY <1>0, <1>2, TimesAssumption DEF GetHit, Hit, Fresh, EntryBacked, Answer, TypeOK
<1>3. CASE \E q \in Requests : FlightEnds(q)
  <2>1. PICK q \in Requests : FlightEnds(q)
    BY <1>3
  <2>2. pc[q] = "finish" /\ key[r] = key[q] /\ result'[r] = result[q]
    BY <2>1 DEF FlightEnds, Answered, TypeOK
  <2> QED BY <1>0, <2>2, TimesAssumption DEF ResultBacked, Timely, TypeOK
<1> QED BY <1>1, <1>2, <1>3

\* A revoked key is accepted for at most TTL and two delays.
THEOREM RevocationBound == Spec => AcceptsBounded
<1>1. AuthInv /\ [Next]_vars =>
        [\A r \in Requests : Answered(r) /\ result'[r] = "tenant" =>
            now - LastOn(key[r]) <= TTL + 2 * MaxDelay]_vars
  BY AnswerBacked
<1> QED BY <1>1, Inductive, PTL DEF Spec, AcceptsBounded

\* An activated key is refused for at most NegativeTTL and two delays.
THEOREM ActivationBound == Spec => RefusalsBounded
<1>1. AuthInv /\ [Next]_vars =>
        [\A r \in Requests : Answered(r) /\ result'[r] = "invalid" =>
            now - LastOff(key[r]) <= NegativeTTL + 2 * MaxDelay]_vars
  BY AnswerBacked
<1> QED BY <1>1, Inductive, PTL DEF Spec, RefusalsBounded

=============================================================================
