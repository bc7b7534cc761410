-------------------------- MODULE JWKSCacheProofs ---------------------------
(***************************************************************************)
(* Proofs about JWKSCache for any number of calls, keys, fetches and       *)
(* rotations and any lifetime, timeout and leeway: the inductive invariant *)
(* IInv and the safety properties that follow from it.                     *)
(***************************************************************************)
EXTENDS JWKSCache, TLAPS

\* How old the knowledge of a set may be: since the given time, every kid in it
\* has been listed, and every kid missing from it has not, at least once.
KnownAt(set, at) ==
  /\ \A k \in set : LastListed(k, now) >= at
  /\ \A k \in listed \ set : listedSince[k] >= at

\* Nothing has happened later than now, an exchange lasts no longer than its
\* timeout, and a call that has stored a set looks for its key at once.
CallTimes(c) ==
  /\ cameAt[c] <= now /\ endedAt[c] <= now
  /\ pc[c] \in {"look", "get", "store"} => now <= cameAt[c] + Timeout
  /\ pc[c] = "look" => now = cameAt[c]
  /\ pc[c] = "again" => now = fetchedAt

\* A key out of the cache was listed not long ago, and one that is missing was
\* not listed before the call, up to the tick at which the call ends; a served
\* set is no older than its call.
CallKeys(c) ==
  /\ pc[c] # "idle" => token[c] \in Tokens
  /\ pc[c] = "store" => KnownAt(got[c], cameAt[c])
  /\ /\ pc[c] = "check" \/ (pc[c] = "accepted" /\ endedAt[c] = now)
     /\ how[c] # "fallback"
     => now - LastListed(token[c].kid, now) < TTL + Timeout
  /\ pc[c] = "unknownKid" /\ endedAt[c] = now /\ token[c].kid \in listed =>
       listedSince[token[c].kid] + Timeout >= cameAt[c]

\* What a call accepts is valid.
CallEnd(c) ==
  pc[c] = "accepted" =>
    /\ token[c].flaw = "none"
    /\ token[c].exp # 0 => endedAt[c] <= token[c].exp + Leeway
    /\ token[c].nbf # 0 => endedAt[c] + Leeway >= token[c].nbf

\* What a call learns at its first look is what the set stored last knew, and
\* holds on while the call fetches and when it falls back on it.
CallOutage(c) ==
  /\ basis[c] <= now
  /\ \/ pc[c] \in {"get", "store"} /\ had[c]
     \/ pc[c] \in {"check", "accepted"} /\ how[c] = "fallback"
     => LastListed(token[c].kid, now) + Timeout >= basis[c]
  /\ /\ pc[c] = "noKeys" \/ (pc[c] \in {"get", "store"} /\ ~had[c])
     /\ token[c].kid \in listed
     => listedSince[token[c].kid] + Timeout >= basis[c]

CallState(c) == CallTimes(c) /\ CallKeys(c) /\ CallEnd(c) /\ CallOutage(c)

\* The cached set is no older than an exchange was when it was stored, whichever
\* call stored it.
CacheState ==
  /\ fetchedAt <= now
  /\ KnownAt(keys, fetchedAt - Timeout)

IInv == /\ TypeOK
        /\ CacheState
        /\ \A c \in Calls : CallState(c)

-----------------------------------------------------------------------------
LEMMA InitIInv == Init => IInv
<1> SUFFICES ASSUME Init PROVE IInv
  OBVIOUS
<1> USE TimesAssumption DEF Init
<1>1. TypeOK
  <2>1. now \in Times /\ 0 \in Times
    BY DEF Times
  <2>2. FirstListed \in SUBSET Kids /\ 0 \in 0..MaxRotations
    BY KidsAssumption
  <2> QED
    BY <2>1, <2>2 DEF TypeOK, Places, Sources
<1>2. CacheState
  <2>1. fetchedAt <= now
    OBVIOUS
  <2>2. \A k \in listed \ keys : listedSince[k] >= fetchedAt - Timeout
    BY KidsAssumption
  <2> QED
    BY <2>1, <2>2 DEF CacheState, KnownAt
<1>3. ASSUME NEW c \in Calls
      PROVE  CallState(c)
  BY DEF CallState, CallTimes, CallKeys, CallEnd, CallOutage
<1> QED
  BY <1>1, <1>2, <1>3 DEF IInv

-----------------------------------------------------------------------------
(* The steps of a call *)

CallStep(c) == (\E t \in Tokens : Arrive(c, t)) \/ Step(c)

\* A step of one call neither touches another nor the IDP and takes no time.
LEMMA OneCallMoves ==
  ASSUME TypeOK, NEW c \in Calls, CallStep(c)
  PROVE  /\ TypeOK'
         /\ \A d \in Calls \ {c} :
              /\ pc'[d] = pc[d] /\ token'[d] = token[d]
              /\ had'[d] = had[d] /\ basis'[d] = basis[d]
              /\ got'[d] = got[d] /\ how'[d] = how[d]
              /\ cameAt'[d] = cameAt[d] /\ endedAt'[d] = endedAt[d]
         /\ UNCHANGED << now, listed, lastListed, listedSince >>
<1> USE DEF TypeOK, cache, idp, request, first, fetch, Go, End, UseKey, Places,
            Sources
<1>1. CASE \E t \in Tokens : Arrive(c, t)
  BY <1>1 DEF Arrive
<1>2. CASE Look(c)
  <2>1. /\ pc' = [pc EXCEPT ![c] = "check"] \/ pc' = [pc EXCEPT ![c] = "get"]
        /\ how' = [how EXCEPT ![c] = "hit"] \/ how' = how
        /\ had' = had \/ had' = [had EXCEPT ![c] = token[c].kid \in keys]
        /\ basis' = basis \/ basis' = [basis EXCEPT ![c] = fetchedAt]
        /\ UNCHANGED << now, got, endedAt, cache, idp, request >>
    BY <1>2 DEF Look
  <2>2. (token[c].kid \in keys) \in BOOLEAN
    OBVIOUS
  <2>3. had' \in [Calls -> BOOLEAN] /\ \A d \in Calls \ {c} : had'[d] = had[d]
    BY <2>1, <2>2
  <2>4. basis' \in [Calls -> Times] /\ \A d \in Calls \ {c} : basis'[d] = basis[d]
    BY <2>1
  <2> QED
    BY <2>1, <2>3, <2>4
<1>3. CASE Serve(c)
  BY <1>3 DEF Serve
<1>4. CASE FetchFails(c)
  BY <1>4 DEF FetchFails
<1>5. CASE Store(c)
  BY <1>5 DEF Store
<1>6. CASE LookAgain(c)
  BY <1>6 DEF LookAgain
<1>7. CASE CheckToken(c)
  BY <1>7 DEF CheckToken
<1> QED
  BY <1>1, <1>2, <1>3, <1>4, <1>5, <1>6, <1>7 DEF CallStep, Step

\* What a step of one call leaves to show: the call itself, and the cached set
\* if the step stores one.
LEMMA OneCallSuffices ==
  ASSUME IInv, NEW c \in Calls, CallStep(c),
         \/ UNCHANGED cache
         \/ fetchedAt' = now /\ CacheState',
         CallTimes(c)', CallKeys(c)', CallEnd(c)', CallOutage(c)'
  PROVE  IInv'
<1>1. /\ TypeOK'
      /\ UNCHANGED << now, listed, lastListed, listedSince >>
  BY OneCallMoves DEF IInv
<1>2. CacheState'
  BY <1>1 DEF IInv, CacheState, KnownAt, LastListed, cache
<1>3. ASSUME NEW d \in Calls \ {c}
      PROVE  CallState(d)'
  <2>1. /\ pc'[d] = pc[d] /\ token'[d] = token[d]
        /\ had'[d] = had[d] /\ basis'[d] = basis[d]
        /\ got'[d] = got[d] /\ how'[d] = how[d]
        /\ cameAt'[d] = cameAt[d] /\ endedAt'[d] = endedAt[d]
    BY OneCallMoves DEF IInv
  <2>2. CallTimes(d) /\ CallKeys(d) /\ CallEnd(d) /\ CallOutage(d)
    BY DEF IInv, CallState
  <2>3. CallTimes(d)'
    BY <1>1, <2>1, <2>2 DEF CallTimes, cache
  <2>4. CallKeys(d)'
    BY <1>1, <2>1, <2>2 DEF CallKeys, KnownAt, LastListed
  <2>5. CallEnd(d)'
    BY <1>1, <2>1, <2>2 DEF CallEnd
  <2>6. CallOutage(d)'
    BY <1>1, <2>1, <2>2 DEF CallOutage, LastListed
  <2> QED
    BY <2>3, <2>4, <2>5, <2>6 DEF CallState
<1> QED
  BY <1>1, <1>2, <1>3 DEF IInv, CallState

LEMMA ArrivePreserves ==
  ASSUME IInv, NEW c \in Calls, NEW t \in Tokens, Arrive(c, t)
  PROVE  IInv'
<1>1. /\ pc'[c] \in {"look", "invalid"} /\ token'[c] = t /\ cameAt'[c] = now
      /\ endedAt'[c] = now \/ endedAt'[c] = endedAt[c]
      /\ now' = now /\ now \in Int /\ UNCHANGED << basis, cache >>
  BY TimesAssumption DEF IInv, TypeOK, Times, Arrive, Go, End, fetch, first
<1>2. CallTimes(c)'
  BY <1>1, TimesAssumption DEF IInv, CallState, CallTimes
<1>3. CallKeys(c)' /\ CallEnd(c)'
  BY <1>1 DEF CallKeys, CallEnd
<1>4. CallOutage(c)'
  BY <1>1 DEF IInv, CallState, CallOutage
<1> QED
  BY <1>1, <1>2, <1>3, <1>4, OneCallSuffices DEF CallStep

\* A fresh set is known since no earlier than its lifetime and a timeout ago.
LEMMA LookPreserves ==
  ASSUME IInv, NEW c \in Calls, Look(c)
  PROVE  IInv'
<1>1. /\ pc[c] = "look" /\ pc'[c] \in {"check", "get"} /\ token[c] \in Tokens
      /\ pc'[c] = "check" => /\ token[c].kid \in keys /\ now - fetchedAt < TTL
                             /\ how'[c] = "hit" /\ basis' = basis
      /\ pc'[c] = "get" => /\ had'[c] = (token[c].kid \in keys)
                           /\ basis'[c] = fetchedAt
      /\ UNCHANGED << now, token, cameAt, endedAt, listed, lastListed, listedSince,
                      cache >>
  BY DEF IInv, TypeOK, CallState, CallKeys, Look, UseKey, Go, Fresh, cache, idp,
         request, fetch, first
<1>2. CallTimes(c)'
  BY <1>1 DEF IInv, CallState, CallTimes
<1>3. CallKeys(c)'
  <2>1. ASSUME pc'[c] = "check"
        PROVE  now - LastListed(token[c].kid, now) < TTL + Timeout
    <3>1. LastListed(token[c].kid, now) >= fetchedAt - Timeout
      BY <1>1, <2>1 DEF IInv, CacheState, KnownAt
    <3>2. LastListed(token[c].kid, now) \in Int /\ now \in Int /\ fetchedAt \in Int
      BY <1>1, TimesAssumption DEF IInv, TypeOK, LastListed, Times, Tokens
    <3> QED
      BY <1>1, <2>1, <3>1, <3>2, TimesAssumption
  <2> QED
    BY <1>1, <2>1 DEF CallKeys, LastListed
<1>4. CallEnd(c)'
  BY <1>1 DEF CallEnd
<1>5. CallOutage(c)'
  <2>1. /\ token[c].kid \in Kids /\ KnownAt(keys, fetchedAt - Timeout)
        /\ fetchedAt \in Int /\ fetchedAt <= now /\ Timeout \in Int
        /\ LastListed(token[c].kid, now) \in Int /\ listedSince[token[c].kid] \in Int
        /\ basis[c] <= now
    BY <1>1, TimesAssumption
       DEF IInv, TypeOK, CacheState, CallState, CallOutage, LastListed, Times, Tokens
  <2>2. /\ token[c].kid \in keys =>
             LastListed(token[c].kid, now) + Timeout >= fetchedAt
        /\ token[c].kid \in listed \ keys =>
             listedSince[token[c].kid] + Timeout >= fetchedAt
    BY <2>1 DEF KnownAt
  <2> QED
    BY <1>1, <2>1, <2>2 DEF CallOutage, LastListed
<1> QED
  BY <1>1, <1>2, <1>3, <1>4, <1>5, OneCallSuffices DEF CallStep, Step

\* The set served is the one listed, and the call has come before.
LEMMA ServePreserves ==
  ASSUME IInv, NEW c \in Calls, Serve(c)
  PROVE  IInv'
<1>1. /\ pc[c] = "get" /\ pc'[c] = "store" /\ got'[c] = listed
      /\ token[c] \in Tokens /\ cameAt[c] <= now
      /\ UNCHANGED << now, token, had, basis, cameAt, endedAt, listed, lastListed,
                      listedSince, cache >>
  BY DEF IInv, TypeOK, CallState, CallTimes, CallKeys, Serve, Go, cache, idp,
         request, first
<1>2. CallTimes(c)'
  BY <1>1 DEF IInv, CallState, CallTimes
<1>3. CallKeys(c)' /\ CallEnd(c)'
  BY <1>1 DEF CallKeys, CallEnd, KnownAt, LastListed
<1>4. CallOutage(c)'
  BY <1>1 DEF IInv, CallState, CallOutage, LastListed
<1> QED
  BY <1>1, <1>2, <1>3, <1>4, OneCallSuffices DEF CallStep, Step

LEMMA FetchFailsPreserves ==
  ASSUME IInv, NEW c \in Calls, FetchFails(c)
  PROVE  IInv'
<1>1. /\ token[c] \in Tokens /\ now \in Int /\ pc[c] \in {"get", "store"}
      /\ \/ had[c] /\ pc'[c] = "check" /\ how'[c] = "fallback" /\ endedAt' = endedAt
         \/ ~had[c] /\ pc'[c] = "noKeys" /\ endedAt'[c] = now
      /\ UNCHANGED << now, token, basis, cameAt, listed, lastListed, listedSince,
                      cache >>
  BY DEF IInv, TypeOK, Times, CallState, CallKeys, FetchFails, UseKey, End, Go, idp,
         request, first
<1>2. CallTimes(c)'
  BY <1>1 DEF IInv, CallState, CallTimes
<1>3. CallKeys(c)' /\ CallEnd(c)'
  BY <1>1 DEF CallKeys, CallEnd
<1>4. CallOutage(c)'
  BY <1>1 DEF IInv, CallState, CallOutage, LastListed
<1> QED
  BY <1>1, <1>2, <1>3, <1>4, OneCallSuffices DEF CallStep, Step

\* What is stored has been served since the call came, a timeout ago at most.
LEMMA StorePreserves ==
  ASSUME IInv, NEW c \in Calls, Store(c)
  PROVE  IInv'
<1>1. /\ pc[c] = "store" /\ pc'[c] = "again" /\ token[c] \in Tokens
      /\ keys' = got[c] /\ fetchedAt' = now
      /\ UNCHANGED << now, token, basis, cameAt, endedAt, listed, lastListed,
                      listedSince >>
  BY DEF IInv, TypeOK, CallState, CallKeys, Store, Go, idp, request, first
<1>2. /\ now \in Int /\ cameAt[c] \in Int /\ Timeout \in Int
      /\ \A k \in Kids : LastListed(k, now) \in Int /\ listedSince[k] \in Int
      /\ got[c] \subseteq Kids /\ listed \subseteq Kids
  BY TimesAssumption DEF IInv, TypeOK, Times, LastListed
<1>3. CacheState'
  <2>1. KnownAt(got[c], cameAt[c]) /\ now <= cameAt[c] + Timeout
    BY <1>1 DEF IInv, CallState, CallKeys, CallTimes
  <2>2. KnownAt(got[c], now - Timeout)
    BY <1>2, <2>1 DEF KnownAt
  <2> QED
    BY <1>1, <1>2, <2>2 DEF CacheState, KnownAt, LastListed
<1>4. CallTimes(c)'
  BY <1>1 DEF IInv, CallState, CallTimes
<1>5. CallKeys(c)' /\ CallEnd(c)' /\ CallOutage(c)'
  BY <1>1 DEF IInv, CallState, CallKeys, CallEnd, CallOutage
<1> QED
  BY <1>1, <1>3, <1>4, <1>5, OneCallSuffices DEF CallStep, Step

\* The set found has been stored in this tick, by this call or after it, so what
\* is in it has been listed, and what is missing has not, for a timeout at most.
LEMMA LookAgainPreserves ==
  ASSUME IInv, NEW c \in Calls, LookAgain(c)
  PROVE  IInv'
<1>1. /\ pc[c] = "again" /\ token[c] \in Tokens
      /\ \/ /\ token[c].kid \in keys
            /\ pc'[c] = "check" /\ how'[c] = "refreshed" /\ endedAt' = endedAt
         \/ token[c].kid \notin keys /\ pc'[c] = "unknownKid" /\ endedAt'[c] = now
      /\ UNCHANGED << now, token, basis, cameAt, listed, lastListed, listedSince,
                      cache >>
  BY DEF IInv, TypeOK, CallState, CallKeys, LookAgain, UseKey, End, Go, idp,
         request, fetch, first
<1>2. now = fetchedAt /\ cameAt[c] <= now /\ KnownAt(keys, fetchedAt - Timeout)
  BY <1>1 DEF IInv, CallState, CallTimes, CacheState
<1>3. /\ now \in Int /\ cameAt[c] \in Int /\ token[c].kid \in Kids
      /\ LastListed(token[c].kid, now) \in Int /\ listedSince[token[c].kid] \in Int
  BY <1>1, TimesAssumption DEF IInv, TypeOK, Times, LastListed, Tokens
<1>4. CallTimes(c)'
  BY <1>1, <1>3 DEF IInv, CallState, CallTimes
<1>5. CallKeys(c)'
  <2>1. token[c].kid \in keys =>
          now - LastListed(token[c].kid, now) < TTL + Timeout
    BY <1>2, <1>3, TimesAssumption DEF KnownAt
  <2>2. token[c].kid \in listed \ keys =>
          listedSince[token[c].kid] + Timeout >= cameAt[c]
    BY <1>2, <1>3, TimesAssumption DEF KnownAt
  <2> QED
    BY <1>1, <2>1, <2>2 DEF CallKeys, LastListed
<1>6. CallEnd(c)' /\ CallOutage(c)'
  BY <1>1 DEF IInv, CallState, CallEnd, CallOutage
<1> QED
  BY <1>1, <1>4, <1>5, <1>6, OneCallSuffices DEF CallStep, Step

\* The claims are judged by the clock of the moment.
LEMMA CheckTokenPreserves ==
  ASSUME IInv, NEW c \in Calls, CheckToken(c)
  PROVE  IInv'
<1>1. /\ pc[c] = "check" /\ token[c] \in Tokens /\ now \in Int
      /\ pc'[c] \in {"accepted", "invalid"} /\ endedAt'[c] = now
      /\ pc'[c] = "accepted" => /\ token[c].flaw = "none"
                                /\ ~Expired(token[c], now) /\ ~Premature(token[c], now)
      /\ UNCHANGED << now, how, token, basis, cameAt, listed, lastListed,
                      listedSince, cache >>
  BY DEF IInv, TypeOK, Times, CallState, CallKeys, CheckToken, End, Go, idp,
         request, fetch, first
<1>2. token[c].exp \in Int /\ token[c].nbf \in Int
  <2>1. token[c].exp \in Exps /\ token[c].nbf \in Nbfs
    BY <1>1 DEF Tokens
  <2>2. token[c].exp \in Nat /\ token[c].nbf \in Nat
    BY <2>1, TokensAssumption, Zenon
  <2> QED
    BY <2>2
<1>3. CallTimes(c)'
  BY <1>1 DEF IInv, CallState, CallTimes
<1>4. CallKeys(c)'
  BY <1>1 DEF IInv, CallState, CallKeys, LastListed
<1>5. CallEnd(c)'
  BY <1>1, <1>2, TimesAssumption DEF CallEnd, Expired, Premature
<1>6. CallOutage(c)'
  BY <1>1 DEF IInv, CallState, CallOutage, LastListed
<1> QED
  BY <1>1, <1>3, <1>4, <1>5, <1>6, OneCallSuffices DEF CallStep, Step

-----------------------------------------------------------------------------
(* The IDP and the clock *)

\* A key that is withdrawn was listed until now, one that is added is since now.
LEMMA RotatePreserves ==
  ASSUME IInv, NEW new \in SUBSET Kids, Rotate(new)
  PROVE  IInv'
<1> USE DEF Rotate, cache, request, fetch, first
<1>1. TypeOK'
  <2>1. rotations' \in 0..MaxRotations
    BY TimesAssumption DEF IInv, TypeOK
  <2>2. steady' \in [Calls -> SUBSET Kids]
    BY DEF IInv, TypeOK
  <2>3. lastListed' \in [Kids -> Times] /\ listedSince' \in [Kids -> Times]
    BY DEF IInv, TypeOK
  <2> QED
    BY <2>1, <2>2, <2>3 DEF IInv, TypeOK
<1>2. ASSUME NEW k \in Kids
      PROVE  /\ LastListed(k, now) = IF k \in listed THEN now ELSE lastListed[k]
             /\ LastListed(k, now)' = IF k \in listed \cup new THEN now ELSE lastListed[k]
             /\ listedSince'[k] = IF k \in new \ listed THEN now ELSE listedSince[k]
  BY DEF LastListed
<1>3. now \in Int /\ \A k \in Kids : lastListed[k] \in Int /\ listedSince[k] \in Int
  BY TimesAssumption DEF IInv, TypeOK, Times
<1>4. ASSUME NEW set \in SUBSET Kids, NEW at \in Int, at <= now, KnownAt(set, at)
      PROVE  /\ \A k \in set : LastListed(k, now)' >= at
             /\ \A k \in listed' \ set : listedSince'[k] >= at
  <2>1. \A k \in set : LastListed(k, now)' >= at
    BY <1>2, <1>3, <1>4 DEF KnownAt
  <2>2. \A k \in new \ set : listedSince'[k] >= at
    BY <1>2, <1>3, <1>4 DEF KnownAt
  <2> QED
    BY <2>1, <2>2
<1>5. /\ keys \in SUBSET Kids /\ fetchedAt - Timeout \in Int /\ fetchedAt - Timeout <= now
      /\ KnownAt(keys, fetchedAt - Timeout) /\ fetchedAt <= now
  BY <1>3, TimesAssumption DEF IInv, TypeOK, Times, CacheState
<1>6. CacheState'
  BY <1>4, <1>5 DEF CacheState, KnownAt
<1>7. ASSUME NEW c \in Calls
      PROVE  CallState(c)'
  <2>1. /\ cameAt[c] \in Int /\ cameAt[c] <= now /\ got[c] \in SUBSET Kids
        /\ basis[c] \in Int /\ basis[c] <= now
        /\ token[c] \in Tokens => token[c].kid \in Kids
        /\ CallTimes(c) /\ CallKeys(c) /\ CallEnd(c) /\ CallOutage(c)
    BY TimesAssumption
       DEF IInv, TypeOK, Times, Tokens, CallState, CallTimes, CallOutage
  <2>2. CallTimes(c)' /\ CallEnd(c)'
    BY <2>1 DEF CallTimes, CallEnd
  <2>3. pc[c] = "store" => /\ \A k \in got[c] : LastListed(k, now)' >= cameAt[c]
                           /\ \A k \in listed' \ got[c] : listedSince'[k] >= cameAt[c]
    BY <1>4, <2>1 DEF CallKeys
  <2>4. ASSUME (pc[c] = "check" \/ (pc[c] = "accepted" /\ endedAt[c] = now))',
               (how[c] # "fallback")'
        PROVE  (now - LastListed(token[c].kid, now) < TTL + Timeout)'
    <3>1. token[c].kid \in Kids /\ now - LastListed(token[c].kid, now) < TTL + Timeout
      BY <2>1, <2>4 DEF CallKeys
    <3>2. LastListed(token[c].kid, now)' =
            IF token[c].kid \in listed \cup new THEN now ELSE lastListed[token[c].kid]
      BY <3>1 DEF LastListed
    <3>3. now - LastListed(token[c].kid, now)' < TTL + Timeout
      BY <1>2, <1>3, <3>1, <3>2, TimesAssumption
    <3> QED
      BY <3>3
  <2>5. ASSUME pc[c] = "unknownKid", endedAt[c] = now, token[c].kid \in new
        PROVE  listedSince'[token[c].kid] + Timeout >= cameAt[c]
    <3>1. /\ token[c].kid \in Kids
          /\ token[c].kid \in listed => listedSince[token[c].kid] + Timeout >= cameAt[c]
      BY <2>1, <2>5 DEF CallKeys
    <3>2. listedSince'[token[c].kid] = IF token[c].kid \in listed
                                        THEN listedSince[token[c].kid] ELSE now
      BY <1>2, <2>5, <3>1
    <3> QED
      BY <1>3, <2>1, <3>1, <3>2, TimesAssumption
  <2>6. /\ listed' = new
        /\ UNCHANGED << now, pc, token, had, basis, got, how, endedAt, cameAt >>
    OBVIOUS
  <2>7. (pc[c] = "store" => KnownAt(got[c], cameAt[c]))'
    BY <2>3, <2>6 DEF KnownAt, LastListed
  <2> HIDE DEF Rotate
  <2>8. (/\ pc[c] = "check" \/ (pc[c] = "accepted" /\ endedAt[c] = now)
         /\ how[c] # "fallback"
         => now - LastListed(token[c].kid, now) < TTL + Timeout)'
    BY <2>4
  <2>9. (pc[c] = "unknownKid" /\ endedAt[c] = now /\ token[c].kid \in listed =>
           listedSince[token[c].kid] + Timeout >= cameAt[c])'
    BY <2>5, <2>6
  <2>10. (pc[c] # "idle" => token[c] \in Tokens)'
    BY <2>1, <2>6 DEF CallKeys
  <2>11. CallKeys(c)'
    BY <2>7, <2>8, <2>9, <2>10, Zenon DEF CallKeys
  <2>12. ASSUME pc[c] # "idle"
         PROVE  /\ LastListed(token[c].kid, now) + Timeout >= basis[c] =>
                     LastListed(token[c].kid, now)' + Timeout >= basis[c]
                /\ token[c].kid \in new =>
                     \/ /\ token[c].kid \in listed
                        /\ listedSince'[token[c].kid] = listedSince[token[c].kid]
                     \/ listedSince'[token[c].kid] + Timeout >= basis[c]
    <3>1. token[c].kid \in Kids
      BY <2>1, <2>12 DEF CallKeys
    <3>2. LastListed(token[c].kid, now)' = LastListed(token[c].kid, now)
            \/ LastListed(token[c].kid, now)' = now
      BY <3>1 DEF LastListed, Rotate
    <3>3. listedSince'[token[c].kid] = IF token[c].kid \in new \ listed
                                        THEN now ELSE listedSince[token[c].kid]
      BY <1>2, <3>1
    <3> QED
      BY <1>3, <2>1, <3>2, <3>3, TimesAssumption
  <2>13. CallOutage(c)'
    BY <2>1, <2>6, <2>12 DEF CallOutage
  <2> QED
    BY <2>2, <2>11, <2>13 DEF CallState
<1> QED
  BY <1>1, <1>6, <1>7 DEF IInv

\* Time passes only while calls wait for the IDP, within its timeout; what ended
\* at the last tick has then ended in the past.
LEMMA TickPreserves ==
  ASSUME IInv, Tick
  PROVE  IInv'
<1> USE DEF Tick, cache, idp, request, fetch, first
<1>1. /\ now \in Int /\ now' = now + 1 /\ fetchedAt \in Int
      /\ \A k \in Kids : lastListed[k] \in Int /\ listedSince[k] \in Int
      /\ listed \subseteq Kids /\ keys \subseteq Kids
  BY TimesAssumption DEF IInv, TypeOK, Times
<1>2. TypeOK'
  <2>1. now' \in Times
    BY TimesAssumption DEF IInv, TypeOK, Times
  <2> QED
    BY <2>1 DEF IInv, TypeOK
<1>3. \A k \in Kids : LastListed(k, now)' = IF k \in listed THEN now + 1 ELSE lastListed[k]
  BY <1>1 DEF LastListed
<1>4. CacheState'
  BY <1>1, <1>3, TimesAssumption DEF IInv, CacheState, KnownAt, LastListed
<1>5. ASSUME NEW c \in Calls
      PROVE  CallState(c)'
  <2>1. /\ cameAt[c] \in Int /\ cameAt[c] <= now /\ got[c] \subseteq Kids
        /\ endedAt[c] \in Int /\ endedAt[c] <= now
        /\ pc[c] \notin {"look", "again", "check"}
        /\ pc[c] \in {"get", "store"} => now - cameAt[c] < Timeout
        /\ basis[c] \in Int
        /\ CallKeys(c) /\ CallEnd(c) /\ CallOutage(c)
    BY TimesAssumption DEF IInv, TypeOK, Times, CallState, CallTimes
  <2>2. CallTimes(c)'
    BY <1>1, <2>1, TimesAssumption DEF CallTimes
  <2>3. CallKeys(c)'
    BY <1>1, <1>3, <2>1 DEF CallKeys, KnownAt, LastListed
  <2>4. CallEnd(c)'
    BY <2>1 DEF CallEnd
  <2>5. pc[c] # "idle" => token[c].kid \in Kids
    BY <2>1 DEF CallKeys, Tokens
  <2>6. CallOutage(c)'
    BY <1>1, <1>3, <2>1, <2>5, TimesAssumption DEF CallOutage, LastListed
  <2> QED
    BY <2>2, <2>3, <2>4, <2>6 DEF CallState
<1> QED
  BY <1>2, <1>4, <1>5 DEF IInv

-----------------------------------------------------------------------------
LEMMA NextIInv == IInv /\ [Next]_vars => IInv'
<1> SUFFICES ASSUME IInv, [Next]_vars PROVE IInv'
  OBVIOUS
<1>1. CASE UNCHANGED vars
  BY <1>1 DEF vars, cache, idp, request, fetch, first, IInv, TypeOK, CacheState,
     KnownAt, LastListed, CallState, CallTimes, CallKeys, CallEnd, CallOutage
<1> QED
  BY <1>1, ArrivePreserves, LookPreserves, ServePreserves, FetchFailsPreserves,
     StorePreserves, LookAgainPreserves, CheckTokenPreserves, RotatePreserves,
     TickPreserves
     DEF Next, Step

\* What IInv says holds always, in whatever order sets are served and stored.
THEOREM Invariance == Spec => []IInv
<1> QED
  BY InitIInv, NextIInv, PTL DEF Spec

-----------------------------------------------------------------------------
(* The safety properties *)

\* Every variable keeps its type: the clocks stay within the time explored.
THEOREM TypeCorrectness == Spec => []TypeOK
<1>1. IInv => TypeOK
  BY DEF IInv
<1> QED
  BY <1>1, Invariance, PTL

\* A key taken from a set that was stored was listed less than a lifetime and a
\* timeout before the token is accepted (key, refresh).
THEOREM WithdrawnKeysDieOut == Spec => []WithdrawnKeyDiesOut
<1>1. IInv => WithdrawnKeyDiesOut
  BY DEF IInv, CallState, CallKeys, WithdrawnKeyDiesOut
<1> QED
  BY <1>1, Invariance, PTL

\* A key listed since a timeout before the call is found (key, refresh).
THEOREM SettledKeysAreFound == Spec => []SettledKeyIsFound
<1>1. IInv => SettledKeyIsFound
  BY DEF IInv, CallState, CallKeys, SettledKeyIsFound
<1> QED
  BY <1>1, Invariance, PTL

\* While the IDP is out of reach, the set stored last before the call serves it as
\* it was served, whatever fetches failed and however old it is (key, refresh).
THEOREM OutagesAreBridged == Spec => []OutageServesLastSet
<1>1. IInv => OutageServesLastSet
  BY DEF IInv, CallState, CallOutage, OutageServesLastSet
<1> QED
  BY <1>1, Invariance, PTL

\* A token is valid at the moment it is accepted (verify).
THEOREM AcceptedTokensAreValid == Spec => []AcceptedWhileValid
<1>1. IInv => AcceptedWhileValid
  BY DEF IInv, CallState, CallEnd, AcceptedWhileValid
<1> QED
  BY <1>1, Invariance, PTL

=============================================================================
