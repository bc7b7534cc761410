----------------------------- MODULE JWKSCache ------------------------------
(***************************************************************************)
(* Bearer-token verification of the GO API (src/client/auth.go): the cache *)
(* of the IDP's key set, shared by the handler goroutines, which read it   *)
(* under a read lock, fetch the set with no lock held and store it under   *)
(* the write lock.  Fetches overlap, so a set that was served early may be *)
(* stored late, over a newer one.  The IDP adds and withdraws keys at any  *)
(* moment.  Time is counted in ticks; a key is its kid.                    *)
(***************************************************************************)
EXTENDS Integers

CONSTANTS
  Calls,         \* verifications, one per request
  Kids,          \* key IDs
  Exps, Nbfs,    \* the exp and nbf claims of tokens, 0 if the claim is absent
  TokenFlaws,    \* what may be wrong with a token
  NoToken,       \* what a call that has not come carries
  FirstListed,   \* the kids the IDP lists at the start
  TTL,           \* lifetime of a fetched set: 15 minutes
  Timeout,       \* longest exchange with the IDP: 10 seconds
  Leeway,        \* tolerated clock skew: 60 seconds
  MaxTime,       \* bound on the time explored
  MaxRotations   \* bound on the changes of the IDP's set

\* "header": malformed or not RS256; "signature": not made by the key;
\* "claims": undecodable, or another issuer or audience.
Flaws == {"none", "header", "signature", "claims"}

Tokens == [kid : Kids, exp : Exps, nbf : Nbfs, flaw : TokenFlaws]

ASSUME TokensAssumption ==
  Exps \subseteq Nat /\ Nbfs \subseteq Nat /\ TokenFlaws \subseteq Flaws
ASSUME KidsAssumption == FirstListed \subseteq Kids
ASSUME TimesAssumption ==
  /\ TTL \in Nat \ {0} /\ Timeout \in Nat /\ Leeway \in Nat
  /\ MaxTime \in Nat /\ MaxRotations \in Nat

VARIABLES
  now,
  listed,       \* the kids in the IDP's set
  rotations,    \* changes of that set so far
  keys,         \* jwksCache.keys
  fetchedAt,    \* jwksCache.fetchedAt
  pc,           \* call -> where its verification is
  token,        \* call -> its token, or NoToken
  had,          \* call -> its kid was in the cache when it looked
  basis,        \* history: call -> when the set it looked in had been stored
  got,          \* call -> the set the IDP served it, until it is stored
  how,          \* call -> where the key it used came from
  endedAt,      \* history: call -> when its verification ended
  cameAt,       \* call -> when it arrived, and started to fetch
  steady,       \* history: call -> kids listed ever since it arrived
  lastListed,   \* history: kid -> when the IDP last listed it
  listedSince   \* history: kid -> when its present listing began

cache   == << keys, fetchedAt >>
idp     == << listed, rotations, steady, lastListed, listedSince >>
request == << token, cameAt >>
first   == << had, basis >>
fetch   == << first, got >>
vars    == << now, pc, how, endedAt, cache, idp, request, fetch >>

Places  == {"idle", "look", "get", "store", "again", "check",
            "accepted", "unknownKid", "noKeys", "invalid"}
Ended   == {"accepted", "unknownKid", "noKeys", "invalid"}
Sources == {"none", "hit", "refreshed", "fallback"}

\* The clock starts at TTL, so that the zero time of a new cache is not fresh.
Times == 0..(TTL + MaxTime)

TypeOK ==
  /\ now \in Times /\ fetchedAt \in Times
  /\ listed \in SUBSET Kids /\ keys \in SUBSET Kids
  /\ rotations \in 0..MaxRotations
  /\ pc \in [Calls -> Places]
  /\ token \in [Calls -> Tokens \cup {NoToken}]
  /\ had \in [Calls -> BOOLEAN] /\ basis \in [Calls -> Times]
  /\ cameAt \in [Calls -> Times] /\ endedAt \in [Calls -> Times]
  /\ got \in [Calls -> SUBSET Kids]
  /\ how \in [Calls -> Sources]
  /\ steady \in [Calls -> SUBSET Kids]
  /\ lastListed \in [Kids -> Times] /\ listedSince \in [Kids -> Times]

Init ==
  /\ now = TTL
  /\ listed = FirstListed /\ rotations = 0
  /\ keys = {} /\ fetchedAt = 0
  /\ pc = [c \in Calls |-> "idle"]
  /\ token = [c \in Calls |-> NoToken]
  /\ had = [c \in Calls |-> FALSE] /\ basis = [c \in Calls |-> 0]
  /\ got = [c \in Calls |-> {}]
  /\ how = [c \in Calls |-> "none"]
  /\ endedAt = [c \in Calls |-> 0] /\ cameAt = [c \in Calls |-> 0]
  /\ steady = [c \in Calls |-> {}]
  /\ lastListed = [k \in Kids |-> 0] /\ listedSince = [k \in Kids |-> 0]

-----------------------------------------------------------------------------
(* verify *)

Go(c, place) == pc' = [pc EXCEPT ![c] = place]

End(c, place) ==
  /\ Go(c, place)
  /\ endedAt' = [endedAt EXCEPT ![c] = now]

\* key() returns a key found in the given place.
UseKey(c, source) ==
  /\ Go(c, "check")
  /\ how' = [how EXCEPT ![c] = source]
  /\ UNCHANGED endedAt

\* The token is split and its header decoded; only RS256 goes on to key().
Arrive(c, t) ==
  /\ pc[c] = "idle"
  /\ token' = [token EXCEPT ![c] = t]
  /\ cameAt' = [cameAt EXCEPT ![c] = now]
  /\ IF t.flaw = "header" THEN End(c, "invalid")
                          ELSE Go(c, "look") /\ UNCHANGED endedAt
  /\ steady' = [steady EXCEPT ![c] = listed]
  /\ UNCHANGED << now, how, cache, listed, rotations, lastListed, listedSince,
                  fetch >>

Fresh == now - fetchedAt < TTL

\* Slip: only the age of the set is looked at before it is fetched again.
MutLookByAgeOnly(c) ==
  /\ pc[c] = "look"
  /\ LET ok == token[c].kid \in keys
     IN  IF Fresh
           THEN /\ UNCHANGED fetch
                /\ IF ok THEN UseKey(c, "hit") ELSE End(c, "unknownKid") /\ UNCHANGED how
           ELSE /\ Go(c, "get")
                /\ had' = [had EXCEPT ![c] = ok]
                /\ basis' = [basis EXCEPT ![c] = fetchedAt]
                /\ UNCHANGED << got, how, endedAt >>
  /\ UNCHANGED << now, cache, idp, request >>

\* key(), first read lock: a fresh hit is used, else the set is fetched.
Look(c) ==
  /\ pc[c] = "look"
  /\ LET ok == token[c].kid \in keys
     IN  IF ok /\ Fresh
           THEN UseKey(c, "hit") /\ UNCHANGED fetch
           ELSE /\ Go(c, "get")
                /\ had' = [had EXCEPT ![c] = ok]
                /\ basis' = [basis EXCEPT ![c] = fetchedAt]
                /\ UNCHANGED << got, how, endedAt >>
  /\ UNCHANGED << now, cache, idp, request >>

\* refresh(): the IDP answers with the set it lists at that moment.
Serve(c) ==
  /\ pc[c] = "get"
  /\ got' = [got EXCEPT ![c] = listed]
  /\ Go(c, "store")
  /\ UNCHANGED << now, how, endedAt, cache, idp, request, first >>

\* Slips: a failed fetch renews the set's time; a failed fetch empties the set.
MutFetchFailsRenews(c) ==
  /\ pc[c] \in {"get", "store"}
  /\ IF had[c] THEN UseKey(c, "fallback") ELSE End(c, "noKeys") /\ UNCHANGED how
  /\ got' = [got EXCEPT ![c] = {}]
  /\ fetchedAt' = now
  /\ UNCHANGED << now, keys, idp, request, first >>

MutFetchFailsEmpties(c) ==
  /\ pc[c] \in {"get", "store"}
  /\ IF had[c] THEN UseKey(c, "fallback") ELSE End(c, "noKeys") /\ UNCHANGED how
  /\ got' = [got EXCEPT ![c] = {}]
  /\ keys' = {}
  /\ UNCHANGED << now, fetchedAt, idp, request, first >>

\* refresh() fails, by connection, status, timeout or an unreadable body: the
\* key seen at the first look serves, if there was one.
FetchFails(c) ==
  /\ pc[c] \in {"get", "store"}
  /\ IF had[c] THEN UseKey(c, "fallback") ELSE End(c, "noKeys") /\ UNCHANGED how
  /\ got' = [got EXCEPT ![c] = {}]
  /\ UNCHANGED << now, cache, idp, request, first >>

\* Slip: the time of expiry is stored for the time of the fetch.
MutStoreExpiry(c) ==
  /\ pc[c] = "store"
  /\ keys' = got[c]
  /\ fetchedAt' = now + TTL
  /\ Go(c, "again")
  /\ got' = [got EXCEPT ![c] = {}]
  /\ UNCHANGED << now, how, endedAt, idp, request, first >>

\* refresh(): the served set replaces the cached one.
Store(c) ==
  /\ pc[c] = "store"
  /\ keys' = got[c]
  /\ fetchedAt' = now
  /\ Go(c, "again")
  /\ got' = [got EXCEPT ![c] = {}]
  /\ UNCHANGED << now, how, endedAt, idp, request, first >>

\* Slip: a kid that is still unknown is looked up again.
MutLookAgainForEver(c) ==
  /\ pc[c] = "again"
  /\ IF token[c].kid \in keys
       THEN UseKey(c, "refreshed")
       ELSE Go(c, "look") /\ UNCHANGED << how, endedAt >>
  /\ UNCHANGED << now, cache, idp, request, fetch >>

\* key(), second read lock: the cache may hold another call's set by now.
LookAgain(c) ==
  /\ pc[c] = "again"
  /\ IF token[c].kid \in keys
       THEN UseKey(c, "refreshed")
       ELSE End(c, "unknownKid") /\ UNCHANGED how
  /\ UNCHANGED << now, cache, idp, request, fetch >>

Expired(t, at)   == t.exp # 0 /\ at - Leeway > t.exp
Premature(t, at) == t.nbf # 0 /\ at + Leeway < t.nbf

\* Slip: the time is taken when the request comes.
MutCheckTokenEarly(c) ==
  /\ pc[c] = "check"
  /\ LET t == token[c]
     IN  End(c, IF t.flaw # "none" \/ Expired(t, cameAt[c]) \/ Premature(t, cameAt[c])
                  THEN "invalid" ELSE "accepted")
  /\ UNCHANGED << now, how, cache, idp, request, fetch >>

\* Signature, then the claims against the present time.
CheckToken(c) ==
  /\ pc[c] = "check"
  /\ LET t == token[c]
     IN  End(c, IF t.flaw # "none" \/ Expired(t, now) \/ Premature(t, now)
                  THEN "invalid" ELSE "accepted")
  /\ UNCHANGED << now, how, cache, idp, request, fetch >>

-----------------------------------------------------------------------------
(* The IDP and the clock *)

\* The IDP lists another set of keys.
Rotate(new) ==
  /\ rotations < MaxRotations /\ new # listed
  /\ listed' = new
  /\ rotations' = rotations + 1
  /\ steady' = [c \in Calls |-> IF pc[c] \in Ended THEN steady[c]
                                                   ELSE steady[c] \cap new]
  /\ lastListed' = [k \in Kids |-> IF k \in listed THEN now ELSE lastListed[k]]
  /\ listedSince' = [k \in Kids |-> IF k \in new \ listed THEN now
                                                           ELSE listedSince[k]]
  /\ UNCHANGED << now, pc, how, endedAt, cache, request, fetch >>

\* Computing takes no time next to a tick: only an exchange with the IDP lasts,
\* and no longer than the HTTP client's timeout.
Tick ==
  /\ now < TTL + MaxTime
  /\ \A c \in Calls :
       /\ pc[c] \notin {"look", "again", "check"}
       /\ pc[c] \in {"get", "store"} => now - cameAt[c] < Timeout
  /\ now' = now + 1
  /\ UNCHANGED << pc, how, endedAt, cache, idp, request, fetch >>

Step(c) == Look(c) \/ Serve(c) \/ FetchFails(c) \/ Store(c) \/ LookAgain(c)
           \/ CheckToken(c)

Next ==
  \/ \E c \in Calls, t \in Tokens : Arrive(c, t)
  \/ \E c \in Calls : Step(c)
  \/ \E new \in SUBSET Kids : Rotate(new)
  \/ Tick

Spec == Init /\ [][Next]_vars

\* Goroutines run, and the HTTP client ends every exchange.
FairSpec == Spec /\ \A c \in Calls : WF_vars(Step(c))

-----------------------------------------------------------------------------
(* Properties *)

LastListed(k, at) == IF k \in listed THEN at ELSE lastListed[k]

\* A withdrawn key dies out: unless its own fetch failed, a call accepts a token
\* only if the IDP listed the key less than TTL + Timeout before, whatever order
\* overlapping fetches are stored in (key, refresh).
WithdrawnKeyDiesOut ==
  \A c \in Calls :
    (pc[c] = "accepted" /\ how[c] # "fallback" /\ endedAt[c] = now)
      => now - LastListed(token[c].kid, now) < TTL + Timeout

\* A key that settled in the IDP's set is found: if a token's kid has been
\* listed since Timeout before the call came, the call is not told the kid is
\* unknown, even when an older fetch is stored over a newer one.
SettledKeyIsFound ==
  \A c \in Calls :
    (pc[c] = "unknownKid" /\ endedAt[c] = now /\ token[c].kid \in listed)
      => listedSince[token[c].kid] + Timeout >= cameAt[c]

\* A new key is picked up at once: a call that refreshed the cache finds every
\* key the IDP has listed since before the call came (README.md of src/client:
\* keys are refreshed "on unknown kid for key rotation").
NewKeyIsFound ==
  \A c \in Calls : pc[c] = "unknownKid" => token[c].kid \notin steady[c]

\* A token is accepted only while it is valid at the moment it is accepted, not
\* at the moment its request came: the key may take a whole exchange to arrive.
AcceptedWhileValid ==
  \A c \in Calls : pc[c] = "accepted" =>
    LET t == token[c] IN
      /\ t.flaw = "none"
      /\ t.exp # 0 => endedAt[c] <= t.exp + Leeway
      /\ t.nbf # 0 => endedAt[c] + Leeway >= t.nbf

\* While the IDP is out of reach, the last set stored before a call came serves
\* it as it is, however old it grows and however many fetches fail meanwhile: a key
\* accepted then was still listed a Timeout before that set was stored, and one
\* refused for want of any key was not yet, unless it was withdrawn in between.
OutageServesLastSet ==
  \A c \in Calls :
    LET kid == token[c].kid
    IN  /\ pc[c] = "accepted" /\ how[c] = "fallback" =>
             LastListed(kid, now) + Timeout >= basis[c]
        /\ pc[c] = "noKeys" /\ kid \in listed =>
             listedSince[kid] + Timeout >= basis[c]

\* Every verification ends, also when the IDP never answers.
VerificationEnds ==
  \A c \in Calls : (pc[c] = "look") ~> (pc[c] \in Ended)

=============================================================================
