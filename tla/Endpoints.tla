----------------------------- MODULE Endpoints -----------------------------
(***************************************************************************)
(* GovPay+ while its endpoint settings change under way, in front of       *)
(* several GOs and the IDPs that issue tokens.  A request of the browser   *)
(* copies the settings once (Store.Snapshot) and then talks to two hosts:  *)
(* the token endpoint, which is the GO, a GO that forwards to its IDP, or  *)
(* an IDP, and the GO itself.  The administrator may save other settings   *)
(* between any two steps; the key pair stays the one loaded at the start.  *)
(* What GovPay has of restarts and of the GO's other checks is left out.   *)
(***************************************************************************)
CONSTANTS
  GOs, IDPs,
  Clients,      \* pairs of client ID and secret
  Keys,         \* RSA key pairs
  Bills,        \* bills that every GO holds
  Presentments, Pays,
  GOConf,       \* GO -> the Config it was started with
  Registered,   \* IDP -> the clients it issues tokens to
  Choices,      \* the settings an administrator may save
  None

Handlers == Presentments \cup Pays
Hosts    == GOs \cup IDPs

\* client/main.go, Config: the credentials of the local token endpoint, the IDP
\* to forward to instead, the IDP whose tokens are verified, the private key.
Configs == [client : Clients, tokenIDP : IDPs \cup {None},
            jwksIDP : IDPs \cup {None}, key : Keys]

\* server/config.go, GoEndpoint; tokenURL is None where it is left empty.
Settings == [baseURL : GOs, tokenURL : Hosts \cup {None}, client : Clients,
             enabled : BOOLEAN]

Tokens == [issuer : Hosts, client : Clients]

ASSUME HostsAssumption == GOs \cap IDPs = {} /\ None \notin Hosts \cup Keys \cup Bills
ASSUME ConfAssumption ==
  /\ GOConf \in [GOs -> Configs]
  /\ Registered \in [IDPs -> SUBSET Clients]
  /\ Choices \subseteq Settings
ASSUME HandlersAssumption == Presentments \cap Pays = {} /\ None \notin Handlers

VARIABLES
  settings,  \* Store.cfg.GoEndpoint
  saved,     \* history: every value settings has had
  key,       \* the public key GovPay+ has loaded
  pc,        \* handler -> where it is
  txn,       \* handler -> the transaction it works for, named by its look-up
  bill,      \* look-up -> the bill asked for
  ep,        \* handler -> its copy of the settings
  token,     \* handler -> the bearer it holds, or None
  answer,    \* handler -> the status the browser gets, or None
  sessions,  \* transactions that can be paid
  sent,      \* handler -> the call it made to a GO, or None
  verdict,   \* handler -> the status the GO decided on, or None
  paid,      \* GO -> the bills it holds as paid
  told       \* history: secrets and tokens that reached a host

browser == << txn, bill, ep >>
gos     == << verdict, paid >>
vars    == << settings, saved, key, pc, browser, token, answer, sessions, sent,
              gos, told >>

Places == {"idle", "token", "post", "await", "done"}
Statuses == {200, 401, 409, 502}
Calls == [go : GOs, token : Tokens \cup {None}, key : Keys]
Disclosures == [host : Hosts, what : Clients \cup Tokens]

ASSUME NoneAssumption == None \notin Statuses

TypeOK ==
  /\ settings \in Settings
  /\ saved \in SUBSET Settings
  /\ key \in Keys
  /\ pc \in [Handlers -> Places]
  /\ txn \in [Handlers -> Presentments \cup {None}]
  /\ bill \in [Presentments -> Bills \cup {None}]
  /\ ep \in [Handlers -> Settings \cup {None}]
  /\ token \in [Handlers -> Tokens \cup {None}]
  /\ answer \in [Handlers -> Statuses \cup {None}]
  /\ sessions \in SUBSET { t \in Presentments : answer[t] = 200 }
  /\ sent \in [Handlers -> Calls \cup {None}]
  /\ verdict \in [Handlers -> {200, 401, 409, None}]
  /\ paid \in [GOs -> SUBSET Bills]
  /\ told \in SUBSET Disclosures

\* The key given inline is preferred to the key file; with neither GovPay+ does
\* not start.
LoadEncryptor(inline, file) == IF inline # None THEN inline ELSE file

Init ==
  /\ settings \in Choices
  /\ saved = {settings}
  /\ key \in Keys
  /\ \E inline, file \in Keys \cup {None} : key = LoadEncryptor(inline, file)
  /\ pc = [h \in Handlers |-> "idle"]
  /\ txn = [h \in Handlers |-> None]
  /\ bill = [p \in Presentments |-> None]
  /\ ep = [h \in Handlers |-> None]
  /\ token = [h \in Handlers |-> None]
  /\ answer = [h \in Handlers |-> None]
  /\ sessions = {}
  /\ sent = [h \in Handlers |-> None]
  /\ verdict = [h \in Handlers |-> None]
  /\ paid = [g \in GOs |-> {}]
  /\ told = {}

-----------------------------------------------------------------------------
(* Where a token comes from *)

\* tokenEndpoint: the token URL if there is one, else the GO's own.
TokenEndpoint(s) == IF s.tokenURL # None THEN s.tokenURL ELSE s.baseURL

\* The host that decides on the credentials: a GO with an IDP forwards them.
Decider(host) ==
  IF host \in GOs /\ GOConf[host].tokenIDP # None
    THEN GOConf[host].tokenIDP ELSE host

\* checkBasicAuth of a GO, or the register of an IDP.
Known(host, client) ==
  IF host \in GOs THEN client = GOConf[host].client ELSE client \in Registered[host]

\* generateTokenHandler and proxyTokenRequest: a token of the host that decides,
\* or None for its 401, which is relayed.
TokenFor(s) ==
  LET host == Decider(TokenEndpoint(s))
  IN  IF Known(host, s.client) THEN [issuer |-> host, client |-> s.client] ELSE None

\* The hosts that see the credentials on the way.
Asked(s) == { TokenEndpoint(s), Decider(TokenEndpoint(s)) }

\* authorizeBearer: some token, and one of the verified IDP if there is one.
Authorized(g, tok) ==
  /\ tok # None
  /\ GOConf[g].jwksIDP # None => tok.issuer = GOConf[g].jwksIDP

\* DecryptTransactionKey: the pair of the public key that encrypted it.
Decrypts(g, k) == GOConf[g].key = k

-----------------------------------------------------------------------------
(* Settings *)

\* UpdateEndpoint replaces the endpoint as a whole.
Save(s) ==
  /\ s # settings
  /\ settings' = s
  /\ saved' = saved \cup {s}
  /\ UNCHANGED << key, pc, browser, token, answer, sessions, sent, gos, told >>

-----------------------------------------------------------------------------
(* The handlers of GovPay+ *)

MoveTo(h, place) == pc' = [pc EXCEPT ![h] = place]

Answer(h, s) == MoveTo(h, "done") /\ answer' = [answer EXCEPT ![h] = s]

\* Snapshot, and on to the token if one is needed.
Begin(h, t) ==
  /\ pc[h] = "idle"
  /\ txn' = [txn EXCEPT ![h] = t]
  /\ ep' = [ep EXCEPT ![h] = settings]
  /\ MoveTo(h, IF settings.enabled THEN "token" ELSE "post")
  /\ UNCHANGED << settings, saved, key, token, answer, sessions, sent, gos, told >>

PresentmentStart(p, b) ==
  /\ Begin(p, p)
  /\ bill' = [bill EXCEPT ![p] = b]

PayStart(y, t) ==
  /\ t \in sessions
  /\ Begin(y, t)
  /\ UNCHANGED bill

Shown(s, hosts) == { [host |-> x, what |-> s.client] : x \in hosts }

TokenBy(h, s) ==
  /\ pc[h] = "token"
  /\ told' = told \cup Shown(s, Asked(s))
  /\ token' = [token EXCEPT ![h] = TokenFor(s)]
  /\ IF TokenFor(s) # None
       THEN MoveTo(h, "post") /\ UNCHANGED answer
       ELSE Answer(h, 401)
  /\ UNCHANGED << settings, saved, key, browser, sessions, sent, gos >>

\* Slip: the token is asked for by the settings of the moment.
MutToken(h) == TokenBy(h, settings)

\* GOClient.Token: the credentials go out, the token or the refusal comes back.
Token(h) == TokenBy(h, ep[h])

\* The token endpoint or its IDP cannot be reached, or its answer is lost.
TokenFails(h) ==
  /\ pc[h] = "token"
  /\ \E seen \in {{}, {TokenEndpoint(ep[h])}, Asked(ep[h])} :
       told' = told \cup Shown(ep[h], seen)
  /\ Answer(h, 502)
  /\ UNCHANGED << settings, saved, key, browser, token, sessions, sent, gos >>

PostTo(h, s) ==
  /\ pc[h] = "post"
  /\ sent' = [sent EXCEPT ![h] = [go |-> s.baseURL, token |-> token[h], key |-> key]]
  /\ told' = told \cup
       { [host |-> s.baseURL, what |-> tok] : tok \in {token[h]} \ {None} }
  /\ MoveTo(h, "await")
  /\ UNCHANGED << settings, saved, key, browser, token, answer, sessions, gos >>

\* Slip: the call goes by the settings of the moment, not by the copy.
MutPost(h) == PostTo(h, settings)

\* GOClient.post: token and data, under a key encrypted for the GO.
Post(h) == PostTo(h, ep[h])

\* Slip: a session for whatever the GO answered.
MutReceive(h) ==
  /\ pc[h] = "await"
  /\ verdict[h] # None
  /\ Answer(h, verdict[h])
  /\ sessions' = IF h \in Pays THEN sessions \ {txn[h]} ELSE sessions \cup {h}
  /\ UNCHANGED << settings, saved, key, browser, token, sent, gos, told >>

\* The GO's answer; only a confirmed request changes the sessions.
Receive(h) ==
  /\ pc[h] = "await"
  /\ verdict[h] # None
  /\ Answer(h, verdict[h])
  /\ sessions' = IF verdict[h] # 200     THEN sessions
                 ELSE IF h \in Pays      THEN sessions \ {txn[h]}
                 ELSE sessions \cup {h}
  /\ UNCHANGED << settings, saved, key, browser, token, sent, gos, told >>

\* No usable answer: the call may be judged all the same.
GiveUp(h) ==
  /\ pc[h] = "await"
  /\ Answer(h, 502)
  /\ UNCHANGED << settings, saved, key, browser, token, sessions, sent, gos, told >>

-----------------------------------------------------------------------------
(* The GOs *)

\* Slip: a bearer that the verifier rejects goes through.
MutVerdictOn(h) ==
  LET call == sent[h]
  IN  CASE call.token = None -> 401
        [] call.token # None /\ ~Decrypts(call.go, call.key) -> 401
        [] call.token # None /\ Decrypts(call.go, call.key) ->
             IF bill[txn[h]] \in paid[call.go] THEN 409 ELSE 200

\* decryptRequest: the bearer, then the key (DecryptTransactionKey); then the
\* paid flag of this GO.
VerdictOn(h) ==
  LET call == sent[h]
  IN  IF \/ ~Authorized(call.go, call.token)
         \/ ~Decrypts(call.go, call.key)         THEN 401
      ELSE IF bill[txn[h]] \in paid[call.go]     THEN 409
      ELSE 200

Judge(h) ==
  /\ sent[h] # None /\ verdict[h] = None
  /\ verdict' = [verdict EXCEPT ![h] = VerdictOn(h)]
  /\ paid' = IF h \in Pays /\ VerdictOn(h) = 200
               THEN [paid EXCEPT ![sent[h].go] = @ \cup {bill[txn[h]]}] ELSE paid
  /\ UNCHANGED << settings, saved, key, pc, browser, token, answer, sessions,
                  sent, told >>

-----------------------------------------------------------------------------
Step(h) == \/ Token(h) \/ TokenFails(h) \/ Post(h) \/ Receive(h) \/ GiveUp(h)

Next ==
  \/ \E s \in Choices : Save(s)
  \/ \E p \in Presentments, b \in Bills : PresentmentStart(p, b)
  \/ \E y \in Pays, t \in Presentments : PayStart(y, t)
  \/ \E h \in Handlers : Step(h) \/ Judge(h)

Spec == Init /\ [][Next]_vars

-----------------------------------------------------------------------------
(* Safety *)

\* However the settings change meanwhile, a client secret reaches only hosts
\* that some saved settings name for it (with the IDP behind a GO), and a token
\* only the GO of settings it was obtained under: the parts of two settings are
\* never mixed (Snapshot, tokenEndpoint, post).
SecretsStay ==
  \A d \in told : \E s \in saved :
    /\ s.enabled
    /\ \/ d.what = s.client /\ d.host \in Asked(s)
       \/ d.what = TokenFor(s) /\ d.host = s.baseURL

\* Settings that fit together: their token is issued and accepted by their GO,
\* and the key GovPay+ has loaded is that GO's.
Coherent(s) ==
  /\ s.enabled
  /\ Authorized(s.baseURL, TokenFor(s))
  /\ Decrypts(s.baseURL, key)

\* A request stands and falls with the settings it started under, never with
\* those saved while it runs: 401 means they do not fit together, and a GO lets
\* a request past its checks only if they do.
JudgedByOwnSettings ==
  \A h \in Handlers :
    /\ answer[h] = 401 => ~Coherent(ep[h])
    /\ verdict[h] \in {200, 409} => Coherent(ep[h])

\* A bill is paid twice only where the administrator has redirected the payments
\* in between: at two GOs, by pays that started under different settings.  A pay
\* whose answer was lost and that is retried under the same settings is not.  A
\* restart of a GO, after which it takes a payment again too, is left out here.
PaidTwiceOnlyElsewhere ==
  \A y, z \in Pays :
    (/\ y # z
     /\ verdict[y] = 200 /\ verdict[z] = 200
     /\ bill[txn[y]] = bill[txn[z]])
    => sent[y].go # sent[z].go /\ ep[y] # ep[z]

=============================================================================
