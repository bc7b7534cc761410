-------------------------- MODULE EndpointsProofs ---------------------------
(***************************************************************************)
(* Proofs about Endpoints for any GOs and IDPs in any configuration, any   *)
(* settings an administrator may save and any number of requests: the      *)
(* inductive invariant IInv and the safety properties that follow.         *)
(***************************************************************************)
EXTENDS Endpoints, TLAPS

\* The bearer a request under settings s ends up with.
TokenOf(s) == IF s.enabled THEN TokenFor(s) ELSE None

\* A handler works with settings that were saved, and with them alone.
HandlerState ==
  \A h \in Handlers :
    /\ pc[h] = "idle" => token[h] = None /\ sent[h] = None
    /\ pc[h] # "idle" => /\ ep[h] \in saved
                         /\ txn[h] \in Presentments /\ pc[txn[h]] # "idle"
                         /\ h \in Presentments => bill[h] \in Bills
    /\ pc[h] = "token" => ep[h].enabled /\ token[h] = None /\ sent[h] = None
    /\ pc[h] = "post" => token[h] = TokenOf(ep[h]) /\ sent[h] = None
    /\ sent[h] # None =>
         /\ pc[h] \in {"await", "done"}
         /\ sent[h] = [go |-> ep[h].baseURL, token |-> TokenOf(ep[h]), key |-> key]
    /\ sent[h] = None => verdict[h] = None
    /\ answer[h] # None => pc[h] = "done"

\* A GO judges by the settings of the handler.
VerdictState ==
  \A h \in Handlers :
    /\ verdict[h] \in {200, 409} => Coherent(ep[h])
    /\ verdict[h] = 401 \/ answer[h] = 401 => ~Coherent(ep[h])

\* Each GO remembers the payments it took and takes none of the same bill again.
PaidState ==
  \A y \in Pays : verdict[y] = 200 =>
    /\ bill[txn[y]] \in paid[sent[y].go]
    /\ \A z \in Pays \ {y} :
         verdict[z] = 200 /\ bill[txn[z]] = bill[txn[y]] => sent[z].go # sent[y].go

IInv == /\ TypeOK
        /\ settings \in saved
        /\ HandlerState
        /\ VerdictState
        /\ PaidState
        /\ SecretsStay

-----------------------------------------------------------------------------
(* Where a token comes from *)

\* The way of a token stays among the known hosts and ends in a token or in none.
LEMMA TokenType ==
  ASSUME NEW s \in Settings
  PROVE  /\ Asked(s) \subseteq Hosts /\ TokenEndpoint(s) \in Asked(s)
         /\ TokenFor(s) \in Tokens \cup {None}
<1>1. TokenEndpoint(s) \in Hosts
  BY DEF Settings, TokenEndpoint, Hosts
<1>2. Decider(TokenEndpoint(s)) \in Hosts
  BY <1>1, ConfAssumption DEF Decider, Configs, Hosts
<1> QED
  BY <1>1, <1>2 DEF Asked, TokenFor, Tokens, Settings

\* Without a token nothing fits.
LEMMA NoTokenNoFit ==
  ASSUME NEW s, TokenOf(s) = None
  PROVE  ~Coherent(s)
BY DEF TokenOf, Coherent, Authorized

\* A call that a GO has judged, or that is on its way there, carries the settings
\* of a handler at work for a look-up of a bill.
LEMMA CallOf ==
  ASSUME IInv, NEW h \in Handlers, sent[h] # None
  PROVE  /\ pc[h] \in {"await", "done"} /\ ep[h] \in Settings
         /\ sent[h] = [go |-> ep[h].baseURL, token |-> TokenOf(ep[h]), key |-> key]
         /\ sent[h].go \in GOs
         /\ txn[h] \in Presentments /\ pc[txn[h]] # "idle" /\ bill[txn[h]] \in Bills
<1>1. pc[h] # "idle"
  BY DEF IInv, HandlerState
<1>2. ep[h] \in Settings
  BY <1>1 DEF IInv, TypeOK, HandlerState
<1>3. txn[h] \in Presentments /\ pc[txn[h]] # "idle"
  BY <1>1 DEF IInv, HandlerState
<1>4. bill[txn[h]] \in Bills
  BY <1>3 DEF IInv, HandlerState, Handlers
<1>5. /\ pc[h] \in {"await", "done"}
      /\ sent[h] = [go |-> ep[h].baseURL, token |-> TokenOf(ep[h]), key |-> key]
  BY DEF IInv, HandlerState
<1> QED
  BY <1>2, <1>3, <1>4, <1>5 DEF Settings

\* A verdict is one on a call.
LEMMA VerdictOnCall ==
  ASSUME IInv, NEW h \in Handlers, verdict[h] \in Statuses
  PROVE  sent[h] # None
BY NoneAssumption DEF IInv, HandlerState

-----------------------------------------------------------------------------
LEMMA InitIInv == Init => IInv
<1> SUFFICES ASSUME Init PROVE IInv
  OBVIOUS
<1> USE DEF Init
<1>1. TypeOK
  <2>1. settings \in Settings /\ saved \in SUBSET Settings /\ key \in Keys
    BY ConfAssumption
  <2>2. /\ pc \in [Handlers -> Places] /\ paid \in [GOs -> SUBSET Bills]
        /\ sessions \in SUBSET { t \in Presentments : answer[t] = 200 }
        /\ told \in SUBSET Disclosures
    BY DEF Places
  <2>3. /\ txn \in [Handlers -> Presentments \cup {None}]
        /\ bill \in [Presentments -> Bills \cup {None}]
        /\ ep \in [Handlers -> Settings \cup {None}]
        /\ token \in [Handlers -> Tokens \cup {None}]
    OBVIOUS
  <2>4. /\ answer \in [Handlers -> Statuses \cup {None}]
        /\ sent \in [Handlers -> Calls \cup {None}]
        /\ verdict \in [Handlers -> {200, 401, 409, None}]
    OBVIOUS
  <2> HIDE DEF Init
  <2> QED
    BY <2>1, <2>2, <2>3, <2>4 DEF TypeOK
<1>2. HandlerState
  BY DEF HandlerState
<1>3. VerdictState /\ PaidState /\ SecretsStay
  BY NoneAssumption DEF Statuses, VerdictState, PaidState, SecretsStay, Handlers
<1> QED
  BY <1>1, <1>2, <1>3 DEF IInv

-----------------------------------------------------------------------------
(* Every action preserves the inductive invariant. *)

LEMMA SavePreserves ==
  ASSUME IInv, NEW s \in Choices, Save(s)
  PROVE  IInv'
<1> USE DEF Save, browser, gos
<1>1. TypeOK'
  BY ConfAssumption DEF IInv, TypeOK
<1>2. HandlerState'
  BY DEF IInv, HandlerState
<1>3. VerdictState' /\ PaidState' /\ SecretsStay'
  BY DEF IInv, VerdictState, Coherent, PaidState, SecretsStay
<1> QED
  BY <1>1, <1>2, <1>3 DEF IInv

\* The copy of the settings is one of those saved, and stays so.
LEMMA BeginPreserves ==
  ASSUME IInv, NEW h \in Handlers, NEW t \in Presentments, Begin(h, t),
         pc[t] # "idle" \/ t = h,
         \/ bill' = bill /\ h \notin Presentments
         \/ h \in Presentments /\ \E b \in Bills : bill' = [bill EXCEPT ![h] = b]
  PROVE  IInv'
<1> USE DEF Begin, MoveTo, gos
<1>1. /\ pc[h] = "idle" /\ token[h] = None /\ sent[h] = None /\ verdict[h] = None
      /\ answer[h] = None /\ t \in Handlers
  BY DEF IInv, HandlerState, Handlers
<1>2. /\ pc'[h] = IF settings.enabled THEN "token" ELSE "post"
      /\ ep'[h] = settings /\ txn'[h] = t
      /\ \A k \in Handlers \ {h} :
           pc'[k] = pc[k] /\ ep'[k] = ep[k] /\ txn'[k] = txn[k]
  BY DEF IInv, TypeOK
<1>3. \A p \in Presentments \ {h} : bill'[p] = bill[p]
  BY DEF IInv, TypeOK
<1>4. TypeOK'
  BY DEF IInv, TypeOK, Places
<1>5. HandlerState'
  BY <1>1, <1>2, <1>3 DEF IInv, TypeOK, HandlerState, TokenOf, Handlers
<1>6. VerdictState'
  BY <1>1, <1>2, NoneAssumption DEF IInv, VerdictState, Coherent, Statuses
<1>7. PaidState'
  <2>1. \A y \in Pays : verdict[y] = 200 => y # h /\ txn[y] \in Presentments \ {h}
    <3> SUFFICES ASSUME NEW y \in Pays, verdict[y] = 200
                 PROVE  y # h /\ txn[y] \in Presentments \ {h}
      OBVIOUS
    <3>1. y \in Handlers /\ verdict[y] \in Statuses
      BY DEF Handlers, Statuses
    <3>2. sent[y] # None
      BY <3>1, VerdictOnCall
    <3>3. txn[y] \in Presentments /\ pc[txn[y]] # "idle"
      BY <3>1, <3>2, CallOf
    <3> QED
      BY <1>1, <3>2, <3>3
  <2> QED
    BY <1>2, <1>3, <2>1 DEF IInv, PaidState, Handlers
<1>8. SecretsStay'
  BY DEF IInv, SecretsStay
<1> QED
  BY <1>4, <1>5, <1>6, <1>7, <1>8 DEF IInv

\* The credentials go where the copied settings say, and so does the refusal.
LEMMA TokenPreserves ==
  ASSUME IInv, NEW h \in Handlers, Token(h) \/ TokenFails(h)
  PROVE  IInv'
<1> USE DEF Token, TokenBy, TokenFails, MoveTo, Answer, browser, gos
<1>1. /\ pc[h] = "token" /\ ep[h] \in saved /\ ep[h] \in Settings /\ ep[h].enabled
      /\ token[h] = None /\ sent[h] = None /\ verdict[h] = None
      /\ TokenOf(ep[h]) = TokenFor(ep[h])
  BY DEF IInv, TypeOK, HandlerState, TokenOf
<1>2. PICK hosts \in SUBSET Asked(ep[h]) : told' = told \cup Shown(ep[h], hosts)
  BY <1>1, TokenType
<1>3. Asked(ep[h]) \subseteq Hosts /\ TokenFor(ep[h]) \in Tokens \cup {None}
  BY <1>1, TokenType
<1>4. TypeOK'
  <2>1. told' \in SUBSET Disclosures
    BY <1>1, <1>2, <1>3 DEF IInv, TypeOK, Shown, Disclosures, Settings
  <2>2. /\ pc' \in [Handlers -> Places]
        /\ token' \in [Handlers -> Tokens \cup {None}]
        /\ answer' \in [Handlers -> Statuses \cup {None}]
    BY <1>3 DEF IInv, TypeOK, Places, Statuses
  <2>3. answer[h] = None
    BY <1>1 DEF IInv, HandlerState
  <2>4. sessions' \in SUBSET { t \in Presentments : answer'[t] = 200 }
    BY <2>3, NoneAssumption DEF IInv, TypeOK, Statuses, Handlers
  <2> QED
    BY <2>1, <2>2, <2>4 DEF IInv, TypeOK
<1>5. HandlerState'
  <2>1. /\ pc'[h] \in {"post", "done"}
        /\ pc'[h] = "post" => token'[h] = TokenOf(ep[h])
        /\ \A k \in Handlers \ {h} :
             pc'[k] = pc[k] /\ token'[k] = token[k] /\ answer'[k] = answer[k]
    BY <1>1 DEF IInv, TypeOK
  <2>2. answer'[h] # None => pc'[h] = "done"
    BY <1>1 DEF IInv, TypeOK, HandlerState
  <2>3. \A k \in Handlers : pc'[k] = "idle" => pc[k] = "idle"
    BY <2>1
  <2>4. \A k \in Handlers : pc[k] = "idle" => pc'[k] = "idle"
    BY <1>1, <2>1
  <2> HIDE DEF Token, TokenBy, TokenFails, MoveTo, Answer
  <2>5. UNCHANGED << settings, saved, key, txn, bill, ep, sent, verdict >>
    BY DEF Token, TokenBy, TokenFails
  <2> QED
    BY <1>1, <2>1, <2>2, <2>3, <2>4, <2>5 DEF IInv, HandlerState, Handlers
<1>6. VerdictState'
  BY <1>1, NoTokenNoFit, NoneAssumption DEF IInv, TypeOK, VerdictState, Coherent, Statuses
<1>7. PaidState'
  BY DEF IInv, PaidState
<1>8. SecretsStay'
  BY <1>1, <1>2 DEF IInv, SecretsStay, Shown
<1> QED
  BY <1>4, <1>5, <1>6, <1>7, <1>8 DEF IInv

LEMMA PostPreserves ==
  ASSUME IInv, NEW h \in Handlers, Post(h)
  PROVE  IInv'
<1> USE DEF Post, PostTo, MoveTo, browser, gos
<1>1. /\ pc[h] = "post" /\ ep[h] \in saved /\ ep[h] \in Settings
      /\ token[h] = TokenOf(ep[h]) /\ sent[h] = None /\ verdict[h] = None
      /\ answer[h] = None /\ token[h] \in Tokens \cup {None}
  BY DEF IInv, TypeOK, HandlerState
<1>2. ep[h].baseURL \in GOs /\ ep[h].baseURL \in Hosts
  BY <1>1 DEF Settings, Hosts
<1>3. TypeOK'
  <2>1. [go |-> ep[h].baseURL, token |-> token[h], key |-> key] \in Calls
    BY <1>1, <1>2 DEF IInv, TypeOK, Calls
  <2>2. told' \in SUBSET Disclosures
    BY <1>1, <1>2 DEF IInv, TypeOK, Disclosures
  <2> QED
    BY <2>1, <2>2 DEF IInv, TypeOK, Places
<1>4. HandlerState'
  BY <1>1 DEF IInv, TypeOK, HandlerState
<1>5. VerdictState'
  BY DEF IInv, VerdictState, Coherent
<1>6. PaidState'
  BY <1>1, NoneAssumption DEF IInv, TypeOK, PaidState, Handlers, Statuses
<1>7. SecretsStay'
  BY <1>1 DEF IInv, SecretsStay, TokenOf
<1> QED
  BY <1>3, <1>4, <1>5, <1>6, <1>7 DEF IInv

LEMMA AnswerPreserves ==
  ASSUME IInv, NEW h \in Handlers, Receive(h) \/ GiveUp(h)
  PROVE  IInv'
<1> USE DEF Receive, GiveUp, MoveTo, Answer, browser, gos
<1>1. pc[h] = "await" /\ answer[h] = None /\ h \notin sessions
  BY NoneAssumption DEF IInv, TypeOK, HandlerState, Statuses
<1>2. TypeOK'
  <2>1. sessions' \in SUBSET { t \in Presentments : answer'[t] = 200 }
    BY <1>1 DEF IInv, TypeOK, Handlers
  <2>2. answer' \in [Handlers -> Statuses \cup {None}]
    BY DEF IInv, TypeOK, Statuses
  <2> QED
    BY <2>1, <2>2 DEF IInv, TypeOK, Places
<1>3. HandlerState'
  <2>1. /\ pc'[h] = "done"
        /\ \A k \in Handlers \ {h} : pc'[k] = pc[k] /\ answer'[k] = answer[k]
    BY DEF IInv, TypeOK
  <2> HIDE DEF Receive, GiveUp, MoveTo, Answer
  <2>2. UNCHANGED << settings, saved, key, txn, bill, ep, token, sent, verdict >>
    BY DEF Receive, GiveUp
  <2> QED
    BY <1>1, <2>1, <2>2 DEF IInv, HandlerState, Handlers
<1>4. VerdictState'
  BY DEF IInv, TypeOK, VerdictState, Coherent
<1>5. PaidState' /\ SecretsStay'
  BY DEF IInv, PaidState, SecretsStay
<1> QED
  BY <1>2, <1>3, <1>4, <1>5 DEF IInv

\* The GO gets past its checks exactly if the settings fit, and takes a payment
\* only if it holds the bill as unpaid.
LEMMA JudgePreserves ==
  ASSUME IInv, NEW h \in Handlers, Judge(h)
  PROVE  IInv'
<1> USE DEF Judge, browser
<1>1. /\ sent[h] # None /\ verdict[h] = None
      /\ sent[h] = [go |-> ep[h].baseURL, token |-> TokenOf(ep[h]), key |-> key]
      /\ pc[h] \in {"await", "done"} /\ ep[h] \in Settings
      /\ txn[h] \in Presentments /\ bill[txn[h]] \in Bills
  BY DEF IInv, TypeOK, HandlerState, Handlers
<1>2. /\ verdict'[h] = VerdictOn(h)
      /\ \A k \in Handlers \ {h} : verdict'[k] = verdict[k]
      /\ VerdictOn(h) \in {200, 401, 409}
  BY DEF IInv, TypeOK, VerdictOn
<1>3. /\ VerdictOn(h) = 401 <=> ~Coherent(ep[h])
      /\ VerdictOn(h) = 200 => bill[txn[h]] \notin paid[sent[h].go]
  BY <1>1 DEF VerdictOn, Coherent, TokenOf, Authorized
<1>4. sent[h].go \in GOs
  BY <1>1 DEF Settings
<1>5. TypeOK'
  BY <1>1, <1>2, <1>4 DEF IInv, TypeOK
<1>6. HandlerState'
  BY <1>1, <1>2 DEF IInv, HandlerState
<1>7. VerdictState'
  BY <1>2, <1>3 DEF IInv, VerdictState, Coherent
<1>8. PaidState'
  <2>1. /\ \A g \in GOs : paid[g] \subseteq paid'[g]
        /\ h \in Pays /\ VerdictOn(h) = 200 => bill[txn[h]] \in paid'[sent[h].go]
    BY <1>4 DEF IInv, TypeOK
  <2>2. \A y \in Pays : verdict[y] = 200 => sent[y].go \in GOs
    <3> SUFFICES ASSUME NEW y \in Pays, verdict[y] = 200
                 PROVE  sent[y].go \in GOs
      OBVIOUS
    <3>1. y \in Handlers /\ verdict[y] \in Statuses
      BY DEF Handlers, Statuses
    <3>2. sent[y] # None
      BY <3>1, VerdictOnCall
    <3> QED
      BY <3>1, <3>2, CallOf
  <2> QED
    BY <1>2, <1>3, <2>1, <2>2 DEF IInv, PaidState, Handlers
<1>9. SecretsStay'
  BY DEF IInv, SecretsStay
<1> QED
  BY <1>5, <1>6, <1>7, <1>8, <1>9 DEF IInv

LEMMA NextIInv == IInv /\ [Next]_vars => IInv'
<1> SUFFICES ASSUME IInv, [Next]_vars PROVE IInv'
  OBVIOUS
<1>1. CASE UNCHANGED vars
  BY <1>1 DEF vars, browser, gos, IInv, TypeOK, HandlerState, VerdictState, Coherent,
     PaidState, SecretsStay
<1>2. ASSUME NEW p \in Presentments, NEW b \in Bills, PresentmentStart(p, b)
      PROVE  IInv'
  BY <1>2, BeginPreserves DEF PresentmentStart, Handlers
<1>3. ASSUME NEW y \in Pays, NEW t \in Presentments, PayStart(y, t)
      PROVE  IInv'
  <2>1. pc[t] # "idle"
    <3>1. t \in Handlers /\ answer[t] = 200
      BY <1>3 DEF PayStart, IInv, TypeOK, Handlers
    <3>2. answer[t] # None
      BY <3>1, NoneAssumption DEF Statuses
    <3> QED
      BY <3>1, <3>2 DEF IInv, HandlerState
  <2>2. y \in Handlers /\ y \notin Presentments
    BY HandlersAssumption DEF Handlers
  <2> QED
    BY <1>3, <2>1, <2>2, BeginPreserves DEF PayStart
<1> QED
  BY <1>1, <1>2, <1>3, SavePreserves, TokenPreserves, PostPreserves, AnswerPreserves,
     JudgePreserves
     DEF Next, Step

\* What IInv says holds always, however the settings change.
THEOREM Invariance == Spec => []IInv
<1> QED
  BY InitIInv, NextIInv, PTL DEF Spec

-----------------------------------------------------------------------------
(* The safety properties *)

\* Every variable keeps its type; only confirmed look-ups have a session.
THEOREM TypeCorrectness == Spec => []TypeOK
<1>1. IInv => TypeOK
  BY DEF IInv
<1> QED
  BY <1>1, Invariance, PTL

\* Secrets and tokens reach only hosts of settings they belong to.
THEOREM SecretsAreKept == Spec => []SecretsStay
<1>1. IInv => SecretsStay
  BY DEF IInv
<1> QED
  BY <1>1, Invariance, PTL

\* A request is judged by the settings it started under.
THEOREM OwnSettingsDecide == Spec => []JudgedByOwnSettings
<1>1. IInv => JudgedByOwnSettings
  BY DEF IInv, VerdictState, JudgedByOwnSettings
<1> QED
  BY <1>1, Invariance, PTL

\* Two payments of one bill went to two GOs, under different settings.
THEOREM SecondPaymentIsElsewhere == Spec => []PaidTwiceOnlyElsewhere
<1>1. IInv => PaidTwiceOnlyElsewhere
  <2> SUFFICES ASSUME IInv, NEW y \in Pays, NEW z \in Pays, y # z, verdict[y] = 200,
                      verdict[z] = 200, bill[txn[y]] = bill[txn[z]]
               PROVE  sent[y].go # sent[z].go /\ ep[y] # ep[z]
    BY DEF PaidTwiceOnlyElsewhere
  <2>1. sent[y].go # sent[z].go
    BY DEF IInv, PaidState
  <2>2. sent[y].go = ep[y].baseURL /\ sent[z].go = ep[z].baseURL
    <3>1. /\ y \in Handlers /\ verdict[y] \in Statuses
          /\ z \in Handlers /\ verdict[z] \in Statuses
      BY DEF Handlers, Statuses
    <3>2. sent[y] # None /\ sent[z] # None
      BY <3>1, VerdictOnCall
    <3>3. sent[y] = [go |-> ep[y].baseURL, token |-> TokenOf(ep[y]), key |-> key]
      BY <3>1, <3>2, CallOf
    <3>4. sent[z] = [go |-> ep[z].baseURL, token |-> TokenOf(ep[z]), key |-> key]
      BY <3>1, <3>2, CallOf
    <3> QED
      BY <3>3, <3>4
  <2> QED
    BY <2>1, <2>2
<1> QED
  BY <1>1, Invariance, PTL

=============================================================================
