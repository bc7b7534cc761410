------------------------------- MODULE GovPay -------------------------------
(***************************************************************************)
(* The GovPay+ mock (src/server) and the GO it calls.  A browser looks a   *)
(* bill up (/api/presentment) and pays it (/api/pay); each request has a   *)
(* handler goroutine that calls the GO over HTTP.  The GO is AtomicGO,     *)
(* which GOServer implements.  A call may be judged late, its answer may   *)
(* never come, GovPay+ may stop waiting while the GO goes on, and either   *)
(* process may restart: both keep their state in memory only.              *)
(*                                                                         *)
(* A transaction ID is drawn at random for each presentment; here it is    *)
(* the presentment that drew it.                                           *)
(***************************************************************************)
EXTENDS GORequests

CONSTANTS
  Presentments,  \* requests to /api/presentment
  Pays,          \* requests to /api/pay
  Payable,       \* the bills presented with an amount greater than zero
  NoTxn, NoRequest, NoSession,
  MaxRestarts    \* bound on the restarts of each process

Handlers == Presentments \cup Pays

ASSUME HandlersAssumption == Presentments \cap Pays = {}
ASSUME NoneAssumption     == NoTxn \notin Presentments /\ NoRequest \notin Requests
ASSUME PayableAssumption  == Payable \subseteq Bills
ASSUME BoundAssumption    == MaxRestarts \in Nat
\* GovPay+ puts a refNo in every request: handlePresentment refuses an empty one
\* and extractReturnData adds a missing one.
ASSUME NamedAssumption    == \A f \in Faults : "refNo" \notin f

BadGateway == 502
Answers == Statuses \cup {BadGateway}

\* txnSession: the bill presented, and how many times the values of ReturnData
\* are encrypted (they are kept in clear).
TxnSessions == [ref : RefNos, layers : Nat]

ASSUME SessionAssumption == NoSession \notin TxnSessions

VARIABLES
  pc,        \* handler -> where it is
  ref,       \* presentment -> the refNo the browser asked for
  txn,       \* handler -> the transaction it works for
  answer,    \* handler -> the status the browser gets
  session,   \* transaction -> the txnSession made for it, or NoSession
  sessions,  \* the keys of Server.sessions
  asked, verdict, lost, paid,   \* the GO, see AtomicGO
  goEpoch,   \* incarnation of the GO
  epoch,     \* incarnation of GovPay+
  judgedIn,  \* history: handler -> GO incarnation that judged its call
  born       \* history: handler -> GovPay+ incarnation that received it

goVars == << asked, verdict, lost, paid, goEpoch, judgedIn >>
vars == << pc, ref, txn, answer, session, sessions, epoch, born, goVars >>

GO == INSTANCE AtomicGO WITH Calls <- Handlers

Places == {"idle", "bearer", "post", "await", "record", "done", "dead"}
Running(h) == pc[h] \in {"bearer", "post", "await", "record"}

TypeOK ==
  /\ pc \in [Handlers -> Places]
  /\ ref \in [Presentments -> RefNos \cup {NoRequest}]
  /\ txn \in [Handlers -> Presentments \cup {NoTxn}]
  /\ answer \in [Handlers -> Answers]
  /\ session \in [Presentments -> TxnSessions \cup {NoSession}]
  /\ sessions \in SUBSET { t \in Presentments : session[t] # NoSession }
  /\ GO!TypeOK
  /\ goEpoch \in 0..MaxRestarts /\ epoch \in 0..MaxRestarts
  /\ judgedIn \in [Handlers -> 0..MaxRestarts]
  /\ born \in [Handlers -> 0..MaxRestarts]

Init ==
  /\ pc = [h \in Handlers |-> "idle"]
  /\ ref = [p \in Presentments |-> NoRequest]
  /\ txn = [h \in Handlers |-> NoTxn]
  /\ answer = [h \in Handlers |-> NotYet]
  /\ session = [t \in Presentments |-> NoSession]
  /\ sessions = {}
  /\ GO!Init
  /\ goEpoch = 0 /\ epoch = 0
  /\ judgedIn = [h \in Handlers |-> 0]
  /\ born = [h \in Handlers |-> 0]

-----------------------------------------------------------------------------
(* The handlers of GovPay+ *)

MoveTo(h, place) == pc' = [pc EXCEPT ![h] = place] /\ UNCHANGED answer

\* writeErr, writeGOErr or writeJSON: the browser has its answer.
Answer(h, s) ==
  /\ pc' = [pc EXCEPT ![h] = "done"]
  /\ answer' = [answer EXCEPT ![h] = s]

Begin(h, t) ==
  /\ pc[h] = "idle"
  /\ txn' = [txn EXCEPT ![h] = t]
  /\ born' = [born EXCEPT ![h] = epoch]

\* handlePresentment up to the token: an empty refNo or an unknown service is
\* refused without a call to the GO.
PresentmentStart(p, r, valid) ==
  /\ Begin(p, p)
  /\ ref' = [ref EXCEPT ![p] = r]
  /\ IF valid THEN MoveTo(p, "bearer") ELSE Answer(p, 400)
  /\ UNCHANGED << session, sessions, epoch, goVars >>

\* handlePay up to the token: the session is read under the mutex and used
\* after it is released.
PayStart(h, t) ==
  /\ Begin(h, t)
  /\ IF t \notin sessions                   THEN Answer(h, NotFound)
     ELSE IF session[t].ref \notin Payable  THEN Answer(h, 400)
     ELSE MoveTo(h, "bearer")
  /\ UNCHANGED << ref, session, sessions, epoch, goVars >>

\* Server.bearer: no token is needed, one is obtained, or the token endpoint
\* refuses (its status is passed on) or cannot be reached.
Bearer(h) ==
  /\ pc[h] = "bearer"
  /\ \/ MoveTo(h, "post")
     \/ \E s \in {401, BadGateway} : Answer(h, s)
  /\ UNCHANGED << ref, txn, session, sessions, epoch, born, goVars >>

\* GOClient.post of a presentment: the refNo travels encrypted once.
PostPresentment(p) ==
  /\ p \in Presentments
  /\ pc[p] = "post"
  /\ \E f \in Faults :
       GO!Ask(p, [op |-> "presentment", ref |-> ref[p], fails |-> f])
  /\ MoveTo(p, "await")
  /\ UNCHANGED << ref, txn, session, sessions, epoch, born, goEpoch, judgedIn >>

\* The GO decrypts every name and value once, so under any other number of
\* encryptions it finds no item called refNo.
Unreadable(layers) == IF layers = 1 THEN {} ELSE {"refNo"}

\* Slip: no copy, the session's own values are encrypted in place.
MutPostUpdateInPlace(h) ==
  /\ h \in Pays
  /\ pc[h] = "post"
  /\ LET sess == session[txn[h]]
     IN  \E f \in Faults :
           GO!Ask(h, [op    |-> "update",
                      ref   |-> sess.ref,
                      fails |-> f \cup Unreadable(sess.layers + 1)])
  /\ session' = [session EXCEPT ![txn[h]].layers = @ + 1]
  /\ MoveTo(h, "await")
  /\ UNCHANGED << ref, txn, sessions, epoch, born, goEpoch, judgedIn >>

\* handlePay copies the session's ReturnData, and GOClient.post encrypts the
\* copy in place: the session keeps its values in clear for a retry.  The
\* handler holds the txnSession even if another pay has removed it meanwhile.
PostUpdate(h) ==
  /\ h \in Pays
  /\ pc[h] = "post"
  /\ LET sess == session[txn[h]]
     IN  \E f \in Faults :
           GO!Ask(h, [op    |-> "update",
                      ref   |-> sess.ref,
                      fails |-> f \cup Unreadable(sess.layers + 1)])
  /\ MoveTo(h, "await")
  /\ UNCHANGED << ref, txn, session, sessions, epoch, born, goEpoch, judgedIn >>

\* Slip: the status of the answer is not looked at.
MutReceiveAnyStatus(h) ==
  /\ pc[h] = "await"
  /\ verdict[h] # NotYet
  /\ MoveTo(h, "record")
  /\ UNCHANGED << ref, txn, session, sessions, epoch, born, goVars >>

\* The GO's answer arrives: an error status is passed on to the browser.
Receive(h) ==
  /\ pc[h] = "await"
  /\ verdict[h] # NotYet
  /\ IF verdict[h] = OK THEN MoveTo(h, "record") ELSE Answer(h, verdict[h])
  /\ UNCHANGED << ref, txn, session, sessions, epoch, born, goVars >>

\* Slips: the error is ignored; it is reported as a refusal; no timeout.
MutGiveUpIgnored(h) ==
  /\ pc[h] = "await"
  /\ MoveTo(h, "record")
  /\ UNCHANGED << ref, txn, session, sessions, epoch, born, goVars >>

MutGiveUpAsRefusal(h) ==
  /\ pc[h] = "await"
  /\ Answer(h, 400)
  /\ UNCHANGED << ref, txn, session, sessions, epoch, born, goVars >>

MutGiveUpNever(h) ==
  /\ pc[h] = "await" /\ verdict[h] = OK
  /\ Answer(h, BadGateway)
  /\ UNCHANGED << ref, txn, session, sessions, epoch, born, goVars >>

\* No usable answer: refused or broken connection, the client's 15 s timeout,
\* the browser gone, an undecodable body.  The GO may judge the call anyway.
GiveUp(h) ==
  /\ pc[h] = "await"
  /\ Answer(h, BadGateway)
  /\ UNCHANGED << ref, txn, session, sessions, epoch, born, goVars >>

\* Slip: the map gets a key without a session.
MutRecordNoSession(p) ==
  /\ p \in Presentments
  /\ pc[p] = "record"
  /\ sessions' = sessions \cup {p}
  /\ Answer(p, OK)
  /\ UNCHANGED << ref, txn, session, epoch, born, goVars >>

\* handlePresentment stores the session, then answers.
RecordPresentment(p) ==
  /\ p \in Presentments
  /\ pc[p] = "record"
  /\ session' = [session EXCEPT ![p] = [ref |-> ref[p], layers |-> 0]]
  /\ sessions' = sessions \cup {p}
  /\ Answer(p, OK)
  /\ UNCHANGED << ref, txn, epoch, born, goVars >>

\* handlePay deletes the session, then answers.
RecordPay(h) ==
  /\ h \in Pays
  /\ pc[h] = "record"
  /\ sessions' = sessions \ {txn[h]}
  /\ UNCHANGED session
  /\ Answer(h, OK)
  /\ UNCHANGED << ref, txn, epoch, born, goVars >>

\* GovPay+ restarts: NewServer starts with no session, its handlers are gone.
Restart ==
  /\ epoch < MaxRestarts
  /\ epoch' = epoch + 1
  /\ sessions' = {}
  /\ UNCHANGED session
  /\ pc' = [h \in Handlers |-> IF Running(h) THEN "dead" ELSE pc[h]]
  /\ UNCHANGED << ref, txn, answer, born, goVars >>

-----------------------------------------------------------------------------
(* The GO *)

\* The GO judges a call, whether or not GovPay+ still waits for the answer.
GODecide(h) ==
  /\ GO!Decide(h)
  /\ judgedIn' = [judgedIn EXCEPT ![h] = goEpoch]
  /\ UNCHANGED << pc, ref, txn, answer, session, sessions, epoch, born, goEpoch >>

GORestart ==
  /\ goEpoch < MaxRestarts
  /\ goEpoch' = goEpoch + 1
  /\ GO!Reset
  /\ UNCHANGED << pc, ref, txn, answer, session, sessions, epoch, born, judgedIn >>

-----------------------------------------------------------------------------
Step(h) == \/ Bearer(h) \/ PostPresentment(h) \/ PostUpdate(h) \/ Receive(h)
           \/ GiveUp(h) \/ RecordPresentment(h) \/ RecordPay(h)

Next ==
  \/ \E p \in Presentments, r \in RefNos, valid \in BOOLEAN :
       PresentmentStart(p, r, valid)
  \/ \E h \in Pays, t \in Presentments : PayStart(h, t)
  \/ \E h \in Handlers : Step(h)
  \/ \E h \in Handlers : GODecide(h)
  \/ Restart
  \/ GORestart

Spec == Init /\ [][Next]_vars

\* Goroutines run, and a GO call ends in an answer or in the client's timeout.
\* Nothing is assumed of the GO or of the network.
Fairness == \A h \in Handlers : WF_vars(Step(h))

FairSpec == Spec /\ Fairness

-----------------------------------------------------------------------------
(* Safety *)

\* Whatever was retried, given up or answered late, over any transactions: two
\* payers are never both told "paid" for one bill by one incarnation of the GO
\* (handlePay, MarkPaid).
OneReceiptPerBill ==
  \A h, k \in Pays :
    (/\ answer[h] = OK /\ answer[k] = OK
     /\ ref[txn[h]] = ref[txn[k]]
     /\ judgedIn[h] = judgedIn[k]) => h = k

\* A receipt is backed: the GO incarnation that confirmed the payment, while it
\* lives, holds that very bill as paid, and the bill is the one presented.
ReceiptIsBacked ==
  \A h \in Pays : answer[h] = OK /\ judgedIn[h] = goEpoch => ref[txn[h]] \in paid

\* The update names, in a form the GO can read, the bill presented under its
\* transaction, also when it retries an update that failed: encrypting the first
\* attempt in place has not touched the session (handlePay copies ReturnData,
\* EncryptParams overwrites).
UpdateNamesPresentedBill ==
  \A h \in Pays : asked[h] # NoRequest =>
    /\ asked[h].ref = asked[txn[h]].ref
    /\ "refNo" \notin asked[h].fails

\* A pay refused because the bill is paid has a cause: another update paid that
\* bill in that GO incarnation.  After a lost answer it may be the payer's own.
RefusalHasCause ==
  \A h \in Handlers : verdict[h] = Conflict =>
    \E k \in Pays \ {h} : /\ verdict[k] = OK
                          /\ asked[k].ref = asked[h].ref
                          /\ judgedIn[k] = judgedIn[h]

-----------------------------------------------------------------------------
(* Liveness *)

\* The browser gets an answer to every request, even if the GO never gives one,
\* unless GovPay+ restarts.
EveryRequestAnswered ==
  \A h \in Handlers : Running(h) ~> pc[h] \in {"done", "dead"}

\* handlePay answers "unknown or expired transaction": a transaction does not
\* stay open for ever.
TransactionsExpire ==
  \A t \in Presentments : t \in sessions ~> t \notin sessions

-----------------------------------------------------------------------------
(* Refinement *)

\* What the browser knows of a request: an answer 502, or none because GovPay+
\* restarted, leaves open whether the GO took the call.
Outcome(s) == IF s = OK THEN "ok" ELSE IF s = BadGateway THEN "unknown" ELSE "refused"

Told(h) == CASE pc[h] = "idle" -> "none"
             [] Running(h)     -> "waiting"
             [] pc[h] = "dead" -> "unknown"
             [] pc[h] = "done" -> Outcome(answer[h])

Promised == INSTANCE Ledger WITH
  LookUps <- Presentments,
  NoRef   <- NoRequest,
  txn     <- [y \in Pays |-> txn[y]],
  answer  <- [h \in Handlers |-> Told(h)],
  open    <- sessions,
  granted <- { h \in Handlers : verdict[h] = OK }

\* Handlers, sessions, calls and timeouts implement the ledger: a transaction
\* can be paid from its look-up until a pay of it is confirmed or GovPay+
\* restarts, also after pays that failed; one that is confirmed is closed; a
\* request answered with a refusal pays nothing, then or later; and only
\* "unknown" leaves the outcome open (handlePresentment, handlePay, writeGOErr).
ImplementsLedger == Promised!Spec

=============================================================================
