---------------------------- MODULE GovPayProofs ----------------------------
(***************************************************************************)
(* Proofs about GovPay for every set of requests, bills and faults and any *)
(* number of restarts: the inductive invariant IInv, the safety properties *)
(* that follow from it, and the step simulation of the Ledger.             *)
(***************************************************************************)
EXTENDS GovPay, TLAPS

\* How far a handler has come, what it has asked the GO and what it answers.
HandlerState ==
  \A h \in Handlers :
    /\ pc[h] # "idle" => /\ txn[h] \in Presentments
                         /\ h \in Presentments => txn[h] = h /\ ref[h] \in RefNos
    /\ pc[h] \in {"idle", "bearer", "post"} => asked[h] = NoRequest
    /\ pc[h] \in {"await", "record"} => asked[h] # NoRequest
    /\ asked[h] = NoRequest => verdict[h] = NotYet
    /\ pc[h] = "record" => verdict[h] = OK
    /\ pc[h] # "done" => answer[h] = NotYet

\* What the browser is told agrees with the GO: "200" is the GO's, and a refusal
\* is the GO's too or was made before the GO was asked.
AnswerState ==
  \A h \in Handlers :
    /\ answer[h] = OK => verdict[h] = OK
    /\ pc[h] = "done" /\ answer[h] \notin {OK, BadGateway} =>
         asked[h] = NoRequest \/ verdict[h] \notin {NotYet, OK}

\* A session holds, in clear, the bill of the presentment that made it.
SessionState ==
  \A t \in Presentments : session[t] # NoSession =>
    /\ session[t] = [ref |-> ref[t], layers |-> 0]
    /\ pc[t] = "done" /\ asked[t] # NoRequest

\* A running pay holds a session with something to pay.
PayState ==
  \A h \in Pays : Running(h) =>
    session[txn[h]] # NoSession /\ ref[txn[h]] \in Payable

\* A call carries the bill of its transaction; an update comes from a session.
CallState ==
  \A h \in Handlers : asked[h] # NoRequest =>
    /\ pc[h] # "idle"
    /\ asked[h].op = IF h \in Presentments THEN "presentment" ELSE "update"
    /\ asked[h].ref = ref[txn[h]]
    /\ h \in Pays => session[txn[h]] # NoSession

\* The update of bill b that the incarnation e of the GO confirmed is h.
PaidBy(h, b, e) ==
  h \in Pays /\ verdict[h] = OK /\ asked[h].ref = b /\ judgedIn[h] = e

\* The flags of the present incarnation are those of its confirmed updates, and
\* no incarnation has confirmed two updates of one bill.
GOState ==
  /\ \A h \in Handlers : judgedIn[h] \in 0..goEpoch
  /\ \A b \in RefNos : b \in paid <=> \E h \in Pays : PaidBy(h, b, goEpoch)
  /\ \A h, k \in Pays, b \in RefNos, e \in 0..MaxRestarts :
       PaidBy(h, b, e) /\ PaidBy(k, b, e) => h = k

IInv == /\ TypeOK
        /\ HandlerState
        /\ AnswerState
        /\ SessionState
        /\ PayState
        /\ CallState
        /\ GOState
        /\ RefusalHasCause

LEMMA InitIInv == Init => IInv
<1> SUFFICES ASSUME Init PROVE IInv
  OBVIOUS
<1> USE DEF Init, GO!Init, GO!NotYet, NotYet, OK
<1>1. TypeOK
  <2>1. /\ 0 \in 0..MaxRestarts
        /\ NotYet \in Answers /\ NotYet \in GO!Statuses
    BY BoundAssumption DEF Answers, Statuses, GO!Statuses
  <2>2. GO!TypeOK
    BY <2>1 DEF GO!TypeOK
  <2> QED
    BY <2>1, <2>2 DEF TypeOK, Places
<1>2. HandlerState /\ AnswerState /\ CallState
  BY DEF HandlerState, AnswerState, CallState
<1>3. SessionState /\ PayState
  BY DEF SessionState, PayState, Running, Handlers
<1>4. GOState /\ RefusalHasCause
  BY BoundAssumption DEF GOState, PaidBy, RefusalHasCause, Conflict, Handlers
<1> QED
  BY <1>1, <1>2, <1>3, <1>4 DEF IInv

-----------------------------------------------------------------------------
(* Every action preserves the inductive invariant. *)

\* What is known of the GO stays true as long as GovPay+ acts without it.
LEMMA SameGO ==
  ASSUME IInv, UNCHANGED << asked, verdict, paid, goEpoch, judgedIn >>
  PROVE  GOState' /\ RefusalHasCause'
BY DEF IInv, GOState, PaidBy, RefusalHasCause

LEMMA PresentmentStartPreserves ==
  ASSUME IInv, NEW p \in Presentments, NEW r \in RefNos, NEW valid \in BOOLEAN,
         PresentmentStart(p, r, valid)
  PROVE  IInv'
<1> USE DEF PresentmentStart, Begin, MoveTo, Answer, goVars
<1>1. /\ p \in Handlers /\ pc[p] = "idle" /\ asked[p] = NoRequest
      /\ session[p] = NoSession
  BY DEF IInv, HandlerState, SessionState, Handlers
<1>2. TypeOK'
  BY <1>1 DEF IInv, TypeOK, Places, Answers, Statuses, Rejections, GO!TypeOK
<1>3. HandlerState' /\ AnswerState' /\ CallState'
  BY <1>1, HandlersAssumption
     DEF IInv, TypeOK, HandlerState, AnswerState, CallState, Handlers, OK, NotYet,
         BadGateway
<1>4. SessionState' /\ PayState'
  BY <1>1, HandlersAssumption
     DEF IInv, TypeOK, HandlerState, SessionState, PayState, Running, Handlers
<1> QED
  BY <1>2, <1>3, <1>4, SameGO DEF IInv

\* The session found under the mutex stays the pay's own, deleted or not.
LEMMA PayStartPreserves ==
  ASSUME IInv, NEW h \in Pays, NEW t \in Presentments, PayStart(h, t)
  PROVE  IInv'
<1> USE DEF PayStart, Begin, MoveTo, Answer, goVars
<1>1. /\ h \in Handlers /\ h \notin Presentments
      /\ pc[h] = "idle" /\ asked[h] = NoRequest
  BY HandlersAssumption DEF IInv, HandlerState, Handlers
<1>2. t \in sessions => session[t] # NoSession /\ session[t].ref = ref[t]
  BY DEF IInv, TypeOK, SessionState
<1>3. TypeOK'
  BY <1>1 DEF IInv, TypeOK, Places, Answers, Statuses, Rejections, NotFound, GO!TypeOK
<1>4. HandlerState' /\ AnswerState' /\ CallState'
  BY <1>1
     DEF IInv, TypeOK, HandlerState, AnswerState, CallState, Handlers, OK, NotYet,
         NotFound, BadGateway
<1>5. SessionState' /\ PayState'
  BY <1>1, <1>2 DEF IInv, TypeOK, SessionState, PayState, Running, Handlers
<1> QED
  BY <1>3, <1>4, <1>5, SameGO DEF IInv

LEMMA BearerPreserves ==
  ASSUME IInv, NEW h \in Handlers, Bearer(h)
  PROVE  IInv'
<1> USE DEF Bearer, MoveTo, Answer, goVars
<1>1. pc[h] = "bearer" /\ asked[h] = NoRequest
  BY DEF IInv, HandlerState
<1>2. TypeOK'
  BY DEF IInv, TypeOK, Places, Answers, Statuses, Rejections, BadGateway, GO!TypeOK
<1>3. HandlerState' /\ AnswerState' /\ CallState'
  BY <1>1
     DEF IInv, TypeOK, HandlerState, AnswerState, CallState, OK, NotYet, BadGateway
<1>4. SessionState' /\ PayState'
  BY <1>1 DEF IInv, TypeOK, SessionState, PayState, Running, Handlers
<1> QED
  BY <1>2, <1>3, <1>4, SameGO DEF IInv

\* A new call is not judged yet.
LEMMA AskKeepsGO ==
  ASSUME IInv, NEW h \in Handlers, NEW r, GO!Ask(h, r),
         UNCHANGED << goEpoch, judgedIn >>
  PROVE  GOState' /\ RefusalHasCause'
<1>1. verdict[h] = NotYet
  BY DEF IInv, HandlerState, GO!Ask
<1>2. \A k \in Handlers \ {h} : asked'[k] = asked[k]
  BY DEF IInv, TypeOK, GO!TypeOK, GO!Ask
<1>3. \A k \in Handlers : verdict[k] # NotYet => asked'[k] = asked[k]
  BY <1>1, <1>2
<1>4. verdict' = verdict /\ paid' = paid
  BY DEF GO!Ask
<1>5. \A k \in Handlers : \A b, e : PaidBy(k, b, e)' <=> PaidBy(k, b, e)
  BY <1>3, <1>4 DEF PaidBy, OK, NotYet
<1>6. GOState'
  BY <1>4, <1>5 DEF IInv, GOState, Handlers
<1>7. RefusalHasCause'
  BY <1>3, <1>4 DEF IInv, RefusalHasCause, Handlers, OK, NotYet, Conflict
<1> QED
  BY <1>6, <1>7

LEMMA PostPresentmentPreserves ==
  ASSUME IInv, NEW p \in Presentments, PostPresentment(p)
  PROVE  IInv'
<1> USE DEF MoveTo
<1>1. PICK f \in Faults : GO!Ask(p, [op |-> "presentment", ref |-> ref[p], fails |-> f])
  BY DEF PostPresentment
<1>2. /\ p \in Handlers /\ p \notin Pays /\ pc[p] = "post"
      /\ asked[p] = NoRequest /\ txn[p] = p /\ ref[p] \in RefNos
  BY HandlersAssumption DEF PostPresentment, IInv, HandlerState, Handlers
<1> DEFINE r == [op |-> "presentment", ref |-> ref[p], fails |-> f]
<1>3. r \in Requests /\ r # NoRequest
  BY <1>2, NoneAssumption DEF Requests, Ops
<1>4. asked' = [asked EXCEPT ![p] = r] /\ UNCHANGED << verdict, lost, paid >>
  BY <1>1 DEF GO!Ask
<1>5. TypeOK'
  BY <1>2, <1>3, <1>4
     DEF PostPresentment, IInv, TypeOK, Places, GO!TypeOK, GO!Requests, GO!Ops,
         Requests, Ops
<1>6. HandlerState' /\ AnswerState' /\ CallState'
  BY <1>2, <1>3, <1>4
     DEF PostPresentment, IInv, TypeOK, GO!TypeOK, HandlerState, AnswerState,
         CallState, OK, NotYet, BadGateway
<1>7. SessionState' /\ PayState'
  BY <1>2, <1>3, <1>4
     DEF PostPresentment, IInv, TypeOK, GO!TypeOK, SessionState, PayState, Running,
         Handlers
<1>8. GOState' /\ RefusalHasCause'
  BY <1>1, <1>2, AskKeepsGO DEF PostPresentment
<1> QED
  BY <1>5, <1>6, <1>7, <1>8 DEF IInv

\* The session's values are in clear, so the GO can read what they become.
LEMMA PostUpdatePreserves ==
  ASSUME IInv, NEW h \in Pays, PostUpdate(h)
  PROVE  IInv'
<1> USE DEF MoveTo
<1>1. /\ h \in Handlers /\ h \notin Presentments /\ pc[h] = "post"
      /\ asked[h] = NoRequest /\ txn[h] \in Presentments
      /\ session[txn[h]] = [ref |-> ref[txn[h]], layers |-> 0]
      /\ session[txn[h]] # NoSession /\ ref[txn[h]] \in Payable
  BY HandlersAssumption
     DEF PostUpdate, IInv, HandlerState, SessionState, PayState, Running, Handlers
<1>2. PICK f \in Faults :
        GO!Ask(h, [op |-> "update", ref |-> ref[txn[h]], fails |-> f \cup Unreadable(0 + 1)])
  <2>1. session[txn[h]].ref = ref[txn[h]] /\ session[txn[h]].layers = 0
    BY <1>1
  <2> QED
    BY <2>1, Zenon DEF PostUpdate
<1>3. f \cup Unreadable(0 + 1) = f
  BY DEF Unreadable
<1> DEFINE r == [op |-> "update", ref |-> ref[txn[h]], fails |-> f]
<1>4. r \in Requests /\ r # NoRequest
  BY <1>1, NoneAssumption, PayableAssumption, BillsAssumption DEF Requests, Ops
<1>5. asked' = [asked EXCEPT ![h] = r] /\ UNCHANGED << verdict, lost, paid >>
  BY <1>2, <1>3 DEF GO!Ask
<1>6. TypeOK'
  BY <1>1, <1>4, <1>5
     DEF PostUpdate, IInv, TypeOK, Places, GO!TypeOK, GO!Requests, GO!Ops,
         Requests, Ops
<1>7. HandlerState' /\ AnswerState' /\ CallState'
  BY <1>1, <1>4, <1>5
     DEF PostUpdate, IInv, TypeOK, GO!TypeOK, HandlerState, AnswerState,
         CallState, OK, NotYet, BadGateway
<1>8. SessionState' /\ PayState'
  BY <1>1, <1>4, <1>5
     DEF PostUpdate, IInv, TypeOK, GO!TypeOK, SessionState, PayState, Running,
         Handlers
<1>9. GOState' /\ RefusalHasCause'
  BY <1>1, <1>2, AskKeepsGO DEF PostUpdate
<1> QED
  BY <1>6, <1>7, <1>8, <1>9 DEF IInv

\* A status that is passed on is the GO's, and it is final.
LEMMA ReceivePreserves ==
  ASSUME IInv, NEW h \in Handlers, Receive(h)
  PROVE  IInv'
<1> USE DEF Receive, MoveTo, Answer, goVars
<1>1. /\ pc[h] = "await" /\ asked[h] # NoRequest /\ verdict[h] # NotYet
      /\ verdict[h] \in Answers
  BY DEF IInv, TypeOK, HandlerState, GO!TypeOK, GO!Statuses, Statuses, Answers,
         GO!Rejections, Rejections, GO!NotYet, NotYet, GO!OK, OK, GO!NotFound,
         NotFound, GO!Conflict, Conflict
<1>2. TypeOK'
  BY <1>1 DEF IInv, TypeOK, Places, GO!TypeOK
<1>3. HandlerState' /\ AnswerState' /\ CallState'
  BY <1>1 DEF IInv, TypeOK, HandlerState, AnswerState, CallState
<1>4. SessionState' /\ PayState'
  BY <1>1 DEF IInv, TypeOK, SessionState, PayState, Running, Handlers
<1> QED
  BY <1>2, <1>3, <1>4, SameGO DEF IInv

LEMMA GiveUpPreserves ==
  ASSUME IInv, NEW h \in Handlers, GiveUp(h)
  PROVE  IInv'
<1> USE DEF GiveUp, Answer, goVars
<1>1. TypeOK'
  BY DEF IInv, TypeOK, Places, Answers, GO!TypeOK
<1>2. HandlerState' /\ AnswerState' /\ CallState'
  BY DEF IInv, TypeOK, HandlerState, AnswerState, CallState, BadGateway, OK
<1>3. SessionState' /\ PayState'
  BY DEF IInv, TypeOK, SessionState, PayState, Running, Handlers
<1> QED
  BY <1>1, <1>2, <1>3, SameGO DEF IInv

LEMMA RecordPresentmentPreserves ==
  ASSUME IInv, NEW p \in Presentments, RecordPresentment(p)
  PROVE  IInv'
<1> USE DEF RecordPresentment, Answer, goVars
<1>1. /\ p \in Handlers /\ p \notin Pays /\ pc[p] = "record"
      /\ asked[p] # NoRequest /\ verdict[p] = OK /\ ref[p] \in RefNos
  BY HandlersAssumption DEF IInv, HandlerState, Handlers
<1> DEFINE s == [ref |-> ref[p], layers |-> 0]
<1>2. s \in TxnSessions /\ s # NoSession
  BY <1>1, SessionAssumption DEF TxnSessions
<1>3. session' = [session EXCEPT ![p] = s]
  OBVIOUS
<1>4. TypeOK'
  BY <1>1, <1>2, <1>3
     DEF IInv, TypeOK, Places, Answers, Statuses, Handlers, GO!TypeOK
<1>5. HandlerState' /\ AnswerState' /\ CallState'
  BY <1>1, <1>2, <1>3 DEF IInv, TypeOK, HandlerState, AnswerState, CallState, Handlers
<1>6. SessionState' /\ PayState'
  BY <1>1, <1>2, <1>3 DEF IInv, TypeOK, SessionState, PayState, Running, Handlers
<1> QED
  BY <1>4, <1>5, <1>6, SameGO DEF IInv

LEMMA RecordPayPreserves ==
  ASSUME IInv, NEW h \in Pays, RecordPay(h)
  PROVE  IInv'
<1> USE DEF RecordPay, Answer, goVars
<1>1. h \in Handlers /\ h \notin Presentments /\ pc[h] = "record" /\ verdict[h] = OK
  BY HandlersAssumption DEF IInv, HandlerState, Handlers
<1>2. TypeOK'
  BY <1>1 DEF IInv, TypeOK, Places, Answers, Statuses, GO!TypeOK
<1>3. HandlerState' /\ AnswerState' /\ CallState'
  BY <1>1 DEF IInv, TypeOK, HandlerState, AnswerState, CallState
<1>4. SessionState' /\ PayState'
  BY <1>1 DEF IInv, TypeOK, SessionState, PayState, Running, Handlers
<1> QED
  BY <1>2, <1>3, <1>4, SameGO DEF IInv

\* The handlers are gone, but what they made of their transactions is not.
LEMMA RestartPreserves == IInv /\ Restart => IInv'
<1> SUFFICES ASSUME IInv, Restart PROVE IInv'
  OBVIOUS
<1> USE DEF Restart, goVars
<1>1. epoch + 1 \in 0..MaxRestarts
  BY BoundAssumption DEF IInv, TypeOK
<1>2. TypeOK'
  BY <1>1 DEF IInv, TypeOK, Places, GO!TypeOK
<1>3. HandlerState' /\ AnswerState' /\ CallState'
  BY DEF IInv, TypeOK, HandlerState, AnswerState, CallState, Running
<1>4. SessionState' /\ PayState'
  BY DEF IInv, TypeOK, SessionState, PayState, Running, Handlers
<1> QED
  BY <1>2, <1>3, <1>4, SameGO DEF IInv

\* What the GO decides of a call (AtomicGO): it takes the payment of an unpaid
\* bill, presents one, refuses a paid one, or refuses for another reason.
Decided(h, s) ==
  \/ /\ s = OK /\ asked[h].op = "update"
     /\ asked[h].ref \in Bills \ paid /\ paid' = paid \cup {asked[h].ref}
  \/ /\ s = OK /\ asked[h].op = "presentment"
     /\ asked[h].ref \in Bills \ paid /\ paid' = paid
  \/ s = Conflict /\ asked[h].ref \in paid /\ paid' = paid
  \/ s \in Rejections \cup {NotFound} /\ paid' = paid

LEMMA RejectStatus ==
  ASSUME NEW h \in Handlers, asked[h] \in Requests, GO!Reject(h)
  PROVE  \E s \in Rejections : GO!Judge(h, s) /\ UNCHANGED paid
<1>1. PICK k \in asked[h].fails : GO!Judge(h, GO!StatusOf[k]) /\ UNCHANGED paid
  BY DEF GO!Reject
<1>2. k \in {"method", "contentType", "bearer", "missingKey",
             "transactionKey", "body", "params", "refNo"}
  BY FaultsAssumption DEF Requests, Checks, CheckOrder
<1>3. GO!StatusOf[k] \in Rejections
  BY <1>2 DEF GO!StatusOf, Rejections
<1> QED
  BY <1>1, <1>3

LEMMA DecideCases ==
  ASSUME IInv, NEW h \in Handlers, GO!Decide(h)
  PROVE  /\ asked[h] # NoRequest /\ asked[h] \in Requests /\ verdict[h] = NotYet
         /\ UNCHANGED << asked, lost >>
         /\ \E s \in Statuses \ {NotYet} :
              verdict' = [verdict EXCEPT ![h] = s] /\ Decided(h, s)
<1>1. asked[h] # NoRequest /\ asked[h] \in Requests /\ verdict[h] = NotYet
  BY DEF GO!Decide, GO!Pending, IInv, TypeOK, GO!TypeOK, GO!Requests, GO!Ops, Requests,
         Ops, GO!NotYet, NotYet
<1>2. PICK s \in Rejections \cup {OK, NotFound, Conflict} :
        GO!Judge(h, s) /\ Decided(h, s)
  <2>1. CASE GO!Reject(h)
    BY <1>1, <2>1, RejectStatus DEF Decided
  <2>2. CASE GO!RefuseUnknown(h) \/ GO!RefusePaid(h)
    BY <2>2 DEF GO!RefuseUnknown, GO!RefusePaid, GO!NotFound, NotFound, GO!Conflict,
         Conflict, Decided
  <2>3. CASE GO!Present(h) \/ GO!Pay(h)
    BY <2>3 DEF GO!Present, GO!Pay, GO!OK, OK, Decided
  <2> QED
    BY <2>1, <2>2, <2>3 DEF GO!Decide
<1>3. s \in Statuses \ {NotYet}
  BY DEF Statuses, Rejections, NotYet, OK, NotFound, Conflict
<1> QED
  BY <1>1, <1>2, <1>3 DEF GO!Judge

\* A judgement pays a bill nobody had paid, or leaves the flags alone; nobody is
\* judged twice.
LEMMA GODecidePreserves ==
  ASSUME IInv, NEW h \in Handlers, GODecide(h)
  PROVE  IInv'
<1>1. /\ asked[h] # NoRequest /\ asked[h] \in Requests /\ verdict[h] = NotYet
      /\ UNCHANGED << asked, lost >>
  BY DecideCases DEF GODecide
<1>2. PICK s \in Statuses \ {NotYet} :
        verdict' = [verdict EXCEPT ![h] = s] /\ Decided(h, s)
  BY DecideCases DEF GODecide
<1>3. /\ judgedIn' = [judgedIn EXCEPT ![h] = goEpoch]
      /\ UNCHANGED << pc, ref, txn, answer, session, sessions, epoch, born, goEpoch >>
  BY DEF GODecide
<1>4. asked[h].op = "update" <=> h \in Pays
  BY <1>1, HandlersAssumption DEF IInv, CallState, Handlers
<1>5. asked[h].ref \in RefNos
  BY <1>1 DEF Requests
<1>6. /\ verdict'[h] = s /\ judgedIn'[h] = goEpoch /\ s # NotYet
      /\ \A k \in Handlers \ {h} : verdict'[k] = verdict[k] /\ judgedIn'[k] = judgedIn[k]
  BY <1>2, <1>3 DEF IInv, TypeOK, GO!TypeOK
<1>7. TypeOK'
  <2>1. s \in GO!Statuses
    BY DEF Statuses, GO!Statuses, Rejections, GO!Rejections, GO!NotYet, NotYet,
           GO!OK, OK, GO!NotFound, NotFound, GO!Conflict, Conflict
  <2>2. paid' \in SUBSET Bills
    BY <1>2 DEF Decided, IInv, TypeOK, GO!TypeOK
  <2> QED
    BY <1>1, <1>2, <1>3, <2>1, <2>2 DEF IInv, TypeOK, GO!TypeOK
<1>8. HandlerState' /\ AnswerState'
  BY <1>1, <1>3, <1>6 DEF IInv, HandlerState, AnswerState, NotYet, OK, BadGateway
<1>9. SessionState' /\ PayState' /\ CallState'
  BY <1>1, <1>3 DEF IInv, SessionState, PayState, CallState, Running
<1>10. \A k \in Handlers \ {h} : \A b, e : PaidBy(k, b, e)' <=> PaidBy(k, b, e)
  BY <1>1, <1>6 DEF PaidBy
<1>11. \A b, e : PaidBy(h, b, e)' <=>
         h \in Pays /\ s = OK /\ b = asked[h].ref /\ e = goEpoch
  BY <1>1, <1>6 DEF PaidBy
<1>12. \A b, e : ~PaidBy(h, b, e)
  BY <1>1 DEF PaidBy, OK, NotYet
<1>13. GOState'
  <2>1. goEpoch \in 0..MaxRestarts /\ Pays \subseteq Handlers
    BY DEF IInv, TypeOK, Handlers
  <2>2. \A k \in Handlers : judgedIn'[k] \in 0..goEpoch
    BY <1>6, <2>1, BoundAssumption DEF IInv, GOState
  <2>3. \A b \in RefNos : b \in paid' <=>
          b \in paid \/ (h \in Pays /\ s = OK /\ b = asked[h].ref)
    BY <1>2, <1>4, <1>5 DEF Decided, OK, Conflict, Rejections, NotFound
  <2>4. ASSUME NEW b \in RefNos
        PROVE  b \in paid' <=> \E k \in Pays : PaidBy(k, b, goEpoch)'
    <3>1. b \in paid <=> \E k \in Pays \ {h} : PaidBy(k, b, goEpoch)
      BY <1>12 DEF IInv, GOState
    <3> QED
      BY <1>3, <1>10, <1>11, <2>1, <2>3, <3>1
  <2>5. \A k \in Pays \ {h} : h \in Pays /\ s = OK => ~PaidBy(k, asked[h].ref, goEpoch)
    BY <1>2, <1>4, <1>5 DEF Decided, OK, Conflict, Rejections, NotFound, IInv, GOState
  <2>6. \A j, k \in Pays, b \in RefNos, e \in 0..MaxRestarts :
          PaidBy(j, b, e)' /\ PaidBy(k, b, e)' => j = k
    BY <1>10, <1>11, <2>1, <2>5 DEF IInv, GOState
  <2> QED
    BY <1>3, <2>2, <2>4, <2>6 DEF GOState
<1>14. RefusalHasCause'
  <2>1. ASSUME NEW k \in Handlers, verdict'[k] = Conflict
        PROVE  \E j \in Pays \ {k} : /\ verdict'[j] = OK
                                     /\ asked[j].ref = asked[k].ref
                                     /\ judgedIn'[j] = judgedIn'[k]
    <3>1. CASE k = h
      <4>1. asked[h].ref \in paid
        BY <1>2, <1>6, <2>1, <3>1 DEF Decided, OK, Conflict, Rejections, NotFound
      <4>2. PICK j \in Pays : PaidBy(j, asked[h].ref, goEpoch)
        BY <1>5, <4>1 DEF IInv, GOState
      <4>3. j # h
        BY <1>12, <4>2
      <4> QED
        BY <1>6, <3>1, <4>2, <4>3 DEF PaidBy, Handlers
    <3>2. CASE k # h
      <4>1. PICK j \in Pays \ {k} : /\ verdict[j] = OK
                                    /\ asked[j].ref = asked[k].ref
                                    /\ judgedIn[j] = judgedIn[k]
        BY <1>6, <2>1, <3>2 DEF IInv, RefusalHasCause
      <4>2. j # h
        BY <1>1, <4>1 DEF OK, NotYet
      <4> QED
        BY <1>6, <3>2, <4>1, <4>2 DEF Handlers
    <3> QED
      BY <3>1, <3>2
  <2> QED
    BY <1>1, <2>1 DEF RefusalHasCause
<1> QED
  BY <1>7, <1>8, <1>9, <1>13, <1>14 DEF IInv

\* The new incarnation has taken no payment.
LEMMA GORestartPreserves == IInv /\ GORestart => IInv'
<1> SUFFICES ASSUME IInv, GORestart PROVE IInv'
  OBVIOUS
<1> USE DEF GORestart, GO!Reset
<1>1. goEpoch + 1 \in 0..MaxRestarts /\ goEpoch \in Nat
  BY BoundAssumption DEF IInv, TypeOK
<1>2. TypeOK'
  BY <1>1 DEF IInv, TypeOK, GO!TypeOK
<1>3. HandlerState' /\ AnswerState' /\ SessionState' /\ PayState' /\ CallState'
      /\ RefusalHasCause'
  BY DEF IInv, HandlerState, AnswerState, SessionState, PayState, CallState, Running,
         RefusalHasCause
<1>4. GOState'
  BY <1>1 DEF IInv, GOState, PaidBy, Handlers
<1> QED
  BY <1>2, <1>3, <1>4 DEF IInv

LEMMA NextIInv == IInv /\ [Next]_vars => IInv'
<1>1. CASE UNCHANGED vars
  BY <1>1 DEF vars, goVars, IInv, TypeOK, GO!TypeOK, HandlerState, AnswerState,
         SessionState, PayState, CallState, Running, GOState, PaidBy, RefusalHasCause
<1>2. \A h \in Handlers : IInv /\ Step(h) => IInv'
  BY BearerPreserves, PostPresentmentPreserves, PostUpdatePreserves, ReceivePreserves,
     GiveUpPreserves, RecordPresentmentPreserves, RecordPayPreserves
     DEF Step, PostPresentment, PostUpdate, RecordPresentment, RecordPay
<1> QED
  BY <1>1, <1>2, PresentmentStartPreserves, PayStartPreserves, GODecidePreserves,
     RestartPreserves, GORestartPreserves
     DEF Next

\* What IInv says holds always, whatever is lost, late or restarted.
THEOREM Invariance == Spec => []IInv
<1> QED
  BY InitIInv, NextIInv, PTL DEF Spec

-----------------------------------------------------------------------------
(* The safety properties *)

\* Every variable keeps its type; a key of Server.sessions always has a session.
THEOREM TypeCorrectness == Spec => []TypeOK
<1>1. IInv => TypeOK
  BY DEF IInv
<1> QED
  BY <1>1, Invariance, PTL

\* A receipt goes to a pay whose update named the bill of its transaction.
LEMMA ReceiptFacts ==
  ASSUME IInv, NEW h \in Pays, answer[h] = OK
  PROVE  ref[txn[h]] \in RefNos /\ PaidBy(h, ref[txn[h]], judgedIn[h])
<1>1. h \in Handlers /\ verdict[h] = OK
  BY DEF Handlers, IInv, AnswerState
<1>2. asked[h] # NoRequest /\ asked[h] \in Requests
  BY <1>1 DEF IInv, HandlerState, TypeOK, GO!TypeOK, GO!Requests, GO!Ops, Requests, Ops,
         OK, NotYet
<1> QED
  BY <1>1, <1>2 DEF IInv, CallState, PaidBy, Requests

\* No two payers hold a receipt of one incarnation of the GO for one bill: the
\* GO took one update of it, and only that one is answered "200".
THEOREM NoSecondReceipt == Spec => []OneReceiptPerBill
<1>1. IInv => OneReceiptPerBill
  <2> SUFFICES ASSUME IInv, NEW h \in Pays, NEW k \in Pays,
                      answer[h] = OK, answer[k] = OK,
                      ref[txn[h]] = ref[txn[k]], judgedIn[h] = judgedIn[k]
               PROVE  h = k
    BY DEF OneReceiptPerBill
  <2>1. judgedIn[h] \in 0..MaxRestarts
    BY DEF IInv, TypeOK, Handlers
  <2> QED
    BY <2>1, ReceiptFacts DEF IInv, GOState
<1> QED
  BY <1>1, Invariance, PTL

\* The GO that confirmed a receipt's payment holds the bill as paid.
THEOREM ReceiptsAreBacked == Spec => []ReceiptIsBacked
<1>1. IInv => ReceiptIsBacked
  BY ReceiptFacts DEF IInv, GOState, ReceiptIsBacked
<1> QED
  BY <1>1, Invariance, PTL

\* Every update, also that of a retry, names the bill the presentment of its
\* transaction asked for, readable for the GO (handlePay's copy of ReturnData).
THEOREM UpdatesNameTheirBill == Spec => []UpdateNamesPresentedBill
<1>1. IInv => UpdateNamesPresentedBill
  <2> SUFFICES ASSUME IInv, NEW h \in Pays, asked[h] # NoRequest
               PROVE  /\ asked[h].ref = asked[txn[h]].ref
                      /\ "refNo" \notin asked[h].fails
    BY DEF UpdateNamesPresentedBill
  <2>1. h \in Handlers /\ pc[h] # "idle" /\ session[txn[h]] # NoSession
        /\ asked[h].ref = ref[txn[h]]
    BY DEF IInv, CallState, Handlers
  <2>2. txn[h] \in Presentments /\ txn[h] \in Handlers
    BY <2>1 DEF IInv, HandlerState, Handlers
  <2>3. asked[txn[h]] # NoRequest /\ txn[txn[h]] = txn[h]
    BY <2>1, <2>2 DEF IInv, SessionState, HandlerState
  <2>4. asked[txn[h]].ref = ref[txn[h]]
    BY <2>2, <2>3 DEF IInv, CallState
  <2>5. asked[h].fails \in Faults
    BY <2>1 DEF IInv, TypeOK, GO!TypeOK, GO!Requests
  <2> QED
    BY <2>1, <2>4, <2>5, NamedAssumption
<1> QED
  BY <1>1, Invariance, PTL

\* A 409 always goes back to another update that did pay the bill.
THEOREM RefusalsAreTrue == Spec => []RefusalHasCause
<1>1. IInv => RefusalHasCause
  BY DEF IInv
<1> QED
  BY <1>1, Invariance, PTL

-----------------------------------------------------------------------------
(* GovPay implements Ledger. *)

Pledge  == [y \in Pays |-> txn[y]]
Tale    == [h \in Handlers |-> Told(h)]
Granted == { h \in Handlers : verdict[h] = OK }

\* Told by place and status alone.
Meaning(place, s) == CASE place = "idle" -> "none"
                       [] place \in {"bearer", "post", "await", "record"} -> "waiting"
                       [] place = "dead" -> "unknown"
                       [] place = "done" -> Outcome(s)

LEMMA ToldIsMeaning ==
  ASSUME NEW h \in Handlers
  PROVE  Told(h) = Meaning(pc[h], answer[h]) /\ Told(h)' = Meaning(pc'[h], answer'[h])
BY DEF Told, Meaning, Running

LEMMA MeaningIs ==
  ASSUME NEW s
  PROVE  /\ Meaning("idle", s) = "none"
         /\ \A place \in {"bearer", "post", "await", "record"} :
              Meaning(place, s) = "waiting"
         /\ Meaning("dead", s) = "unknown"
         /\ Meaning("done", s) = Outcome(s)
BY DEF Meaning

\* What a handler's place and the GO's judgement mean to the browser.
LEMMA ToldFacts ==
  ASSUME IInv, NEW h \in Handlers
  PROVE  /\ Told(h) = "none" <=> pc[h] = "idle"
         /\ Told(h) = "waiting" <=> Running(h)
         /\ asked[h] # NoRequest /\ verdict[h] = NotYet =>
              Told(h) \in {"waiting", "unknown"}
<1>1. pc[h] \in Places
  BY DEF IInv, TypeOK
<1>2. asked[h] # NoRequest => pc[h] # "idle"
  BY DEF IInv, CallState
<1>3. pc[h] = "done" /\ asked[h] # NoRequest /\ verdict[h] = NotYet =>
        answer[h] = BadGateway
  BY DEF IInv, AnswerState, OK, NotYet
<1>4. Told(h) = Meaning(pc[h], answer[h])
  BY ToldIsMeaning
<1>5. Outcome(answer[h]) \in {"ok", "unknown", "refused"}
      /\ Outcome(BadGateway) = "unknown"
  BY DEF Outcome, OK, BadGateway
<1> QED
  BY <1>1, <1>2, <1>3, <1>4, <1>5, MeaningIs DEF Running, Places

\* A step of one handler that moves on tells its browser to wait.
LEMMA TaleMoves ==
  ASSUME IInv, NEW h \in Handlers, NEW place \in {"bearer", "post", "await", "record"},
         MoveTo(h, place)
  PROVE  /\ Tale' = [Tale EXCEPT ![h] = "waiting"]
         /\ Running(h) => Tale' = Tale
<1>1. /\ pc'[h] = place
      /\ \A k \in Handlers \ {h} : pc'[k] = pc[k]
      /\ answer' = answer
  BY DEF IInv, TypeOK, MoveTo
<1>2. Told(h)' = "waiting"
  BY <1>1, ToldIsMeaning, MeaningIs
<1>3. \A k \in Handlers \ {h} : Told(k)' = Told(k)
  BY <1>1, ToldIsMeaning
<1>4. Running(h) => Told(h) = "waiting"
  BY ToldFacts
<1> QED
  BY <1>2, <1>3, <1>4 DEF Tale

\* A step that answers tells what the status says.
LEMMA TaleAnswers ==
  ASSUME IInv, NEW h \in Handlers, NEW s, Answer(h, s)
  PROVE  Tale' = [Tale EXCEPT ![h] = Outcome(s)]
<1>1. /\ pc'[h] = "done" /\ answer'[h] = s
      /\ \A k \in Handlers \ {h} : pc'[k] = pc[k] /\ answer'[k] = answer[k]
  BY DEF IInv, TypeOK, Answer
<1>2. Told(h)' = Outcome(s)
  BY <1>1, ToldIsMeaning, MeaningIs
<1>3. \A k \in Handlers \ {h} : Told(k)' = Told(k)
  BY <1>1, ToldIsMeaning
<1> QED
  BY <1>2, <1>3 DEF Tale

LEMMA InitSimulation == Init => Promised!Init
<1> SUFFICES ASSUME Init PROVE Promised!Init
  OBVIOUS
<1>1. Tale = [h \in Handlers |-> "none"]
  BY ToldIsMeaning, MeaningIs DEF Init, Tale
<1>2. Pledge = [y \in Pays |-> NoTxn] /\ Granted = {}
  BY DEF Init, Pledge, Granted, Handlers, GO!Init, GO!NotYet, OK
<1> QED
  BY <1>1, <1>2 DEF Init, GO!Init, Promised!Init, Promised!Asks, Handlers, Tale, Pledge,
     Granted

\* The steps in which the GO has no part show in one answer only.
LEMMA StartSimulation ==
  ASSUME IInv,
         \/ \E p \in Presentments, r \in RefNos, valid \in BOOLEAN :
              PresentmentStart(p, r, valid)
         \/ \E h \in Pays, t \in Presentments : PayStart(h, t)
  PROVE  Promised!Next
<1> USE DEF Begin, goVars
<1>1. ASSUME NEW p \in Presentments, NEW r \in RefNos, NEW valid \in BOOLEAN,
             PresentmentStart(p, r, valid)
      PROVE  Promised!LookUp(p, r)
  <2>1. p \in Handlers /\ p \notin Pays
    BY HandlersAssumption DEF Handlers
  <2>2. Tale[p] = "none"
    BY <1>1, <2>1, ToldFacts DEF PresentmentStart, Tale
  <2>3. Pledge' = Pledge /\ Granted' = Granted
    BY <1>1, <2>1 DEF PresentmentStart, Pledge, Granted, IInv, TypeOK
  <2>4. \/ Tale' = [Tale EXCEPT ![p] = "waiting"]
        \/ Tale' = [Tale EXCEPT ![p] = "refused"]
    <3>1. Outcome(400) = "refused"
      BY DEF Outcome, OK, BadGateway
    <3>2. MoveTo(p, "bearer") \/ Answer(p, 400)
      BY <1>1 DEF PresentmentStart
    <3> QED
      BY <2>1, <3>1, <3>2, TaleMoves, TaleAnswers
  <2> QED
    BY <1>1, <2>2, <2>3, <2>4
       DEF PresentmentStart, Promised!LookUp, Promised!Tell, Tale, Pledge, Granted
<1>2. ASSUME NEW h \in Pays, NEW t \in Presentments, PayStart(h, t)
      PROVE  Promised!Pay(h, t)
  <2>1. h \in Handlers
    BY DEF Handlers
  <2>2. Tale[h] = "none"
    BY <1>2, <2>1, ToldFacts DEF PayStart, Tale
  <2>3. Pledge' = [Pledge EXCEPT ![h] = t] /\ Granted' = Granted
    BY <1>2, <2>1 DEF PayStart, Pledge, Granted, Handlers, IInv, TypeOK
  <2>4. t \in sessions => session[t].ref = ref[t]
    BY DEF IInv, TypeOK, SessionState
  <2>5. Outcome(400) = "refused" /\ Outcome(NotFound) = "refused"
    BY DEF Outcome, OK, BadGateway, NotFound
  <2>6. Tale' = [Tale EXCEPT ![h] =
                   IF t \in sessions /\ ref[t] \in Payable THEN "waiting" ELSE "refused"]
    <3>1. CASE t \in sessions /\ ref[t] \in Payable
      <4>1. MoveTo(h, "bearer")
        BY <1>2, <2>4, <3>1 DEF PayStart
      <4> QED
        BY <2>1, <3>1, <4>1, TaleMoves
    <3>2. CASE ~(t \in sessions /\ ref[t] \in Payable)
      <4>1. Answer(h, NotFound) \/ Answer(h, 400)
        BY <1>2, <2>4, <3>2 DEF PayStart
      <4>2. Tale' = [Tale EXCEPT ![h] = "refused"]
        BY <2>1, <2>5, <4>1, TaleAnswers
      <4> QED
        BY <3>2, <4>2
    <3> QED
      BY <3>1, <3>2
  <2> QED
    BY <1>2, <2>2, <2>3, <2>6
       DEF PayStart, Promised!Pay, Promised!Tell, Tale, Pledge, Granted
<1> QED
  BY <1>1, <1>2 DEF Promised!Next

LEMMA HandlerSimulation ==
  ASSUME IInv, NEW h \in Handlers, Step(h)
  PROVE  Promised!Next \/ UNCHANGED << ref, Pledge, Tale, sessions, Granted, paid >>
<1> DEFINE Same == UNCHANGED << ref, Pledge, Tale, sessions, Granted, paid >>
           Shown == UNCHANGED << ref, Pledge, sessions, Granted, paid >>
<1> USE DEF goVars
<1>1. ASSUME Running(h), Shown, Answer(h, BadGateway)
      PROVE  Promised!GiveUp(h)
  <2>1. Tale[h] = "waiting" /\ Tale' = [Tale EXCEPT ![h] = "unknown"]
    BY <1>1, ToldFacts, TaleAnswers DEF Tale, Outcome, OK, BadGateway
  <2> QED
    BY <1>1, <2>1 DEF Promised!GiveUp, Promised!Tell, Tale, Pledge, Granted
<1>2. ASSUME Running(h), Shown, NEW s, s \notin {OK, BadGateway}, Answer(h, s),
             verdict[h] # OK
      PROVE  Promised!Refuse(h)
  <2>1. Tale[h] = "waiting" /\ Tale' = [Tale EXCEPT ![h] = "refused"]
    BY <1>2, ToldFacts, TaleAnswers DEF Tale, Outcome
  <2>2. h \notin Granted
    BY <1>2 DEF Granted
  <2> QED
    BY <1>2, <2>1, <2>2 DEF Promised!Refuse, Promised!Tell, Tale, Pledge, Granted
<1>3. ASSUME Bearer(h) PROVE Promised!Next \/ Same
  <2>1. Running(h) /\ Shown /\ verdict[h] # OK
    BY <1>3 DEF Bearer, Running, Pledge, Granted, IInv, HandlerState, OK, NotYet
  <2>2. CASE MoveTo(h, "post")
    BY <2>1, <2>2, TaleMoves
  <2>3. CASE Answer(h, BadGateway)
    BY <1>1, <2>1, <2>3
       DEF Promised!Next, Promised!Serve, Promised!Respond, Promised!Asks, Handlers
  <2>4. CASE Answer(h, 401)
    BY <1>2, <2>1, <2>4
       DEF Promised!Next, Promised!Serve, Promised!Respond, Promised!Asks, Handlers,
           OK, BadGateway
  <2> QED
    BY <1>3, <2>2, <2>3, <2>4 DEF Bearer
<1>4. ASSUME PostPresentment(h) \/ PostUpdate(h) PROVE Same
  <2>1. Running(h) /\ MoveTo(h, "await")
    BY <1>4 DEF PostPresentment, PostUpdate, Running
  <2>2. Shown
    BY <1>4 DEF PostPresentment, PostUpdate, GO!Ask, Pledge, Granted
  <2> QED
    BY <2>1, <2>2, TaleMoves
<1>5. ASSUME Receive(h) PROVE Promised!Next \/ Same
  <2>1. Running(h) /\ Shown
    BY <1>5 DEF Receive, Running, Pledge, Granted
  <2>2. CASE verdict[h] = OK
    BY <1>5, <2>1, <2>2, TaleMoves DEF Receive
  <2>3. CASE verdict[h] # OK
    <3>1. verdict[h] # BadGateway
      BY DEF IInv, TypeOK, GO!TypeOK, GO!Statuses, GO!Rejections, GO!NotYet, GO!OK,
             GO!NotFound, GO!Conflict, BadGateway
    <3> QED
      BY <1>2, <1>5, <2>1, <2>3, <3>1
         DEF Receive, Promised!Next, Promised!Serve, Promised!Respond, Promised!Asks,
             Handlers
  <2> QED
    BY <2>2, <2>3
<1>6. ASSUME GiveUp(h) PROVE Promised!Next
  <2>1. Running(h) /\ Shown /\ Answer(h, BadGateway)
    BY <1>6 DEF GiveUp, Running, Pledge, Granted
  <2> QED
    BY <1>1, <2>1
       DEF Promised!Next, Promised!Serve, Promised!Respond, Promised!Asks, Handlers
<1>7. ASSUME RecordPresentment(h) \/ RecordPay(h) PROVE Promised!Next
  <2>1. /\ Running(h) /\ Answer(h, OK) /\ h \in Granted
        /\ UNCHANGED << ref, Pledge, Granted, paid >>
    BY <1>7 DEF RecordPresentment, RecordPay, Running, Pledge, Granted, IInv, HandlerState
  <2>2. Tale[h] = "waiting" /\ Tale' = [Tale EXCEPT ![h] = "ok"]
    BY <2>1, ToldFacts, TaleAnswers DEF Tale, Outcome
  <2>3. sessions' = IF h \in Presentments THEN sessions \cup {h}
                                          ELSE sessions \ {Pledge[h]}
    BY <1>7, HandlersAssumption DEF RecordPresentment, RecordPay, Pledge
  <2>4. Promised!Confirm(h)
    BY <2>1, <2>2, <2>3 DEF Promised!Confirm, Promised!Tell, Tale, Pledge, Granted
  <2> QED
    BY <2>4
       DEF Promised!Next, Promised!Serve, Promised!Respond, Promised!Asks, Handlers
<1> QED
  BY <1>3, <1>4, <1>5, <1>6, <1>7 DEF Step

\* The GO grants what it presents or takes the payment of; the browser has not
\* been refused by then.
LEMMA DecideSimulation ==
  ASSUME IInv, NEW h \in Handlers, GODecide(h)
  PROVE  Promised!Next \/ UNCHANGED << ref, Pledge, Tale, sessions, Granted, paid >>
<1>1. /\ asked[h] # NoRequest /\ verdict[h] = NotYet
      /\ UNCHANGED << pc, ref, txn, answer, sessions >>
  BY DecideCases DEF GODecide
<1>2. PICK s \in Statuses \ {NotYet} :
        verdict' = [verdict EXCEPT ![h] = s] /\ Decided(h, s)
  BY DecideCases DEF GODecide
<1>3. Pledge' = Pledge /\ Tale' = Tale
  BY <1>1, ToldIsMeaning DEF Pledge, Tale
<1>4. Granted' = IF s = OK THEN Granted \cup {h} ELSE Granted
  BY <1>1, <1>2 DEF Granted, IInv, TypeOK, GO!TypeOK, OK, NotYet
<1>5. h \notin Granted /\ Tale[h] \in {"waiting", "unknown"}
  BY <1>1, ToldFacts DEF Granted, Tale, OK, NotYet
<1>6. asked[h].op = (IF h \in Presentments THEN "presentment" ELSE "update")
      /\ asked[h].ref = ref[txn[h]]
  BY <1>1 DEF IInv, CallState
<1>7. CASE s = OK /\ asked[h].op = "presentment"
  <2>1. h \in Presentments /\ asked[h].ref = ref[h]
    BY <1>1, <1>6, <1>7 DEF IInv, CallState, HandlerState
  <2>2. Promised!GrantLookUp(h)
    BY <1>1, <1>2, <1>3, <1>4, <1>5, <1>7, <2>1
       DEF Decided, OK, Conflict, Rejections, NotFound, Promised!GrantLookUp, Tale,
           Pledge, Granted
  <2> QED
    BY <2>1, <2>2 DEF Promised!Next, Promised!Serve
<1>8. CASE s = OK /\ asked[h].op = "update"
  <2>1. h \in Pays /\ asked[h].ref = ref[Pledge[h]]
    BY <1>6, <1>8 DEF Handlers, Pledge
  <2>2. Promised!GrantPay(h)
    BY <1>1, <1>2, <1>3, <1>4, <1>5, <1>8, <2>1
       DEF Decided, OK, Conflict, Rejections, NotFound, Promised!GrantPay, Tale,
           Pledge, Granted
  <2> QED
    BY <2>1, <2>2 DEF Promised!Next, Promised!Serve
<1>9. CASE s # OK
  BY <1>1, <1>2, <1>3, <1>4, <1>9 DEF Decided
<1> QED
  BY <1>6, <1>7, <1>8, <1>9

\* A restart leaves those who wait with nothing but doubt, and opens nothing.
LEMMA RestartSimulation == IInv /\ (Restart \/ GORestart) => Promised!Next
<1> SUFFICES ASSUME IInv, Restart \/ GORestart PROVE Promised!Next
  OBVIOUS
<1> USE DEF goVars
<1>1. CASE Restart
  <2>1. Pledge' = Pledge /\ Granted' = Granted
    BY <1>1 DEF Restart, Pledge, Granted
  <2>2. ASSUME NEW h \in Handlers
        PROVE  Told(h)' = IF Told(h) = "waiting" THEN "unknown" ELSE Told(h)
    <3>1. pc'[h] = (IF Running(h) THEN "dead" ELSE pc[h]) /\ answer'[h] = answer[h]
      BY <1>1 DEF Restart
    <3> QED
      BY <3>1, ToldFacts, ToldIsMeaning, MeaningIs
  <2>3. Tale' = [h \in Handlers |-> IF Tale[h] = "waiting" THEN "unknown" ELSE Tale[h]]
    BY <2>2 DEF Tale
  <2>4. Promised!Close
    BY <1>1, <2>1, <2>3
       DEF Restart, Promised!Close, Promised!Asks, Handlers, Tale, Pledge, Granted
  <2> QED
    BY <2>4 DEF Promised!Next, Promised!Serve
<1>2. CASE GORestart
  <2>1. Pledge' = Pledge /\ Granted' = Granted /\ Tale' = Tale
    BY <1>2, ToldIsMeaning DEF GORestart, GO!Reset, Pledge, Granted, Tale
  <2>2. Promised!Forget
    BY <1>2, <2>1 DEF GORestart, GO!Reset, Promised!Forget, Tale, Pledge, Granted
  <2> QED
    BY <2>2 DEF Promised!Next, Promised!Serve
<1> QED
  BY <1>1, <1>2

\* Each step of GovPay is a step of the ledger or shows the browser nothing.
LEMMA StepSimulation == IInv /\ [Next]_vars => [Promised!Next]_(Promised!vars)
<1> SUFFICES ASSUME IInv, [Next]_vars
             PROVE  \/ Promised!Next
                    \/ UNCHANGED << ref, Pledge, Tale, sessions, Granted, paid >>
  BY DEF Promised!vars, Pledge, Tale, Granted
<1>1. CASE UNCHANGED vars
  BY <1>1, ToldIsMeaning DEF vars, goVars, Pledge, Tale, Granted
<1> QED
  BY <1>1, StartSimulation, HandlerSimulation, DecideSimulation, RestartSimulation
     DEF Next

\* The handlers with their sessions, calls, timeouts and restarts behave as the
\* ledger that opens, grants and closes each transaction in one step.
THEOREM Refinement == Spec => ImplementsLedger
<1> QED
  BY Invariance, InitSimulation, StepSimulation, PTL
     DEF Spec, ImplementsLedger, Promised!Spec

=============================================================================
