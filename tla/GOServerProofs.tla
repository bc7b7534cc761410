--------------------------- MODULE GOServerProofs ---------------------------
(***************************************************************************)
(* Proofs about GOServer for every set of calls, refNos, bills and faults  *)
(* and any number of restarts: the inductive invariant IInv, the safety    *)
(* properties it contains, and the step simulation of AtomicGO.            *)
(***************************************************************************)
EXTENDS GOServer, TLAPS

\* The status of a failed check is one of the rejections, which are told apart
\* from the answers that depend on the BillStore (StatusOf, fail in main.go).
LEMMA StatusOfCheck ==
  ASSUME NEW k \in Checks
  PROVE  StatusOf[k] \in Rejections
BY DEF Checks, CheckOrder, StatusOf, Rejections

\* A first failed check exists only if the request fails a check, and it is one
\* of the failed ones (decryptRequest).
LEMMA FirstFailedFails ==
  ASSUME NEW fails, NEW k, FirstFailed(fails, k)
  PROVE  k \in fails
BY DEF FirstFailed

LEMMA InitIInv == Init => IInv
<1> SUFFICES ASSUME Init PROVE IInv
  OBVIOUS
<1> USE DEF Init
<1>1. TypeOK
  BY RestartsAssumption DEF TypeOK, Places, Statuses, NotYet
<1>2. HandlerState
  BY RestartsAssumption DEF HandlerState, Running, NotYet
<1>3. AtMostOnePayment /\ PaidIffMarked
  BY DEF AtMostOnePayment, PaidIffMarked
<1>4. ConflictHasCause /\ NoApprovalAfterConfirmation /\ OnlyCheckedReachStore
  BY DEF ConflictHasCause, NoApprovalAfterConfirmation, OnlyCheckedReachStore,
         NotYet, OK, NotFound, Conflict
<1> QED
  BY <1>1, <1>2, <1>3, <1>4 DEF IInv

-----------------------------------------------------------------------------
(* Every action preserves the inductive invariant. *)

\* A call arrives: only its own slot changes, and what it knows to be settled
\* is paid, since every bill this incarnation marked is.
LEMMA ReceivePreserves ==
  ASSUME IInv, NEW c \in Calls, NEW r \in Requests, Receive(c, r)
  PROVE  IInv'
<1> USE DEF Receive, store
<1>1. ConfirmedBills \in SUBSET RefNos /\ ConfirmedBills \subseteq paid
  <2>1. ConfirmedBills \subseteq paid
    BY DEF IInv, PaidIffMarked, ConfirmedBills
  <2> QED
    BY <2>1, BillsAssumption DEF IInv, TypeOK
<1>2. c \notin marked
  BY DEF IInv, PaidIffMarked, HandlerState, NotYet, OK
<1>3. TypeOK'
  BY <1>1 DEF IInv, TypeOK, Places
<1>4. HandlerState'
  BY <1>1, NoRequestAssumption DEF IInv, TypeOK, HandlerState, Running
<1>5. AtMostOnePayment' /\ PaidIffMarked'
  BY <1>2 DEF IInv, TypeOK, AtMostOnePayment, PaidIffMarked
<1>6. ConflictHasCause' /\ NoApprovalAfterConfirmation' /\ OnlyCheckedReachStore'
  <2>1. status[c] = NotYet
    BY DEF IInv, HandlerState
  <2> QED
    BY <1>2, <2>1 DEF IInv, TypeOK, ConflictHasCause, NoApprovalAfterConfirmation,
         OnlyCheckedReachStore, NotYet, OK, NotFound, Conflict
<1> QED
  BY <1>3, <1>4, <1>5, <1>6 DEF IInv

\* The checks: the handler ends with a rejection or goes on to the store.
LEMMA DecryptRequestPreserves ==
  ASSUME IInv, NEW c \in Calls, DecryptRequest(c)
  PROVE  IInv'
<1> USE DEF DecryptRequest, Fail, Continue, arrival, store
<1>1. c \notin marked /\ status[c] = NotYet /\ req[c] \in Requests
  BY DEF IInv, TypeOK, HandlerState, PaidIffMarked, NotYet, OK
<1>2. CASE req[c].fails = {} /\ Continue(c, "lookup")
  <2>1. TypeOK' /\ HandlerState'
    BY <1>1, <1>2 DEF IInv, TypeOK, HandlerState, Running, Places
  <2>2. AtMostOnePayment' /\ PaidIffMarked' /\ ConflictHasCause'
        /\ NoApprovalAfterConfirmation' /\ OnlyCheckedReachStore'
    BY <1>2 DEF IInv, AtMostOnePayment, PaidIffMarked, ConflictHasCause,
         NoApprovalAfterConfirmation, OnlyCheckedReachStore
  <2> QED
    BY <2>1, <2>2 DEF IInv
<1>3. ASSUME NEW k \in Checks, Fail(c, StatusOf[k])
      PROVE  IInv'
  <2>1. StatusOf[k] \in Rejections
    BY StatusOfCheck
  <2>2. TypeOK' /\ HandlerState'
    BY <1>1, <1>3, <2>1
       DEF IInv, TypeOK, HandlerState, Running, Places, Statuses, Rejections,
           NotYet
  <2>3. AtMostOnePayment' /\ PaidIffMarked'
    BY <1>1, <1>3 DEF IInv, AtMostOnePayment, PaidIffMarked
  <2>4. ConflictHasCause' /\ NoApprovalAfterConfirmation' /\ OnlyCheckedReachStore'
    BY <1>1, <1>3, <2>1
       DEF IInv, TypeOK, ConflictHasCause, NoApprovalAfterConfirmation,
           OnlyCheckedReachStore, Rejections, OK, NotFound, Conflict
  <2> QED
    BY <2>2, <2>3, <2>4 DEF IInv
<1> QED
  BY <1>2, <1>3

\* Lookup reads only the fixed set of bills.
LEMMA LookupPreserves ==
  ASSUME IInv, NEW c \in Calls, Lookup(c)
  PROVE  IInv'
<1> USE DEF Lookup, Fail, Continue, arrival, store
<1>1. c \notin marked /\ status[c] = NotYet /\ req[c] \in Requests
      /\ req[c].fails = {}
  BY DEF IInv, TypeOK, HandlerState, PaidIffMarked, NotYet, OK
<1>2. CASE req[c].ref \in Bills
  <2>1. TypeOK' /\ HandlerState'
    BY <1>1, <1>2 DEF IInv, TypeOK, HandlerState, Running, Places, Requests, Ops
  <2>2. AtMostOnePayment' /\ PaidIffMarked' /\ ConflictHasCause'
        /\ NoApprovalAfterConfirmation' /\ OnlyCheckedReachStore'
    BY <1>2 DEF IInv, AtMostOnePayment, PaidIffMarked, ConflictHasCause,
         NoApprovalAfterConfirmation, OnlyCheckedReachStore
  <2> QED
    BY <2>1, <2>2 DEF IInv
<1>3. CASE req[c].ref \notin Bills
  <2>1. TypeOK' /\ HandlerState'
    BY <1>1, <1>3 DEF IInv, TypeOK, HandlerState, Running, Places, Statuses,
         NotFound, NotYet
  <2>2. AtMostOnePayment' /\ PaidIffMarked'
    BY <1>1, <1>3 DEF IInv, TypeOK, AtMostOnePayment, PaidIffMarked
  <2>3. ConflictHasCause' /\ NoApprovalAfterConfirmation' /\ OnlyCheckedReachStore'
    BY <1>1, <1>3
       DEF IInv, TypeOK, ConflictHasCause, NoApprovalAfterConfirmation,
           OnlyCheckedReachStore, OK, NotFound, Conflict
  <2> QED
    BY <2>1, <2>2, <2>3 DEF IInv
<1> QED
  BY <1>2, <1>3

\* A bill found paid was marked by another call, and one found unpaid was not
\* settled when the call arrived.
LEMMA IsPaidPreserves ==
  ASSUME IInv, NEW c \in Calls, IsPaid(c)
  PROVE  IInv'
<1> USE DEF IsPaid, Fail, Succeed, arrival, store
<1>1. /\ c \notin marked /\ status[c] = NotYet /\ req[c] \in Requests
      /\ req[c].fails = {} /\ born[c] = epoch /\ settled[c] \subseteq paid
  BY DEF IInv, TypeOK, HandlerState, PaidIffMarked, Running, NotYet, OK
<1>2. TypeOK' /\ HandlerState'
  BY <1>1 DEF IInv, TypeOK, HandlerState, Running, Places, Statuses, OK,
       Conflict, NotYet
<1>3. AtMostOnePayment' /\ PaidIffMarked'
  BY <1>1 DEF IInv, TypeOK, AtMostOnePayment, PaidIffMarked
<1>4. ConflictHasCause'
  <2>1. CASE req[c].ref \in paid
    <3>1. PICK d \in marked : req[d].ref = req[c].ref /\ born[d] = epoch
      BY <2>1 DEF IInv, PaidIffMarked
    <3>2. d # c
      BY <1>1
    <3> QED
      BY <1>1, <2>1, <3>1, <3>2 DEF IInv, TypeOK, ConflictHasCause
  <2>2. CASE req[c].ref \notin paid
    BY <1>1, <2>2 DEF IInv, TypeOK, ConflictHasCause, OK, Conflict
  <2> QED
    BY <2>1, <2>2
<1>5. NoApprovalAfterConfirmation' /\ OnlyCheckedReachStore'
  BY <1>1 DEF IInv, TypeOK, NoApprovalAfterConfirmation, OnlyCheckedReachStore,
       OK, Conflict
<1> QED
  BY <1>2, <1>3, <1>4, <1>5 DEF IInv

\* The one step that pays: it succeeds only for a bill no call of this
\* incarnation marked before.
LEMMA MarkPaidPreserves ==
  ASSUME IInv, NEW c \in Calls, MarkPaid(c)
  PROVE  IInv'
<1> USE DEF MarkPaid, Fail, Succeed, arrival, store
<1>1. /\ pc[c] = "markPaid" /\ c \notin marked /\ status[c] = NotYet /\ req[c] \in Requests
      /\ req[c].fails = {} /\ req[c].op = "update" /\ req[c].ref \in Bills
      /\ born[c] = epoch /\ settled[c] \subseteq paid
  BY DEF IInv, TypeOK, HandlerState, PaidIffMarked, Running, NotYet, OK
<1>2. CASE req[c].ref \notin paid
  <2>1. /\ paid' = paid \cup {req[c].ref}
        /\ marked' = marked \cup {c}
        /\ status' = [status EXCEPT ![c] = OK]
        /\ pc' = [pc EXCEPT ![c] = "reply"]
        /\ UNCHANGED << req, born, settled, epoch >>
    BY <1>1, <1>2
  <2> HIDE DEF MarkPaid
  <2>2. TypeOK' /\ HandlerState'
    BY <1>1, <2>1 DEF IInv, TypeOK, HandlerState, Running, Places, Statuses, OK,
         NotYet
  <2>3. \A d \in marked : born[d] = epoch => req[d].ref # req[c].ref
    BY <1>2 DEF IInv, PaidIffMarked
  <2>4. AtMostOnePayment'
    BY <1>1, <2>1, <2>3 DEF IInv, TypeOK, AtMostOnePayment
  <2>5. PaidIffMarked'
    BY <1>1, <2>1 DEF IInv, TypeOK, PaidIffMarked
  <2>6. ConflictHasCause'
    BY <1>1, <2>1 DEF IInv, TypeOK, ConflictHasCause, OK, Conflict
  <2>7. NoApprovalAfterConfirmation' /\ OnlyCheckedReachStore'
    BY <1>1, <1>2, <2>1
       DEF IInv, TypeOK, NoApprovalAfterConfirmation, OnlyCheckedReachStore
  <2> QED
    BY <2>2, <2>4, <2>5, <2>6, <2>7 DEF IInv
<1>3. CASE req[c].ref \in paid
  <2>1. /\ status' = [status EXCEPT ![c] = Conflict]
        /\ pc' = [pc EXCEPT ![c] = "done"]
        /\ UNCHANGED << req, born, settled, epoch, paid, marked >>
    BY <1>3
  <2> HIDE DEF MarkPaid
  <2>2. TypeOK' /\ HandlerState'
    BY <1>1, <2>1 DEF IInv, TypeOK, HandlerState, Running, Places, Statuses,
         Conflict, NotYet
  <2>3. AtMostOnePayment' /\ PaidIffMarked'
    BY <1>1, <2>1 DEF IInv, TypeOK, AtMostOnePayment, PaidIffMarked
  <2>4. PICK d \in marked : req[d].ref = req[c].ref /\ born[d] = epoch
    BY <1>3 DEF IInv, PaidIffMarked
  <2>5. ConflictHasCause'
    BY <1>1, <2>1, <2>4 DEF IInv, TypeOK, ConflictHasCause
  <2>6. NoApprovalAfterConfirmation' /\ OnlyCheckedReachStore'
    BY <1>1, <2>1
       DEF IInv, TypeOK, NoApprovalAfterConfirmation, OnlyCheckedReachStore, OK,
           Conflict
  <2> QED
    BY <2>2, <2>3, <2>5, <2>6 DEF IInv
<1> QED
  BY <1>2, <1>3

\* Writing the answer changes no status.
LEMMA ReplyPreserves ==
  ASSUME IInv, NEW c \in Calls, Reply(c)
  PROVE  IInv'
<1> USE DEF Reply, Continue, arrival, store
<1>1. TypeOK' /\ HandlerState'
  BY DEF IInv, TypeOK, HandlerState, Running, Places, OK, NotYet
<1>2. AtMostOnePayment' /\ PaidIffMarked' /\ ConflictHasCause'
      /\ NoApprovalAfterConfirmation' /\ OnlyCheckedReachStore'
  BY DEF IInv, AtMostOnePayment, PaidIffMarked, ConflictHasCause,
         NoApprovalAfterConfirmation, OnlyCheckedReachStore
<1> QED
  BY <1>1, <1>2 DEF IInv

\* After a restart no bill is paid, and no call was marked by the incarnation
\* that begins.
LEMMA RestartPreserves ==
  ASSUME IInv, Restart
  PROVE  IInv'
<1> USE DEF Restart, arrival
<1>1. TypeOK'
  BY RestartsAssumption DEF IInv, TypeOK, Places
<1>2. HandlerState'
  BY DEF IInv, TypeOK, HandlerState, Running
<1>3. AtMostOnePayment' /\ PaidIffMarked'
  <2>1. \A d \in marked : born[d] # epoch'
    BY RestartsAssumption DEF IInv, TypeOK, HandlerState
  <2> QED
    BY <2>1 DEF IInv, AtMostOnePayment, PaidIffMarked
<1>4. ConflictHasCause' /\ NoApprovalAfterConfirmation' /\ OnlyCheckedReachStore'
  BY DEF IInv, ConflictHasCause, NoApprovalAfterConfirmation, OnlyCheckedReachStore
<1> QED
  BY <1>1, <1>2, <1>3, <1>4 DEF IInv

LEMMA StutterPreserves ==
  ASSUME IInv, UNCHANGED vars
  PROVE  IInv'
BY DEF vars, IInv, TypeOK, HandlerState, Running, AtMostOnePayment,
       PaidIffMarked, ConflictHasCause, NoApprovalAfterConfirmation,
       OnlyCheckedReachStore

\* The invariant is inductive: one case per action.
LEMMA NextIInv == IInv /\ [Next]_vars => IInv'
<1> SUFFICES ASSUME IInv, [Next]_vars
             PROVE  IInv'
  OBVIOUS
<1>1. ASSUME NEW c \in Calls, NEW r \in Requests, Receive(c, r)
      PROVE  IInv'
  BY <1>1, ReceivePreserves
<1>2. ASSUME NEW c \in Calls, Step(c)
      PROVE  IInv'
  BY <1>2, DecryptRequestPreserves, LookupPreserves, IsPaidPreserves,
     MarkPaidPreserves, ReplyPreserves DEF Step
<1>3. CASE Restart
  BY <1>3, RestartPreserves
<1>4. CASE UNCHANGED vars
  BY <1>4, StutterPreserves
<1> QED
  BY <1>1, <1>2, <1>3, <1>4 DEF Next

-----------------------------------------------------------------------------
(* The theorems *)

\* The inductive invariant holds in every reachable state.
THEOREM Invariance == Spec => []IInv
<1> QED
  BY InitIInv, NextIInv, PTL DEF Spec

\* Every variable keeps its type: flags only for known bills, statuses only
\* those fail and writeJSON write.
THEOREM TypeCorrectness == Spec => []TypeOK
<1>1. IInv => TypeOK
  BY DEF IInv
<1> QED
  BY <1>1, Invariance, PTL

\* However many update handlers run side by side, MarkPaid returns true to at
\* most one of those for a bill in each incarnation (updateHandler).
THEOREM NoDoublePayment == Spec => []AtMostOnePayment
<1>1. IInv => AtMostOnePayment
  BY DEF IInv
<1> QED
  BY <1>1, Invariance, PTL

\* A flag is set exactly for the bills this incarnation confirmed.
THEOREM PaymentsAreBacked == Spec => []PaidIffMarked
<1>1. IInv => PaidIffMarked
  BY DEF IInv
<1> QED
  BY <1>1, Invariance, PTL

\* Every 409 is due to another update that paid the bill.
THEOREM ConflictsAreTrue == Spec => []ConflictHasCause
<1>1. IInv => ConflictHasCause
  BY DEF IInv
<1> QED
  BY <1>1, Invariance, PTL

\* A call that arrives after a bill's payment was confirmed is refused.
THEOREM ConfirmationIsFinal == Spec => []NoApprovalAfterConfirmation
<1>1. IInv => NoApprovalAfterConfirmation
  BY DEF IInv
<1> QED
  BY <1>1, Invariance, PTL

\* A request that fails a check neither reads nor changes the store's answer.
THEOREM ChecksComeFirst == Spec => []OnlyCheckedReachStore
<1>1. IInv => OnlyCheckedReachStore
  BY DEF IInv
<1> QED
  BY <1>1, Invariance, PTL

-----------------------------------------------------------------------------
(* GOServer implements AtomicGO. *)

Lost == { c \in Calls : pc[c] = "killed" /\ status[c] = NotYet }

\* A handler that has not settled on a status is a pending call of AtomicGO.
LEMMA UndecidedIsPending ==
  ASSUME IInv, NEW c \in Calls,
         pc[c] \in {"decrypt", "lookup", "isPaid", "markPaid"}
  PROVE  Atomic!Pending(c)
BY DEF IInv, HandlerState, Atomic!Pending, NotYet, Atomic!NotYet

\* A step that settles nothing and kills nobody leaves the lost calls alone.
LEMMA SameLost ==
  ASSUME IInv, NEW c \in Calls, NEW place, place # "killed", pc[c] # "killed",
         pc' = [pc EXCEPT ![c] = place],
         \A d \in Calls \ {c} : status'[d] = status[d]
  PROVE  Lost' = Lost
BY DEF Lost, IInv, TypeOK

\* Each step of GOServer is a step of AtomicGO or changes nothing it shows: the
\* request is judged at its last access to the store.
LEMMA StepSimulation == IInv /\ [Next]_vars => [Atomic!Next]_(Atomic!vars)
<1> SUFFICES ASSUME IInv, [Next]_vars
             PROVE  Atomic!Next \/ UNCHANGED << req, status, Lost, paid >>
  BY DEF Atomic!vars, Lost
<1>1. ASSUME NEW c \in Calls, NEW r \in Requests, Receive(c, r)
      PROVE  Atomic!Next
  <2>1. Lost' = Lost
    BY <1>1, SameLost DEF Receive
  <2>2. req[c] = NoRequest
    BY <1>1 DEF Receive, IInv, HandlerState
  <2>3. Atomic!Ask(c, r)
    BY <1>1, <2>1, <2>2 DEF Receive, store, Atomic!Ask, Lost
  <2> QED
    BY <2>3 DEF Atomic!Next, Atomic!Requests, Requests, Ops, Atomic!Ops
<1>2. ASSUME NEW c \in Calls, DecryptRequest(c)
      PROVE  Atomic!Next \/ UNCHANGED << req, status, Lost, paid >>
  <2>1. CASE Continue(c, "lookup")
    <3>1. Lost' = Lost
      BY <1>2, <2>1, SameLost DEF DecryptRequest, Continue
    <3> QED
      BY <1>2, <2>1, <3>1 DEF DecryptRequest, Continue, arrival, store
  <2>2. ASSUME NEW k \in Checks, FirstFailed(req[c].fails, k), Fail(c, StatusOf[k])
        PROVE  Atomic!Next
    <3>1. Lost' = Lost
      BY <1>2, <2>2, SameLost DEF DecryptRequest, Fail, IInv, TypeOK
    <3>2. k \in req[c].fails /\ Atomic!Pending(c)
      BY <1>2, <2>2, FirstFailedFails, UndecidedIsPending DEF DecryptRequest
    <3>3. Atomic!Judge(c, Atomic!StatusOf[k]) /\ UNCHANGED paid
      BY <1>2, <2>2, <3>1, <3>2
         DEF DecryptRequest, Fail, arrival, store, Atomic!Judge, Lost, StatusOf,
             Atomic!StatusOf
    <3>4. Atomic!Decide(c)
      BY <3>2, <3>3 DEF Atomic!Decide, Atomic!Reject
    <3> QED
      BY <3>4 DEF Atomic!Next
  <2> QED
    BY <1>2, <2>1, <2>2 DEF DecryptRequest
<1>3. ASSUME NEW c \in Calls, Lookup(c)
      PROVE  Atomic!Next \/ UNCHANGED << req, status, Lost, paid >>
  <2>1. CASE req[c].ref \in Bills
    <3>1. PICK place \in {"isPaid", "markPaid"} : Continue(c, place)
      BY <1>3, <2>1 DEF Lookup
    <3>2. Lost' = Lost
      BY <1>3, <3>1, SameLost DEF Lookup, Continue
    <3> QED
      BY <1>3, <3>1, <3>2 DEF Lookup, Continue, arrival, store
  <2>2. CASE req[c].ref \notin Bills
    <3>1. Fail(c, NotFound)
      BY <1>3, <2>2 DEF Lookup
    <3>2. Lost' = Lost
      BY <1>3, <3>1, SameLost DEF Lookup, Fail, IInv, TypeOK
    <3>3. Atomic!Pending(c) /\ req[c].fails = {}
      BY <1>3, UndecidedIsPending DEF Lookup, IInv, HandlerState
    <3>4. Atomic!RefuseUnknown(c)
      BY <1>3, <2>2, <3>1, <3>2, <3>3
         DEF Lookup, Fail, arrival, store, Lost, Atomic!RefuseUnknown,
             Atomic!Judge, Atomic!NotFound, NotFound
    <3> QED
      BY <3>3, <3>4 DEF Atomic!Decide, Atomic!Next
  <2> QED
    BY <2>1, <2>2
<1>4. ASSUME NEW c \in Calls, IsPaid(c)
      PROVE  Atomic!Next
  <2>1. /\ Atomic!Pending(c) /\ req[c].fails = {}
        /\ req[c].op = "presentment" /\ req[c].ref \in Bills
    BY <1>4, UndecidedIsPending DEF IsPaid, IInv, HandlerState
  <2>2. CASE req[c].ref \in paid
    <3>1. Fail(c, Conflict)
      BY <1>4, <2>2 DEF IsPaid
    <3>2. Lost' = Lost
      BY <1>4, <3>1, SameLost DEF IsPaid, Fail, IInv, TypeOK
    <3>3. Atomic!RefusePaid(c)
      BY <1>4, <2>1, <2>2, <3>1, <3>2
         DEF IsPaid, Fail, arrival, store, Lost, Atomic!RefusePaid,
             Atomic!Judge, Atomic!Conflict, Conflict
    <3> QED
      BY <2>1, <3>3 DEF Atomic!Decide, Atomic!Next
  <2>3. CASE req[c].ref \notin paid
    <3>1. Succeed(c)
      BY <1>4, <2>3 DEF IsPaid
    <3>2. Lost' = Lost
      BY <1>4, <3>1, SameLost DEF IsPaid, Succeed, IInv, TypeOK
    <3>3. Atomic!Present(c)
      BY <1>4, <2>1, <2>3, <3>1, <3>2
         DEF IsPaid, Succeed, arrival, store, Lost, Atomic!Present,
             Atomic!Judge, Atomic!OK, OK
    <3> QED
      BY <2>1, <3>3 DEF Atomic!Decide, Atomic!Next
  <2> QED
    BY <2>2, <2>3
<1>5. ASSUME NEW c \in Calls, MarkPaid(c)
      PROVE  Atomic!Next
  <2>1. /\ Atomic!Pending(c) /\ req[c].fails = {}
        /\ req[c].op = "update" /\ req[c].ref \in Bills
    BY <1>5, UndecidedIsPending DEF MarkPaid, IInv, HandlerState
  <2>2. CASE req[c].ref \in paid
    <3>1. Fail(c, Conflict) /\ UNCHANGED store
      BY <1>5, <2>2 DEF MarkPaid
    <3>2. Lost' = Lost
      BY <1>5, <3>1, SameLost DEF MarkPaid, Fail, IInv, TypeOK
    <3>3. Atomic!RefusePaid(c)
      BY <1>5, <2>1, <2>2, <3>1, <3>2
         DEF MarkPaid, Fail, arrival, store, Lost, Atomic!RefusePaid,
             Atomic!Judge, Atomic!Conflict, Conflict
    <3> QED
      BY <2>1, <3>3 DEF Atomic!Decide, Atomic!Next
  <2>3. CASE req[c].ref \notin paid
    <3>1. Succeed(c) /\ paid' = paid \cup {req[c].ref}
      BY <1>5, <2>1, <2>3 DEF MarkPaid
    <3>2. Lost' = Lost
      BY <1>5, <3>1, SameLost DEF MarkPaid, Succeed, IInv, TypeOK
    <3>3. Atomic!Pay(c)
      BY <1>5, <2>1, <2>3, <3>1, <3>2
         DEF MarkPaid, Succeed, arrival, Lost, Atomic!Pay, Atomic!Judge,
             Atomic!OK, OK
    <3> QED
      BY <2>1, <3>3 DEF Atomic!Decide, Atomic!Next
  <2> QED
    BY <2>2, <2>3
<1>6. ASSUME NEW c \in Calls, Reply(c)
      PROVE  UNCHANGED << req, status, Lost, paid >>
  <2>1. Lost' = Lost
    BY <1>6, SameLost DEF Reply, Continue
  <2> QED
    BY <1>6, <2>1 DEF Reply, Continue, arrival, store
<1>7. CASE Restart
  <2>1. \A c \in Calls : Atomic!Pending(c) <=> Running(c) /\ status[c] = NotYet
    BY DEF Atomic!Pending, Atomic!NotYet, NotYet, IInv, TypeOK, HandlerState,
           Running, Places
  <2>2. Lost' = Lost \cup { c \in Calls : Atomic!Pending(c) }
    BY <1>7, <2>1 DEF Restart, Lost, Running, IInv, TypeOK
  <2>3. Atomic!Reset
    BY <1>7, <2>2 DEF Restart, arrival, Lost, Atomic!Reset
  <2> QED
    BY <2>3 DEF Atomic!Next
<1>8. CASE UNCHANGED vars
  BY <1>8 DEF vars, Lost
<1> QED
  BY <1>1, <1>2, <1>3, <1>4, <1>5, <1>6, <1>7, <1>8 DEF Next, Step

LEMMA InitSimulation == Init => Atomic!Init
BY DEF Init, Atomic!Init, Atomic!NotYet, NotYet

\* The handlers, preempted between any two store calls and killed by restarts,
\* behave as the service that judges every request in one step.
THEOREM Refinement == Spec => ImplementsAtomicGO
<1> QED
  BY Invariance, InitSimulation, StepSimulation, PTL
     DEF Spec, ImplementsAtomicGO, Atomic!Spec

=============================================================================
