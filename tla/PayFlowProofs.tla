--------------------------- MODULE PayFlowProofs ----------------------------
(***************************************************************************)
(* Proofs about PayFlow for any number of look-ups, pays, bills and        *)
(* services, whatever is pressed, lost or late: the inductive invariant    *)
(* IInv and the safety properties that follow from it.                     *)
(***************************************************************************)
EXTENDS PayFlow, FiniteSetTheorems, TLAPS

\* The servers: what is open was confirmed, what is confirmed was granted, and a
\* confirmed pay has closed its transaction, which was open when it was asked.
ServerState ==
  /\ \A l \in open : answer[l] = "ok"
  /\ \A h \in Asks : answer[h] = "ok" => h \in granted
  /\ \A y \in Pays :
       /\ answer[y] \in {"waiting", "unknown", "ok"} => answer[txn[y]] = "ok"
       /\ answer[y] = "ok" => txn[y] \notin open

\* The page: before the services are there nothing is asked or shown; a look-up is
\* presented once, and paid only after that; a bill whose receipt has been shown
\* leaves the page together with the receipt.
PageState ==
  /\ listed # "loaded" =>
       /\ service = NoService /\ presentment = Nothing /\ receipt = Nothing
       /\ pending = {} /\ overtaken = {}
  /\ \A h \in pending : answer[h] # "none"
  /\ presentment # Nothing => answer[presentment] # "none" /\ presentment \notin pending
  /\ \A y \in Pays : answer[y] # "none" =>
       txn[y] \in LookUps /\ answer[txn[y]] # "none" /\ txn[y] \notin pending
  /\ \A y \in shown : /\ answer[y] = "ok"
                      /\ presentment = txn[y] => receipt # Nothing
  /\ receipt # Nothing => receipt \in shown

\* What is in flight is counted by busy and by what was overtaken.
Counted ==
  /\ IsFiniteSet(pending) /\ IsFiniteSet(overtaken)
  /\ busy => pending # {}
  /\ Cardinality(pending) <= Cardinality(overtaken) + (IF busy THEN 1 ELSE 0)

\* Where nothing was overtaken one request is in flight at most, beside no receipt
\* and, if it pays, beside no error.
Orderly ==
  /\ pending # {} => busy /\ receipt = Nothing /\ \E h \in Asks : pending = {h}
  /\ pending \cap Pays # {} => ~error
  /\ receipt # Nothing => ~error

\* A look-up that the page still waits for as it sent it.
Fresh(l) == l \in LookUps /\ l \in pending /\ l \notin overtaken

\* A pay of the transaction shown, or one in which something overtaken has a part.
Follows(y) ==
  presentment = txn[y] \/ y \in overtaken \/ txn[y] \in overtaken \/ presentment \in overtaken

\* A fresh look-up found an empty page: what is shown or paid beside it came of what
\* it overtook.
Traced ==
  /\ \A l : Fresh(l) => /\ wanted[l] = service
                        /\ \A k : Fresh(k) => k = l
                        /\ presentment = Nothing \/ presentment \in overtaken
                        /\ \A y \in Pays : y \in pending \/ y = receipt =>
                             y \in overtaken \/ txn[y] \in overtaken
  /\ presentment # Nothing /\ presentment \notin overtaken =>
       wanted[presentment] = service
  /\ \A y \in Pays : y \in pending \/ y = receipt => Follows(y)

OrderState == Counted /\ (overtaken = {} => Orderly) /\ Traced

IInv == TypeOK /\ ServerState /\ PageState /\ OrderState

LEMMA InitIInv == Init => IInv
<1> SUFFICES ASSUME Init PROVE IInv
  OBVIOUS
<1> USE DEF Init, Server!Init
<1>1. Server!TypeOK
  BY DEF Server!TypeOK, Server!Told
<1>2. TypeOK
  BY <1>1 DEF TypeOK
<1>3. ServerState /\ PageState
  BY DEF ServerState, PageState, Asks, Server!Asks
<1>4. OrderState
  BY AsksAssumption, FS_EmptySet DEF OrderState, Counted, Orderly, Traced, Fresh, Asks
<1> QED
  BY <1>2, <1>3, <1>4 DEF IInv

-----------------------------------------------------------------------------
(* The form is used *)

LEMMA SameServer ==
  ASSUME IInv, UNCHANGED server
  PROVE  ServerState' /\ Server!TypeOK'
BY DEF IInv, TypeOK, ServerState, server, Server!TypeOK

LEMMA FormPreserves ==
  ASSUME IInv,
         Load \/ LoadFails \/ \E r \in RefNos \cup {NoRef} : Type(r)
  PROVE  IInv'
<1> USE DEF Load, LoadFails, Type, form, screen, awaited, history
<1>1. UNCHANGED server
  OBVIOUS
<1>2. TypeOK'
  BY <1>1, SameServer DEF IInv, TypeOK
<1>3. PageState'
  BY <1>1 DEF IInv, PageState, server
<1>4. UNCHANGED << presentment, receipt, busy, pending, wanted, overtaken, txn >>
  BY <1>1 DEF server
<1>5. /\ service' = service \/ listed # "loaded"
      /\ error' = error \/ listed # "loaded"
  OBVIOUS
<1>6. listed # "loaded" => presentment = Nothing /\ receipt = Nothing /\ pending = {}
  BY DEF IInv, PageState
<1> HIDE DEF Load, LoadFails, Type
<1>7. OrderState'
  BY <1>4, <1>5, <1>6
     DEF IInv, OrderState, Counted, Orderly, Traced, Fresh, Follows
<1> QED
  BY <1>1, <1>2, <1>3, <1>7, SameServer DEF IInv

\* Whatever resets the form takes bill and receipt off the page together, and what
\* is then in flight is overtaken.
LEMMA ResetPreserves ==
  ASSUME IInv,
         \/ \E s \in Services \cup {NoService} : Select(s)
         \/ NewPayment \/ Remount \/ LookUpIncomplete
  PROVE  IInv'
<1> USE DEF Select, NewPayment, Remount, LookUpIncomplete, reset, Overtake, form, awaited,
            history
<1>1. UNCHANGED server
  OBVIOUS
<1>2. TypeOK'
  BY <1>1, SameServer DEF IInv, TypeOK
<1>3. PageState'
  BY <1>1, AsksAssumption DEF IInv, TypeOK, PageState, server, Asks
<1>4. /\ presentment' = Nothing /\ receipt' = Nothing /\ overtaken' = pending'
      /\ \/ pending' = pending /\ busy' = busy
         \/ pending' = {} /\ busy' = FALSE
  OBVIOUS
<1> HIDE DEF Select, NewPayment, Remount, LookUpIncomplete
<1>5. Counted'
  <2>1. IsFiniteSet(pending') /\ Cardinality(pending') \in Nat
    BY <1>4, FS_EmptySet, FS_CardinalityType DEF IInv, OrderState, Counted
  <2> QED
    BY <1>4, <2>1 DEF IInv, OrderState, Counted
<1>6. Traced' /\ (overtaken = {} => Orderly)'
  BY <1>4, AsksAssumption DEF Traced, Fresh, Follows, Orderly, Asks
<1> QED
  BY <1>1, <1>2, <1>3, <1>5, <1>6, SameServer DEF IInv, OrderState

-----------------------------------------------------------------------------
(* Requests are sent *)

\* One more is counted by busy, whether it takes the place of what the page showed
\* or starts when nothing is counted by busy.
LEMMA SendCounts ==
  ASSUME IInv, NEW h, busy' = TRUE, pending' = pending \cup {h},
         \/ overtaken' = pending
         \/ ~busy /\ overtaken' = overtaken
  PROVE  Counted'
<1>1. /\ IsFiniteSet(pending) /\ IsFiniteSet(overtaken)
      /\ Cardinality(pending) \in Nat /\ Cardinality(overtaken) \in Nat
      /\ Cardinality(pending) <= Cardinality(overtaken) + (IF busy THEN 1 ELSE 0)
  BY FS_CardinalityType DEF IInv, OrderState, Counted
<1>2. /\ IsFiniteSet(pending') /\ Cardinality(pending') \in Nat
      /\ Cardinality(pending') <= Cardinality(pending) + 1
  <2>1. CASE h \in pending
    <3>1. pending' = pending
      BY <2>1
    <3> QED
      BY <1>1, <3>1
  <2>2. CASE h \notin pending
    BY <1>1, <2>2, FS_AddElement
  <2> QED
    BY <2>1, <2>2
<1>3. CASE overtaken' = pending
  BY <1>1, <1>2, <1>3 DEF Counted
<1>4. CASE ~busy /\ overtaken' = overtaken
  BY <1>1, <1>2, <1>4 DEF Counted
<1> QED
  BY <1>3, <1>4

LEMMA LookupPreserves ==
  ASSUME IInv, NEW l \in LookUps, lookup(l)
  PROVE  IInv'
<1> USE DEF lookup, reset, Overtake, Send, form, Server!LookUp, Server!Tell
<1>1. /\ l \in Asks /\ l \in Server!Asks /\ l \notin Pays /\ answer[l] = "none"
      /\ typed \in RefNos /\ service \in Services /\ service # NoService
  BY AsksAssumption DEF IInv, TypeOK, Asks, Server!Asks
<1>2. /\ answer'[l] \in {"waiting", "refused"}
      /\ \A h \in Asks \ {l} : answer'[h] = answer[h]
      /\ UNCHANGED << txn, open, granted, paid >>
  BY <1>1 DEF IInv, TypeOK, Server!TypeOK, Asks, Server!Asks
<1>3. TypeOK'
  BY <1>1 DEF IInv, TypeOK, Server!TypeOK, Server!Told, Asks
<1>4. ServerState'
  BY <1>1, <1>2 DEF IInv, TypeOK, Server!TypeOK, ServerState, PageState, Asks
<1>5. PageState'
  BY <1>1, <1>2, AsksAssumption DEF IInv, TypeOK, PageState, Asks
<1>6. Counted'
  BY SendCounts
<1>7. (overtaken = {} => Orderly)'
  BY <1>1 DEF Orderly
<1>8. Traced'
  <2>1. /\ presentment' = Nothing /\ receipt' = Nothing /\ service' = service
        /\ overtaken' = pending /\ pending' = pending \cup {l} /\ wanted'[l] = service
    BY DEF IInv, TypeOK
  <2>2. Nothing \notin Pays
    BY AsksAssumption DEF Asks
  <2> QED
    BY <1>1, <2>1, <2>2 DEF Traced, Fresh, Follows
<1> QED
  BY <1>3, <1>4, <1>5, <1>6, <1>7, <1>8 DEF IInv, OrderState

\* Where nothing was overtaken nothing is in flight when the button can be pressed.
LEMMA PayPreserves ==
  ASSUME IInv, NEW y \in Pays, pay(y)
  PROVE  IInv'
<1> USE DEF pay, CanPay, Send, form, history, Server!Pay, Server!Tell
<1>1. /\ y \in Asks /\ y \in Server!Asks /\ y \notin LookUps /\ answer[y] = "none"
      /\ presentment \in LookUps /\ presentment # y /\ receipt = Nothing
  BY AsksAssumption DEF IInv, TypeOK, Asks, Server!Asks
<1>2. /\ answer'[y] = IF presentment \in open /\ ref[presentment] \in Payable
                        THEN "waiting" ELSE "refused"
      /\ \A h \in Asks \ {y} : answer'[h] = answer[h]
      /\ txn'[y] = presentment
      /\ \A z \in Pays \ {y} : txn'[z] = txn[z]
      /\ UNCHANGED << ref, open, granted, paid >>
  BY <1>1 DEF IInv, TypeOK, Server!TypeOK, Asks, Server!Asks
<1>3. TypeOK'
  BY <1>1 DEF IInv, TypeOK, Server!TypeOK, Server!Told, Asks
<1>4. ServerState'
  BY <1>1, <1>2, AsksAssumption DEF IInv, TypeOK, Server!TypeOK, ServerState, PageState, Asks
<1>5. PageState'
  BY <1>1, <1>2, AsksAssumption DEF IInv, TypeOK, PageState, Asks
<1>6. Counted'
  BY SendCounts
<1>7. (overtaken = {} => Orderly)'
  BY <1>1 DEF IInv, OrderState, Orderly
<1>8. Traced'
  <2>1. /\ UNCHANGED << service, presentment, receipt, overtaken, wanted >>
        /\ pending' = pending \cup {y} /\ receipt # y
        /\ \A l : Fresh(l)' <=> Fresh(l)
    BY <1>1, AsksAssumption DEF Fresh, Asks
  <2> HIDE DEF pay
  <2> QED
    BY <1>1, <1>2, <2>1, AsksAssumption DEF IInv, OrderState, Traced, Follows, Asks
<1> QED
  BY <1>3, <1>4, <1>5, <1>6, <1>7, <1>8 DEF IInv, OrderState

-----------------------------------------------------------------------------
(* Answers arrive *)

\* With each answer one less is in flight, and busy is off: none if nothing was
\* overtaken.
LEMMA SettleFacts ==
  ASSUME IInv, NEW h, Settle(h)
  PROVE  /\ h \in pending /\ h \in Asks /\ ~busy' /\ h \notin pending'
         /\ pending' \subseteq pending
         /\ UNCHANGED << service, wanted, overtaken >>
         /\ overtaken = {} => pending' = {} /\ receipt = Nothing
         /\ Counted'
<1>1. /\ h \in pending /\ h \in Asks /\ ~busy' /\ h \notin pending'
      /\ pending' \subseteq pending
      /\ UNCHANGED << service, wanted, overtaken >>
      /\ overtaken = {} => pending' = {} /\ receipt = Nothing
  BY DEF Settle, form, IInv, TypeOK, OrderState, Orderly
<1>2. /\ IsFiniteSet(pending) /\ IsFiniteSet(overtaken)
      /\ Cardinality(pending) \in Nat /\ Cardinality(overtaken) \in Nat
      /\ Cardinality(pending) <= Cardinality(overtaken) + 1
  BY FS_CardinalityType DEF IInv, OrderState, Counted
<1>3. IsFiniteSet(pending') /\ Cardinality(pending') = Cardinality(pending) - 1
  BY <1>1, <1>2, FS_RemoveElement DEF Settle
<1>4. Counted'
  BY <1>1, <1>2, <1>3 DEF Counted
<1> QED
  BY <1>1, <1>4

\* A fresh look-up is the only one, so none is left when its answer is shown.
LEMMA PresentedPreserves ==
  ASSUME IInv, NEW l \in LookUps, Presented(l)
  PROVE  IInv'
<1> USE DEF Presented, Settle, form
<1>1. UNCHANGED server
  BY DEF server
<1>2. l \in LookUps /\ l # Nothing
  BY AsksAssumption DEF Asks
<1>3. TypeOK'
  BY <1>1, <1>2, SameServer, SettleFacts DEF IInv, TypeOK
<1>4. PageState'
  <2>1. \A y \in shown : txn[y] # l
    BY SettleFacts DEF IInv, TypeOK, PageState
  <2> QED
    BY <1>1, <2>1 DEF IInv, TypeOK, PageState, server
<1>5. (overtaken = {} => Orderly)'
  BY SettleFacts DEF Orderly
<1>6. Traced'
  <2>1. /\ presentment' = l /\ receipt' = receipt /\ txn' = txn /\ l \in pending
        /\ pending' = pending \ {l} /\ UNCHANGED << service, wanted, overtaken >>
    BY <1>1, SettleFacts DEF server
  <2> HIDE DEF Presented
  <2>2. CASE l \in overtaken
    BY <1>2, <2>1, <2>2 DEF IInv, OrderState, Traced, Fresh, Follows
  <2>3. CASE Fresh(l)
    <3>1. \A k : ~Fresh(k)'
      BY <2>1, <2>3 DEF IInv, OrderState, Traced, Fresh
    <3> QED
      BY <2>1, <2>3, <3>1 DEF IInv, OrderState, Traced, Follows
  <2> QED
    BY <2>1, <2>2, <2>3 DEF Fresh
<1> QED
  BY <1>1, <1>3, <1>4, <1>5, <1>6, SameServer, SettleFacts DEF IInv, OrderState

LEMMA PaidPreserves ==
  ASSUME IInv, NEW y \in Pays, Paid(y)
  PROVE  IInv'
<1> USE DEF Paid, Settle, form
<1>1. UNCHANGED server
  BY DEF server
<1>2. y # Nothing /\ y \notin LookUps
  BY AsksAssumption DEF Asks
<1>3. TypeOK'
  BY <1>1, <1>2, SameServer, SettleFacts DEF IInv, TypeOK
<1>4. PageState'
  BY <1>1, <1>2 DEF IInv, TypeOK, PageState, server
<1>5. (overtaken = {} => Orderly)'
  BY SettleFacts DEF IInv, OrderState, Orderly
<1>6. Traced'
  <2>1. /\ presentment' = presentment /\ receipt' = y /\ txn' = txn /\ y \in pending
        /\ pending' = pending \ {y} /\ UNCHANGED << service, wanted, overtaken >>
        /\ \A l : Fresh(l)' <=> Fresh(l)
    BY <1>1, <1>2, SettleFacts DEF server, Fresh
  <2> HIDE DEF Paid
  <2> QED
    BY <2>1 DEF IInv, OrderState, Traced, Follows
<1> QED
  BY <1>1, <1>3, <1>4, <1>5, <1>6, SameServer, SettleFacts DEF IInv, OrderState

LEMMA FailPreserves ==
  ASSUME IInv, NEW h \in Asks, Fail(h)
  PROVE  IInv'
<1> USE DEF Fail, Settle, form
<1>1. UNCHANGED server
  BY DEF server
<1>2. TypeOK'
  BY <1>1, SameServer DEF IInv, TypeOK
<1>3. PageState'
  BY <1>1 DEF IInv, TypeOK, PageState, server
<1>4. (overtaken = {} => Orderly)'
  BY SettleFacts DEF Orderly
<1>5. Traced'
  <2>1. /\ UNCHANGED << presentment, receipt, txn, service, wanted, overtaken >>
        /\ pending' \subseteq pending
    BY <1>1, SettleFacts DEF server
  <2>2. \A l : Fresh(l)' => Fresh(l)
    BY <2>1 DEF Fresh
  <2> HIDE DEF Fail
  <2> QED
    BY <2>1, <2>2 DEF IInv, OrderState, Traced, Follows
<1> QED
  BY <1>1, <1>2, <1>3, <1>4, <1>5, SameServer, SettleFacts DEF IInv, OrderState

-----------------------------------------------------------------------------
(* The servers act *)

\* A transaction that a pay was asked for is never opened again: its look-up is
\* answered already.
LEMMA ServePreserves ==
  ASSUME IInv, Server!Serve, UNCHANGED page
  PROVE  IInv'
<1> USE DEF page, form, screen, awaited, history
<1>1. \A y \in Pays : answer[y] # "none" => txn[y] \in LookUps
  BY DEF IInv, PageState
<1>2. txn' = txn => OrderState'
  BY DEF IInv, OrderState, Counted, Orderly, Traced, Fresh, Follows
<1>3. CASE \E h \in Asks : Server!Confirm(h)
  <2>1. PICK h \in Asks : Server!Confirm(h)
    BY <1>3
  <2>2. /\ answer[h] = "waiting" /\ h \in granted /\ h \in Server!Asks
        /\ answer' = [answer EXCEPT ![h] = "ok"]
        /\ open' = IF h \in LookUps THEN open \cup {h} ELSE open \ {txn[h]}
        /\ UNCHANGED << ref, txn, granted, paid >>
    BY <2>1 DEF Server!Confirm, Server!Tell, Asks, Server!Asks
  <2>3. answer'[h] = "ok" /\ \A k \in Asks \ {h} : answer'[k] = answer[k]
    BY <2>2 DEF IInv, TypeOK, Server!TypeOK, Asks, Server!Asks
  <2>4. TypeOK'
    BY <2>2 DEF IInv, TypeOK, Server!TypeOK, Server!Told
  <2>5. ServerState'
    BY <1>1, <2>2, <2>3, AsksAssumption
       DEF IInv, TypeOK, Server!TypeOK, ServerState, Asks
  <2>6. PageState' /\ OrderState'
    BY <1>2, <2>2, <2>3 DEF IInv, TypeOK, PageState, Asks
  <2> QED
    BY <2>4, <2>5, <2>6 DEF IInv
<1>4. CASE \E h \in Asks : Server!Refuse(h) \/ Server!GiveUp(h)
  <2>1. PICK h \in Asks, told \in {"refused", "unknown"} :
          /\ answer[h] = "waiting" /\ answer' = [answer EXCEPT ![h] = told]
          /\ UNCHANGED << ref, txn, open, granted, paid >>
    BY <1>4 DEF Server!Refuse, Server!GiveUp, Server!Tell
  <2>2. answer'[h] = told /\ \A k \in Asks \ {h} : answer'[k] = answer[k]
    BY <2>1 DEF IInv, TypeOK, Server!TypeOK, Asks, Server!Asks
  <2>3. TypeOK'
    BY <2>1 DEF IInv, TypeOK, Server!TypeOK, Server!Told
  <2>4. ServerState'
    BY <1>1, <2>1, <2>2 DEF IInv, TypeOK, Server!TypeOK, ServerState, Asks
  <2>5. PageState' /\ OrderState'
    BY <1>2, <2>1, <2>2 DEF IInv, TypeOK, PageState, Asks
  <2> QED
    BY <2>3, <2>4, <2>5 DEF IInv
<1>5. CASE Server!Close
  <2>1. /\ \A h \in Asks :
             answer'[h] = IF answer[h] = "waiting" THEN "unknown" ELSE answer[h]
        /\ open' = {} /\ UNCHANGED << ref, txn, granted, paid >>
    BY <1>5 DEF Server!Close, Asks, Server!Asks
  <2>2. TypeOK'
    BY <1>5 DEF Server!Close, IInv, TypeOK, Server!TypeOK, Server!Told
  <2>3. ServerState'
    BY <1>1, <2>1 DEF IInv, TypeOK, ServerState, Asks
  <2>4. PageState' /\ OrderState'
    BY <1>2, <2>1 DEF IInv, TypeOK, PageState, Asks
  <2> QED
    BY <2>2, <2>3, <2>4 DEF IInv
<1>6. CASE Server!Forget \/ (\E l \in LookUps : Server!GrantLookUp(l))
                        \/ (\E y \in Pays : Server!GrantPay(y))
  <2>1. /\ UNCHANGED << ref, txn, answer, open >>
        /\ granted \subseteq granted' /\ granted' \subseteq Server!Asks
        /\ paid' \in SUBSET Bills
    BY <1>6 DEF Server!Forget, Server!GrantLookUp, Server!GrantPay, IInv, TypeOK,
       Server!TypeOK, Server!Asks
  <2>2. TypeOK'
    BY <2>1 DEF IInv, TypeOK, Server!TypeOK
  <2>3. ServerState' /\ PageState' /\ OrderState'
    BY <1>2, <2>1 DEF IInv, ServerState, PageState
  <2> QED
    BY <2>2, <2>3 DEF IInv
<1> QED
  BY <1>3, <1>4, <1>5, <1>6 DEF Server!Serve, Server!Respond, Asks, Server!Asks

LEMMA NextIInv == IInv /\ [Next]_vars => IInv'
<1>1. CASE UNCHANGED vars
  BY <1>1, SameServer DEF vars, page, form, screen, awaited, history, server, IInv,
     TypeOK, ServerState, PageState, OrderState, Counted, Orderly, Traced, Fresh, Follows
<1>2. ASSUME IInv, NEW h \in Asks, Answered(h) \/ Lost(h)
      PROVE  IInv'
  BY <1>2, PresentedPreserves, PaidPreserves, FailPreserves
     DEF Answered, Lost, Failed, Presented, Paid
<1> QED
  BY <1>1, <1>2, FormPreserves, ResetPreserves, LookupPreserves, PayPreserves,
     ServePreserves
     DEF Next

\* What IInv says holds always, whatever is pressed, lost, late or restarted.
THEOREM Invariance == Spec => []IInv
<1> QED
  BY InitIInv, NextIInv, PTL DEF Spec

-----------------------------------------------------------------------------
(* The safety properties *)

\* Every variable of the page and of the ledger keeps its type.
THEOREM TypeCorrectness == Spec => []TypeOK
<1>1. IInv => TypeOK
  BY DEF IInv
<1> QED
  BY <1>1, Invariance, PTL

\* A payment whose receipt was ever shown was taken, its transaction is closed
\* and no page offers it again.
THEOREM ReceiptsAreFinal == Spec => []PaidIsFinal
<1>1. IInv => PaidIsFinal
  BY DEF IInv, TypeOK, ServerState, PageState, PaidIsFinal, CanPay, Asks
<1> QED
  BY <1>1, Invariance, PTL

\* On any page busy tells the truth about what is awaited, but for as many requests
\* as the last reset overtook.
THEOREM BusyTellsTheTruth == Spec => []OneAtATime
<1>1. IInv => OneAtATime
  BY DEF IInv, OrderState, Counted, OneAtATime
<1> QED
  BY <1>1, Invariance, PTL

\* On any page bill and service, receipt and transaction belong together, unless one
\* of them is the answer of a request that a reset overtook.
THEOREM PageIsConsistent == Spec => []ShownBelongsTogether
<1>1. IInv => ShownBelongsTogether
  BY DEF IInv, TypeOK, OrderState, Orderly, Traced, Follows, ShownBelongsTogether
<1> QED
  BY <1>1, Invariance, PTL

=============================================================================
