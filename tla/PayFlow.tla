------------------------------ MODULE PayFlow ------------------------------
(***************************************************************************)
(* The payment page of the web UI (src/server/web/src/PayFlow.tsx) in front *)
(* of the servers, which are the Ledger that GovPay implements.  The page   *)
(* asks with fetch and goes on taking input: Enter starts a look-up while   *)
(* another request is in flight, the selectors reset the form, the other    *)
(* tab unmounts it.  The answers come late, in any order, or not at all.    *)
(***************************************************************************)
EXTENDS Naturals, FiniteSets

CONSTANTS
  LookUps, Pays, RefNos, Bills, Payable, NoRef, NoTxn,  \* see Ledger
  Services,      \* the services GovPay+ lists
  NoService,     \* nothing selected
  Nothing        \* nothing shown

Asks == LookUps \cup Pays

ASSUME AsksAssumption == LookUps \cap Pays = {} /\ Nothing \notin Asks
ASSUME NoneAssumption ==
  NoService \notin Services /\ NoRef \notin RefNos /\ NoTxn \notin LookUps
ASSUME BillsAssumption == Payable \subseteq Bills /\ Bills \subseteq RefNos

VARIABLES
  listed,       \* the state of getServices: "loading", "loaded" or "failed"
  service,      \* serviceId: the service selected
  typed,        \* refNo: the content of the field, NoRef if empty
  presentment,  \* the look-up whose result is held, or Nothing
  receipt,      \* the pay whose receipt is held, or Nothing
  error,        \* whether an error message is shown
  busy,
  pending,      \* requests this mount of the page awaits
  wanted,       \* look-up -> the service it was asked for
  overtaken,    \* history: requests in flight when the page was last reset
  shown,        \* history: pays whose receipt has been shown
  ref, txn, answer, open, granted, paid   \* the servers, see Ledger

form    == << listed, service, typed >>
screen  == << presentment, receipt, error >>
awaited == << busy, pending >>
history == << wanted, overtaken, shown >>
page    == << form, screen, awaited, history >>
server  == << ref, txn, answer, open, granted, paid >>
vars    == << page, server >>

Server == INSTANCE Ledger

TypeOK ==
  /\ listed \in {"loading", "loaded", "failed"}
  /\ service \in Services \cup {NoService}
  /\ typed \in RefNos \cup {NoRef}
  /\ presentment \in LookUps \cup {Nothing}
  /\ receipt \in Pays \cup {Nothing}
  /\ error \in BOOLEAN /\ busy \in BOOLEAN
  /\ pending \in SUBSET Asks /\ overtaken \in SUBSET Asks
  /\ shown \in SUBSET Pays
  /\ wanted \in [LookUps -> Services \cup {NoService}]
  /\ Server!TypeOK

Init ==
  /\ listed = "loading"
  /\ service = NoService
  /\ typed = NoRef
  /\ presentment = Nothing /\ receipt = Nothing
  /\ error = FALSE /\ busy = FALSE
  /\ pending = {} /\ overtaken = {}
  /\ shown = {}
  /\ wanted = [l \in LookUps |-> NoService]
  /\ Server!Init

-----------------------------------------------------------------------------
(* The form *)

\* getServices answers and the first service is selected, if there is one.
Load ==
  /\ listed = "loading"
  /\ listed' = "loaded"
  /\ service' \in Services \cup {NoService}
  /\ UNCHANGED << typed, screen, awaited, history, server >>

LoadFails ==
  /\ listed = "loading"
  /\ listed' = "failed"
  /\ error' = TRUE
  /\ UNCHANGED << service, typed, presentment, receipt, awaited, history, server >>

\* Slip: the field shows another piece of state.
MutType(r) ==
  /\ typed' = service
  /\ UNCHANGED << listed, service, screen, awaited, history, server >>

Type(r) ==
  /\ typed' = r
  /\ UNCHANGED << listed, service, screen, awaited, history, server >>

\* Slip: the receipt and the error go, the bill stays on the page.
MutReset == UNCHANGED presentment /\ receipt' = Nothing /\ error' = FALSE

reset == presentment' = Nothing /\ receipt' = Nothing /\ error' = FALSE

\* What is in flight when the page is reset stays in flight.
Overtake == overtaken' = pending

\* Either selector: another sub-institution selects its first service, or none.
Select(s) ==
  /\ listed = "loaded"
  /\ s # service
  /\ service' = s
  /\ reset /\ Overtake
  /\ UNCHANGED << listed, typed, awaited, wanted, shown, server >>

NewPayment ==
  /\ receipt # Nothing
  /\ typed' = NoRef
  /\ reset /\ Overtake
  /\ UNCHANGED << listed, service, awaited, wanted, shown, server >>

\* The page is left for the Settings tab and comes back, or is reloaded: a new
\* mount, which the answers awaited by the old one do not reach.
Remount ==
  /\ listed' = "loading" /\ service' = NoService /\ typed' = NoRef
  /\ reset
  /\ busy' = FALSE /\ pending' = {} /\ overtaken' = {}
  /\ UNCHANGED << wanted, shown, server >>

-----------------------------------------------------------------------------
(* Requests and their answers *)

Send(h) == busy' = TRUE /\ pending' = pending \cup {h}

\* Enter in the field, at any time; the button does the same unless busy.
lookup(l) ==
  /\ service # NoService /\ typed # NoRef
  /\ Server!LookUp(l, typed)
  /\ reset /\ Overtake
  /\ Send(l)
  /\ wanted' = [wanted EXCEPT ![l] = service]
  /\ UNCHANGED << form, shown >>

\* Nothing selected or typed: nothing is sent.
LookUpIncomplete ==
  /\ service = NoService \/ typed = NoRef
  /\ presentment' = Nothing /\ receipt' = Nothing /\ error' = TRUE
  /\ Overtake
  /\ UNCHANGED << form, awaited, wanted, shown, server >>

\* Slip: the button is not disabled while busy.
MutCanPay ==
  /\ presentment # Nothing /\ receipt = Nothing
  /\ ref[presentment] \in Payable

\* The payment button is there and can be pressed.
CanPay ==
  /\ presentment # Nothing /\ receipt = Nothing
  /\ ~busy
  /\ ref[presentment] \in Payable

pay(y) ==
  /\ CanPay
  /\ Server!Pay(y, presentment)
  /\ error' = FALSE
  /\ Send(y)
  /\ UNCHANGED << form, presentment, receipt, history >>

\* Slip: no "finally".
MutSettle(h) ==
  /\ h \in pending
  /\ pending' = pending \ {h}
  /\ UNCHANGED << form, busy, wanted, overtaken, server >>

\* The promise of h settles; "finally" ends busy whoever else is in flight.
Settle(h) ==
  /\ h \in pending
  /\ pending' = pending \ {h}
  /\ busy' = FALSE
  /\ UNCHANGED << form, wanted, overtaken, server >>

Presented(l) ==
  /\ l \in LookUps /\ answer[l] = "ok"
  /\ Settle(l)
  /\ presentment' = l
  /\ UNCHANGED << receipt, error, shown >>

Paid(y) ==
  /\ y \in Pays /\ answer[y] = "ok"
  /\ Settle(y)
  /\ receipt' = y
  /\ shown' = shown \cup {y}
  /\ UNCHANGED << presentment, error >>

Fail(h) ==
  /\ Settle(h)
  /\ error' = TRUE
  /\ UNCHANGED << presentment, receipt, shown >>

\* An error answer; what the page shows besides stays.
Failed(h) == answer[h] \in {"refused", "unknown"} /\ Fail(h)

\* The connection breaks: fetch fails whatever the servers do or have done.
Lost(h) == Fail(h)

Answered(h) == Presented(h) \/ Paid(h) \/ Failed(h)

-----------------------------------------------------------------------------
Next ==
  \/ Load \/ LoadFails \/ NewPayment \/ Remount \/ LookUpIncomplete
  \/ \E r \in RefNos \cup {NoRef} : Type(r)
  \/ \E s \in Services \cup {NoService} : Select(s)
  \/ \E l \in LookUps : lookup(l)
  \/ \E y \in Pays : pay(y)
  \/ \E h \in Asks : Answered(h) \/ Lost(h)
  \/ Server!Serve /\ UNCHANGED page

Spec == Init /\ [][Next]_vars

\* GovPay answers every request (GovPay's EveryRequestAnswered), and the browser
\* delivers an answer that is there.  Nothing is assumed of the user.
Fairness == \A h \in Asks :
  /\ WF_vars(Server!Respond(h) /\ UNCHANGED page)
  /\ WF_vars(Answered(h))

FairSpec == Spec /\ Fairness

-----------------------------------------------------------------------------
(* Safety *)

\* Once a receipt was shown, whatever was pressed before or since and whichever
\* answers came late: the GO did take that payment, GovPay+ takes no other for
\* its transaction, and no page offers to pay it again (pay, reset).
PaidIsFinal ==
  \A y \in shown :
    /\ y \in granted
    /\ txn[y] \notin open
    /\ ~(CanPay /\ presentment = txn[y])

\* busy counts what is in flight: a spinner means that something is awaited, and
\* besides what the last reset overtook there is one request if busy is set and
\* none if not.  So one at a time on a page that is left alone while it waits, and
\* on any other no more than were sent by Enter or left behind by a selector
\* (setBusy, disabled={busy}, reset).
OneAtATime ==
  /\ busy => pending # {}
  /\ Cardinality(pending) <= Cardinality(overtaken) + (IF busy THEN 1 ELSE 0)

\* What is shown belongs together, the bill to the selected service and the
\* receipt to the transaction shown before; if not, the one or the other is the
\* late answer of a request that a reset overtook.  Without such a request no
\* error stands beside a receipt either (reset, setPresentment, setReceipt).
ShownBelongsTogether ==
  /\ presentment # Nothing /\ presentment \notin overtaken =>
       wanted[presentment] = service
  /\ receipt # Nothing =>
       \/ presentment = txn[receipt]
       \/ overtaken \cap {receipt, txn[receipt], presentment} # {}
  /\ receipt # Nothing /\ overtaken = {} => ~error

-----------------------------------------------------------------------------
(* Liveness *)

\* The page never waits for ever, whatever fails.
BusyEnds == busy ~> ~busy

=============================================================================
