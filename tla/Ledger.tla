------------------------------- MODULE Ledger -------------------------------
(***************************************************************************)
(* What GovPay+ and the GO behind it together promise a browser, with no   *)
(* handlers, sessions or calls in sight.  A look-up opens a transaction, a *)
(* pay of an open transaction is granted against the set of paid bills in  *)
(* one step, and the answer tells what is known: "ok" only of what was     *)
(* granted, "refused" only of what never will be, "unknown" of either.     *)
(* GovPay implements it and PayFlow builds on it.                          *)
(***************************************************************************)
CONSTANTS
  LookUps,   \* look-ups; each one names the transaction it opens
  Pays,
  RefNos,
  Bills,     \* the refNos the GO knows
  Payable,   \* the bills presented with an amount greater than zero
  NoRef, NoTxn

Asks == LookUps \cup Pays

VARIABLES
  ref,       \* look-up -> the refNo asked for, or NoRef
  txn,       \* pay -> the transaction to pay, or NoTxn
  answer,    \* request -> what the browser was told
  open,      \* transactions that can be paid
  granted,   \* requests the GO has judged "ok"
  paid       \* bills paid, as the GO remembers them

vars == << ref, txn, answer, open, granted, paid >>

Told == {"none", "waiting", "ok", "refused", "unknown"}

TypeOK ==
  /\ ref \in [LookUps -> RefNos \cup {NoRef}]
  /\ txn \in [Pays -> LookUps \cup {NoTxn}]
  /\ answer \in [Asks -> Told]
  /\ open \in SUBSET LookUps
  /\ granted \in SUBSET Asks
  /\ paid \in SUBSET Bills

Init ==
  /\ ref = [l \in LookUps |-> NoRef]
  /\ txn = [y \in Pays |-> NoTxn]
  /\ answer = [h \in Asks |-> "none"]
  /\ open = {}
  /\ granted = {}
  /\ paid = {}

Tell(h, told) == answer' = [answer EXCEPT ![h] = told]

\* A look-up that is not acceptable as it stands is refused at once.
LookUp(l, r) ==
  /\ answer[l] = "none"
  /\ ref' = [ref EXCEPT ![l] = r]
  /\ Tell(l, "waiting") \/ Tell(l, "refused")
  /\ UNCHANGED << txn, open, granted, paid >>

\* Only an open transaction with an amount to pay goes to the GO.
Pay(y, t) ==
  /\ answer[y] = "none"
  /\ txn' = [txn EXCEPT ![y] = t]
  /\ Tell(y, IF t \in open /\ ref[t] \in Payable THEN "waiting" ELSE "refused")
  /\ UNCHANGED << ref, open, granted, paid >>

\* The GO presents an unpaid bill, or takes its payment; the asker may have
\* been told "unknown" in the meantime.
GrantLookUp(l) ==
  /\ answer[l] \in {"waiting", "unknown"}
  /\ l \notin granted
  /\ ref[l] \in Bills \ paid
  /\ granted' = granted \cup {l}
  /\ UNCHANGED << ref, txn, answer, open, paid >>

GrantPay(y) ==
  /\ answer[y] \in {"waiting", "unknown"}
  /\ y \notin granted
  /\ ref[txn[y]] \in Bills \ paid
  /\ granted' = granted \cup {y}
  /\ paid' = paid \cup {ref[txn[y]]}
  /\ UNCHANGED << ref, txn, answer, open >>

\* A confirmed look-up opens its transaction, a confirmed pay closes it.
Confirm(h) ==
  /\ answer[h] = "waiting"
  /\ h \in granted
  /\ Tell(h, "ok")
  /\ open' = IF h \in LookUps THEN open \cup {h} ELSE open \ {txn[h]}
  /\ UNCHANGED << ref, txn, granted, paid >>

Refuse(h) ==
  /\ answer[h] = "waiting"
  /\ h \notin granted
  /\ Tell(h, "refused")
  /\ UNCHANGED << ref, txn, open, granted, paid >>

GiveUp(h) ==
  /\ answer[h] = "waiting"
  /\ Tell(h, "unknown")
  /\ UNCHANGED << ref, txn, open, granted, paid >>

\* GovPay+ restarts: nothing is open, and nobody is left to answer.
Close ==
  /\ open' = {}
  /\ answer' = [h \in Asks |-> IF answer[h] = "waiting" THEN "unknown" ELSE answer[h]]
  /\ UNCHANGED << ref, txn, granted, paid >>

\* The GO restarts.
Forget ==
  /\ paid' = {}
  /\ UNCHANGED << ref, txn, answer, open, granted >>

Respond(h) == Confirm(h) \/ Refuse(h) \/ GiveUp(h)

\* What the two servers do by themselves.
Serve ==
  \/ \E l \in LookUps : GrantLookUp(l)
  \/ \E y \in Pays : GrantPay(y)
  \/ \E h \in Asks : Respond(h)
  \/ Close
  \/ Forget

Next ==
  \/ \E l \in LookUps, r \in RefNos : LookUp(l, r)
  \/ \E y \in Pays, t \in LookUps : Pay(y, t)
  \/ Serve

Spec == Init /\ [][Next]_vars

=============================================================================
